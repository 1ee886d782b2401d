----------------------------- MODULE Repository -----------------------------
(***************************************************************************)
(* internal/repository/postgres.go on PostgreSQL: the committed tables and *)
(* the row locks of the open database transactions.  A database            *)
(* transaction belongs to the request that began it; at READ COMMITTED     *)
(* its writes are invisible to the others until it commits, so they are    *)
(* kept with the request (module PaymentService) and reach the tables in   *)
(* the commit.                                                             *)
(***************************************************************************)
EXTENDS PaymentModel

CONSTANTS
    Requests,   \* HTTP requests that are processed at the same time
    Openings    \* opening balances that clients ask for

VARIABLES
    currency,   \* accounts.currency, None while the account does not exist
    balance,    \* accounts.balance
    payment,    \* the immutable columns of transactions
    status,     \* transactions.status
    ledger,     \* ledger_entries of each account, in the order of creation
    audit,      \* number of audit_log rows of each transaction and action
    xacct,      \* account rows that a request holds FOR UPDATE
    sacct,      \* account rows that a request holds FOR KEY SHARE
    xtxn        \* transaction rows that a request holds FOR UPDATE

tables == <<currency, balance, payment, status, ledger>>
locks == <<xacct, sacct, xtxn>>

Ops == {"initiate", "authorize", "settle"}

RepoTypeOK ==
    /\ currency \in [Accounts -> Currencies \cup {None}]
    /\ balance \in [Accounts -> 0..MaxBigint]
    /\ payment \in [TxnIds -> Payment \cup {None}]
    /\ status \in [TxnIds -> RowStatus]
    /\ ledger \in [Accounts -> Seq(LedgerEntry)]
    /\ audit \in [TxnIds -> [Ops -> Nat]]
    /\ xacct \in [Requests -> SUBSET Accounts]
    /\ sacct \in [Requests -> SUBSET Accounts]
    /\ xtxn \in [Requests -> SUBSET TxnIds]

\* No database transaction is open.
NoLocks ==
    /\ xacct = [r \in Requests |-> {}]
    /\ sacct = [r \in Requests |-> {}]
    /\ xtxn = [r \in Requests |-> {}]

\* The tables as the migration leaves them.
RepoInit ==
    /\ currency = [a \in Accounts |-> None]
    /\ balance = [a \in Accounts |-> 0]
    /\ payment = [t \in TxnIds |-> None]
    /\ status = [t \in TxnIds |-> "absent"]
    /\ ledger = [a \in Accounts |-> << >>]
    /\ audit = [t \in TxnIds |-> [o \in Ops |-> 0]]
    /\ NoLocks
-----------------------------------------------------------------------------
(***************************************************************************)
(* Row locks.  FOR UPDATE excludes every other lock on the row.  FOR KEY   *)
(* SHARE, which PostgreSQL takes on the referenced row when it checks a    *)
(* foreign key, excludes only FOR UPDATE.                                  *)
(***************************************************************************)
AccountHolders(r, a) == {q \in Requests \ {r} : a \in xacct[q] \cup sacct[q]}
AccountWriters(r, a) == {q \in Requests \ {r} : a \in xacct[q]}

\* Mutant: SELECT of the transaction without FOR UPDATE.
TxnHolders_NoLock(r, t) == {}

TxnHolders(r, t) == {q \in Requests \ {r} : t \in xtxn[q]}

\* Mutant: SELECT of the account without FOR UPDATE.
GetAccountForUpdate_NoLock(r, a) == UNCHANGED locks

\* SELECT ... FROM accounts ... FOR UPDATE: returns once the row is free.
GetAccountForUpdate(r, a) ==
    /\ AccountHolders(r, a) = {}
    /\ xacct' = [xacct EXCEPT ![r] = @ \cup {a}]
    /\ UNCHANGED <<sacct, xtxn>>

\* The check of a foreign key that references account a.
CheckReference(r, a) ==
    /\ AccountWriters(r, a) = {}
    /\ sacct' = [sacct EXCEPT ![r] = @ \cup {a}]
    /\ UNCHANGED <<xacct, xtxn>>

\* SELECT ... FROM transactions ... FOR UPDATE, by id or by idempotency key.
GetTransactionForUpdate(r, t) ==
    /\ TxnHolders(r, t) = {}
    /\ xtxn' = [xtxn EXCEPT ![r] = @ \cup {t}]
    /\ UNCHANGED <<xacct, sacct>>

\* Commit and Rollback both end the database transaction and its locks.
EndTx(r) ==
    /\ xacct' = [xacct EXCEPT ![r] = {}]
    /\ sacct' = [sacct EXCEPT ![r] = {}]
    /\ xtxn' = [xtxn EXCEPT ![r] = {}]

\* The committed row with this idempotency key, if any.
RowsOfKey(k) == {t \in TxnIds : status[t] # "absent" /\ payment[t].key = k}

\* Mutant: no chk_balance_non_negative.
Storable_Negative(b) == b <= MaxBigint

\* The value UPDATE accounts may store: chk_balance_non_negative and BIGINT.
Storable(b) == b \in 0..MaxBigint

\* INSERT INTO audit_log, on a connection of its own.
CreateAuditLog(t, o) == audit' = [audit EXCEPT ![t][o] = @ + 1]

(***************************************************************************)
(* POST /api/v1/accounts: one INSERT.  PostgreSQL refuses a negative       *)
(* balance (chk_balance_non_negative); the id is new.                      *)
(***************************************************************************)
CreateAccount(a, c, b) ==
    /\ currency[a] = None
    /\ Storable(b)
    /\ currency' = [currency EXCEPT ![a] = c]
    /\ balance' = [balance EXCEPT ![a] = b]
    /\ UNCHANGED <<payment, status, ledger, audit, locks>>
=============================================================================
