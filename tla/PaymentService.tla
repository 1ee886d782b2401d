--------------------------- MODULE PaymentService ---------------------------
(***************************************************************************)
(* internal/service/payment.go behind internal/handler/payment.go: many    *)
(* HTTP requests run InitiatePayment, AuthorizePayment and SettlePayment   *)
(* at the same time, each in a database transaction on a pooled            *)
(* connection.  A statement that waits for a row, a connection or another  *)
(* transaction is a step of its own; what a request does between two such  *)
(* points is invisible to the others and belongs to one step.              *)
(***************************************************************************)
EXTENDS Repository, FiniteSets, FiniteSetsExt

CONSTANTS
    PoolSize,    \* connections of the pgxpool
    Callers,     \* account ids in the request context; None for ""
    WebhookURL,  \* whether WEBHOOK_URL is set
    Faults       \* failures that happen in a run; a bound of the model

ASSUME PoolSizeAssumption == PoolSize \in Nat \ {0}
ASSUME CallersAssumption == Callers \subseteq Accounts \cup {None}
ASSUME WebhookURLAssumption == WebhookURL \in BOOLEAN
ASSUME FaultsAssumption == Faults \subseteq {"abort", "lost_ack", "audit", "crash"}

VARIABLES
    pc,               \* the statement the request is about to execute
    op,               \* the operation it asked for
    caller,           \* callerAccountID
    tid,              \* id of the transaction it works on
    txn,              \* the Go variable txn: its immutable columns
    senderBalance,    \* results of the two UpdateBalance calls: uncommitted
    receiverBalance,  \*   balances of sender and receiver
    result,           \* outcome the handler answers with
    webhooks          \* webhook goroutines started, per transaction and event

locals == <<op, caller, tid, txn, senderBalance, receiverBalance>>
vars == <<tables, audit, locks, pc, locals, result, webhooks>>

\* Mutant: the audit row is written before the connection is given back.
InTx_HeldForAudit == {"insert", "fk_sender", "fk_receiver", "dup_lock",
                      "dup_rollback", "lock_txn", "lock_sender", "lock_first",
                      "lock_second", "debit", "credit", "commit", "audit"}

\* Where a request holds a connection and an open database transaction.
InTx == {"insert", "fk_sender", "fk_receiver", "dup_lock", "dup_rollback",
         "lock_txn", "lock_sender", "lock_first", "lock_second",
         "debit", "credit", "commit"}

Stages == InTx \cup {"idle", "accounts", "begin", "audit", "dispatch", "reply"}
Results == {"none", "ok", "bad_request", "forbidden", "unprocessable"}

TypeOK ==
    /\ RepoTypeOK
    /\ pc \in [Requests -> Stages]
    /\ op \in [Requests -> Ops \cup {"none"}]
    /\ caller \in [Requests -> Accounts \cup {None}]
    /\ tid \in [Requests -> TxnIds \cup {None}]
    /\ txn \in [Requests -> Payment \cup {None}]
    /\ senderBalance \in [Requests -> 0..MaxBigint]
    /\ receiverBalance \in [Requests -> 0..MaxBigint]
    /\ result \in [Requests -> Results]
    /\ webhooks \in [TxnIds -> [Ops -> Nat]]

\* The server has just started: no request is in progress.
NoRequests ==
    /\ pc = [r \in Requests |-> "idle"]
    /\ op = [r \in Requests |-> "none"]
    /\ caller = [r \in Requests |-> None]
    /\ tid = [r \in Requests |-> None]
    /\ txn = [r \in Requests |-> None]
    /\ senderBalance = [r \in Requests |-> 0]
    /\ receiverBalance = [r \in Requests |-> 0]
    /\ result = [r \in Requests |-> "none"]

Init ==
    /\ RepoInit
    /\ NoRequests
    /\ webhooks = [t \in TxnIds |-> [o \in Ops |-> 0]]
-----------------------------------------------------------------------------
(***************************************************************************)
(* Steps that several operations share.                                    *)
(***************************************************************************)
Goto(r, stage) ==
    /\ pc' = [pc EXCEPT ![r] = stage]
    /\ UNCHANGED result

Answer(r, res) ==
    /\ pc' = [pc EXCEPT ![r] = "reply"]
    /\ result' = [result EXCEPT ![r] = res]

\* Mutant: no deferred Rollback.
Refuse_NoRollback(r, res) ==
    /\ Answer(r, res)
    /\ UNCHANGED <<tables, audit, locks, locals, webhooks>>

\* An early return: the deferred Rollback ends the transaction.
Refuse(r, res) ==
    /\ EndTx(r)
    /\ Answer(r, res)
    /\ UNCHANGED <<tables, audit, locals, webhooks>>

\* pgxpool hands out a connection while fewer than PoolSize are in use.
PoolFree == Cardinality({q \in Requests : pc[q] \in InTx}) < PoolSize

\* BeginTx blocks until a connection is free.
BeginTx(r) ==
    /\ pc[r] = "begin"
    /\ PoolFree
    /\ Goto(r, IF op[r] = "initiate" THEN "insert" ELSE "lock_txn")
    /\ UNCHANGED <<tables, audit, locks, locals, webhooks>>

(***************************************************************************)
(* The tail of Commit: either the request learns that it committed and     *)
(* goes on, or the connection or the request context fails after           *)
(* PostgreSQL has committed and the caller gets an error.                  *)
(***************************************************************************)
AfterCommit(r) ==
    \/ Goto(r, IF op[r] = "authorize" THEN "dispatch" ELSE "audit")
    \/ "lost_ack" \in Faults /\ Answer(r, "unprocessable")
-----------------------------------------------------------------------------
(***************************************************************************)
(* InitiatePayment                                                         *)
(***************************************************************************)

\* The handler binds the body; amount must be gt=0.
BindInitiate(r) ==
    /\ pc[r] = "idle"
    /\ \E k \in Keys, s, v \in Accounts, m \in Amounts, c \in Currencies :
           /\ m > 0
           /\ txn' = [txn EXCEPT ![r] = [key |-> k, sender |-> s, receiver |-> v,
                                         amount |-> m, currency |-> c]]
    /\ op' = [op EXCEPT ![r] = "initiate"]
    /\ Goto(r, "accounts")
    /\ UNCHANGED <<tables, audit, locks, caller, tid, senderBalance,
                   receiverBalance, webhooks>>

\* Mutant: the receiver's currency is not compared.
VerifyAccounts_SenderOnly(r) ==
    /\ pc[r] = "accounts"
    /\ PoolFree
    /\ \/ currency[txn[r].sender] = txn[r].currency /\ Goto(r, "begin")
       \/ currency[txn[r].sender] # txn[r].currency /\ Answer(r, "unprocessable")
    /\ UNCHANGED <<tables, audit, locks, locals, webhooks>>

(***************************************************************************)
(* GetAccount of both parties and the comparison of currencies, before any *)
(* transaction.  Accounts are never deleted and never change currency, so  *)
(* the two reads are one step.                                             *)
(***************************************************************************)
VerifyAccounts(r) ==
    /\ pc[r] = "accounts"
    /\ PoolFree
    /\ LET ok == /\ currency[txn[r].sender] = txn[r].currency
                 /\ currency[txn[r].receiver] = txn[r].currency
       IN  \/ ok /\ Goto(r, "begin")
           \/ ~ok /\ Answer(r, "unprocessable")
    /\ UNCHANGED <<tables, audit, locks, locals, webhooks>>

\* q has inserted its row and has not committed it.
Uncommitted(q) ==
    /\ op[q] = "initiate"
    /\ pc[q] \in {"fk_sender", "fk_receiver", "commit"}

\* Mutant: SELECT, then INSERT, without the unique index.
Inserting_NotSeen(r) == {}

\* The other requests whose uncommitted row has the key of r.
Inserting(r) ==
    {q \in Requests \ {r} : Uncommitted(q) /\ txn[q].key = txn[r].key}

\* Ids that uuid.New() has given to uncommitted rows.
TakenIds == {tid[q] : q \in {u \in Requests : Uncommitted(u)}}

(***************************************************************************)
(* CreateTransactionIdempotent: INSERT ... ON CONFLICT DO NOTHING waits    *)
(* for an uncommitted row with the same key, then inserts or finds the     *)
(* committed one.                                                          *)
(***************************************************************************)
InsertTransaction(r) ==
    /\ pc[r] = "insert"
    /\ Inserting(r) = {}
    /\ \/ /\ RowsOfKey(txn[r].key) = {}
          /\ \E t \in TxnIds \ TakenIds :
                 /\ status[t] = "absent"
                 /\ tid' = [tid EXCEPT ![r] = t]
          /\ Goto(r, "fk_sender")
       \/ /\ \E t \in RowsOfKey(txn[r].key) : tid' = [tid EXCEPT ![r] = t]
          /\ Goto(r, "dup_lock")
    /\ UNCHANGED <<tables, audit, locks, op, caller, txn, senderBalance,
                   receiverBalance, webhooks>>

\* The foreign keys of the inserted row are checked at the end of the INSERT.
CheckSender(r) ==
    /\ pc[r] = "fk_sender"
    /\ CheckReference(r, txn[r].sender)
    /\ Goto(r, "fk_receiver")
    /\ UNCHANGED <<tables, audit, locals, webhooks>>

CheckReceiver(r) ==
    /\ pc[r] = "fk_receiver"
    /\ CheckReference(r, txn[r].receiver)
    /\ Goto(r, "commit")
    /\ UNCHANGED <<tables, audit, locals, webhooks>>

CommitInitiate(r) ==
    /\ pc[r] = "commit"
    /\ op[r] = "initiate"
    /\ payment' = [payment EXCEPT ![tid[r]] = txn[r]]
    /\ status' = [status EXCEPT ![tid[r]] = "pending"]
    /\ EndTx(r)
    /\ AfterCommit(r)
    /\ UNCHANGED <<currency, balance, ledger, audit, locals, webhooks>>

\* The key exists: GetTransactionByIdempotencyKeyForUpdate, then Rollback.
LockDuplicate(r) ==
    /\ pc[r] = "dup_lock"
    /\ GetTransactionForUpdate(r, tid[r])
    /\ Goto(r, "dup_rollback")
    /\ UNCHANGED <<tables, audit, locals, webhooks>>

\* Mutant: no early return for a duplicate.
ReturnDuplicate_FallsThrough(r) ==
    /\ pc[r] = "dup_rollback"
    /\ EndTx(r)
    /\ Goto(r, "audit")
    /\ UNCHANGED <<tables, audit, locals, webhooks>>

ReturnDuplicate(r) ==
    /\ pc[r] = "dup_rollback"
    /\ Refuse(r, "ok")
-----------------------------------------------------------------------------
(***************************************************************************)
(* AuthorizePayment and SettlePayment                                      *)
(***************************************************************************)
BindTransition(r, o) ==
    /\ pc[r] = "idle"
    /\ \E t \in TxnIds : tid' = [tid EXCEPT ![r] = t]
    /\ \E c \in Callers : caller' = [caller EXCEPT ![r] = c]
    /\ op' = [op EXCEPT ![r] = o]
    /\ Goto(r, "begin")
    /\ UNCHANGED <<tables, audit, locks, txn, senderBalance, receiverBalance,
                   webhooks>>

\* Who may move the payment on, and from which status.
Permitted(r, p) ==
    \/ caller[r] = None
    \/ caller[r] = p.sender
    \/ op[r] = "settle" /\ caller[r] = p.receiver

Expected(o) == IF o = "authorize" THEN "pending" ELSE "authorized"

\* Mutant: the status is not checked.
Ready_Unchecked(r) == status[tid[r]] # "absent"

Ready(r) == status[tid[r]] = Expected(op[r])

\* SELECT ... FOR UPDATE of the transaction and the checks that follow it.
LockTransaction(r) ==
    /\ pc[r] = "lock_txn"
    /\ TxnHolders(r, tid[r]) = {}
    /\ LET p == payment[tid[r]]
       IN  \/ /\ status[tid[r]] = "absent"
              /\ Refuse(r, "unprocessable")
           \/ /\ status[tid[r]] # "absent"
              /\ ~Permitted(r, p)
              /\ Refuse(r, "forbidden")
           \/ /\ status[tid[r]] # "absent"
              /\ Permitted(r, p)
              /\ ~Ready(r)
              /\ Refuse(r, "unprocessable")
           \/ /\ Ready(r)
              /\ Permitted(r, p)
              /\ GetTransactionForUpdate(r, tid[r])
              /\ txn' = [txn EXCEPT ![r] = p]
              /\ Goto(r, IF op[r] = "authorize" THEN "lock_sender" ELSE "lock_first")
              /\ UNCHANGED <<tables, audit, op, caller, tid, senderBalance,
                             receiverBalance, webhooks>>

\* Mutant: the balance is read without a lock.
LockSender_NoLock(r) ==
    /\ pc[r] = "lock_sender"
    /\ \/ /\ balance[txn[r].sender] >= txn[r].amount
          /\ Goto(r, "commit")
          /\ UNCHANGED <<tables, audit, locks, locals, webhooks>>
       \/ /\ balance[txn[r].sender] < txn[r].amount
          /\ Refuse(r, "unprocessable")

\* AuthorizePayment: lock the sender and compare its balance.
LockSender(r) ==
    /\ pc[r] = "lock_sender"
    /\ \/ /\ balance[txn[r].sender] >= txn[r].amount
          /\ GetAccountForUpdate(r, txn[r].sender)
          /\ Goto(r, "commit")
          /\ UNCHANGED <<tables, audit, locals, webhooks>>
       \/ /\ AccountHolders(r, txn[r].sender) = {}
          /\ balance[txn[r].sender] < txn[r].amount
          /\ Refuse(r, "unprocessable")

CommitAuthorize(r) ==
    /\ pc[r] = "commit"
    /\ op[r] = "authorize"
    /\ status' = [status EXCEPT ![tid[r]] = "authorized"]
    /\ EndTx(r)
    /\ AfterCommit(r)
    /\ UNCHANGED <<currency, balance, payment, ledger, audit, locals, webhooks>>

\* Mutant: sender first, whatever the ids.
LockOrder_SenderFirst(p) == <<p.sender, p.receiver>>

\* SettlePayment locks both accounts, the one with the smaller id first.
LockOrder(p) == IF p.sender < p.receiver THEN <<p.sender, p.receiver>>
                                         ELSE <<p.receiver, p.sender>>

LockFirst(r) ==
    /\ pc[r] = "lock_first"
    /\ GetAccountForUpdate(r, LockOrder(txn[r])[1])
    /\ Goto(r, "lock_second")
    /\ UNCHANGED <<tables, audit, locals, webhooks>>

LockSecond(r) ==
    /\ pc[r] = "lock_second"
    /\ GetAccountForUpdate(r, LockOrder(txn[r])[2])
    /\ Goto(r, "debit")
    /\ UNCHANGED <<tables, audit, locals, webhooks>>

\* UpdateBalance(sender, -amount): refused when the balance gets negative.
DebitSender(r) ==
    LET b == balance[txn[r].sender] - txn[r].amount
    IN  /\ pc[r] = "debit"
        /\ \/ /\ Storable(b)
              /\ senderBalance' = [senderBalance EXCEPT ![r] = b]
              /\ Goto(r, "credit")
              /\ UNCHANGED <<tables, audit, locks, op, caller, tid, txn,
                             receiverBalance, webhooks>>
           \/ ~Storable(b) /\ Refuse(r, "unprocessable")

\* Mutant: the credit starts from the balance before the debit.
CreditReceiver_Stale(r) ==
    LET b == balance[txn[r].receiver] + txn[r].amount
    IN  /\ pc[r] = "credit"
        /\ \/ /\ Storable(b)
              /\ receiverBalance' = [receiverBalance EXCEPT ![r] = b]
              /\ Goto(r, "commit")
              /\ UNCHANGED <<tables, audit, locks, op, caller, tid, txn,
                             senderBalance, webhooks>>
           \/ ~Storable(b) /\ Refuse(r, "unprocessable")

\* UpdateBalance(receiver, amount): sees the debit when receiver = sender.
CreditReceiver(r) ==
    LET seen == IF txn[r].receiver = txn[r].sender
                  THEN senderBalance[r] ELSE balance[txn[r].receiver]
        b == seen + txn[r].amount
    IN  /\ pc[r] = "credit"
        /\ \/ /\ Storable(b)
              /\ receiverBalance' = [receiverBalance EXCEPT ![r] = b]
              /\ Goto(r, "commit")
              /\ UNCHANGED <<tables, audit, locks, op, caller, tid, txn,
                             senderBalance, webhooks>>
           \/ ~Storable(b) /\ Refuse(r, "unprocessable")

\* Mutant: both ledger entries get the receiver's balance.
SettledEntries_ReceiverTwice(r) ==
    Post(Post(ledger, txn[r].sender,
              Entry(tid[r], "debit", txn[r].amount, receiverBalance[r])),
         txn[r].receiver,
         Entry(tid[r], "credit", txn[r].amount, receiverBalance[r]))

\* Both CreateLedgerEntry calls.
SettledEntries(r) ==
    Post(Post(ledger, txn[r].sender,
              Entry(tid[r], "debit", txn[r].amount, senderBalance[r])),
         txn[r].receiver,
         Entry(tid[r], "credit", txn[r].amount, receiverBalance[r]))

\* Both ledger entries, UpdateTransactionStatus and Commit.
CommitSettle(r) ==
    LET p == txn[r]
    IN  /\ pc[r] = "commit"
        /\ op[r] = "settle"
        /\ balance' = [[balance EXCEPT ![p.sender] = senderBalance[r]]
                           EXCEPT ![p.receiver] = receiverBalance[r]]
        /\ ledger' = SettledEntries(r)
        /\ status' = [status EXCEPT ![tid[r]] = "settled"]
        /\ EndTx(r)
        /\ AfterCommit(r)
        /\ UNCHANGED <<currency, payment, audit, locals, webhooks>>
-----------------------------------------------------------------------------
(***************************************************************************)
(* After the commit.                                                       *)
(***************************************************************************)

\* CreateAuditLog takes a connection again; its error is ignored.
WriteAudit(r) ==
    /\ pc[r] = "audit"
    /\ PoolFree
    /\ \/ CreateAuditLog(tid[r], op[r])
       \/ "audit" \in Faults /\ UNCHANGED audit
    /\ Goto(r, "dispatch")
    /\ UNCHANGED <<tables, locks, locals, webhooks>>

\* WebhookService.Dispatch starts a goroutine, if a URL is configured.
Dispatch(r) ==
    /\ pc[r] = "dispatch"
    /\ webhooks' = IF WebhookURL
                     THEN [webhooks EXCEPT ![tid[r]][op[r]] = @ + 1]
                     ELSE webhooks
    /\ Answer(r, "ok")
    /\ UNCHANGED <<tables, audit, locks, locals>>

\* The locals of a request that is over.
Forget(r) ==
    /\ op' = [op EXCEPT ![r] = "none"]
    /\ caller' = [caller EXCEPT ![r] = None]
    /\ tid' = [tid EXCEPT ![r] = None]
    /\ txn' = [txn EXCEPT ![r] = None]
    /\ senderBalance' = [senderBalance EXCEPT ![r] = 0]
    /\ receiverBalance' = [receiverBalance EXCEPT ![r] = 0]

\* The handler broadcasts on success, answers, and the request is over.
Reply(r) ==
    /\ pc[r] = "reply"
    /\ pc' = [pc EXCEPT ![r] = "idle"]
    /\ result' = [result EXCEPT ![r] = "none"]
    /\ Forget(r)
    /\ UNCHANGED <<tables, audit, locks, webhooks>>

\* A body or an id that does not parse: 400 before any statement.
RejectRequest(r) ==
    /\ pc[r] = "idle"
    /\ Answer(r, "bad_request")
    /\ UNCHANGED <<tables, audit, locks, locals, webhooks>>
-----------------------------------------------------------------------------
(***************************************************************************)
(* Failures.                                                               *)
(***************************************************************************)

\* Mutant: the error of Commit is not checked.
Fail_CommitUnchecked(r) ==
    /\ pc[r] \in InTx \cup {"accounts", "begin"}
    /\ Refuse(r, IF pc[r] = "commit" THEN "ok" ELSE "unprocessable")

(***************************************************************************)
(* A statement before the commit fails: the service returns the error and  *)
(* the deferred Rollback undoes everything.                                *)
(***************************************************************************)
Fail(r) ==
    /\ pc[r] \in InTx \cup {"accounts", "begin"}
    /\ Refuse(r, "unprocessable")

\* The request context is cancelled or the connection is lost.
Abort(r) == "abort" \in Faults /\ Fail(r)

\* Who waits for whom.
WaitsFor(r) ==
    CASE pc[r] = "insert" -> Inserting(r)
      [] pc[r] = "fk_sender" -> AccountWriters(r, txn[r].sender)
      [] pc[r] = "fk_receiver" -> AccountWriters(r, txn[r].receiver)
      [] pc[r] \in {"dup_lock", "lock_txn"} -> TxnHolders(r, tid[r])
      [] pc[r] = "lock_sender" -> AccountHolders(r, txn[r].sender)
      [] pc[r] = "lock_first" -> AccountHolders(r, LockOrder(txn[r])[1])
      [] pc[r] = "lock_second" -> AccountHolders(r, LockOrder(txn[r])[2])
      [] OTHER -> {}

\* Every member of the set waits for another member.
Deadlocked(S) == S # {} /\ \A r \in S : WaitsFor(r) \cap S # {}

(***************************************************************************)
(* PostgreSQL looks for a deadlock after deadlock_timeout and aborts the   *)
(* transaction that found it.                                              *)
(***************************************************************************)
BreakDeadlock(r) ==
    /\ \E S \in SUBSET Requests : r \in S /\ Deadlocked(S)
    /\ Fail(r)

\* The server process dies; PostgreSQL rolls back its open transactions.
Crash ==
    /\ "crash" \in Faults
    /\ \E r \in Requests : pc[r] # "idle"
    /\ xacct' = [r \in Requests |-> {}]
    /\ sacct' = [r \in Requests |-> {}]
    /\ xtxn' = [r \in Requests |-> {}]
    /\ pc' = [r \in Requests |-> "idle"]
    /\ op' = [r \in Requests |-> "none"]
    /\ caller' = [r \in Requests |-> None]
    /\ tid' = [r \in Requests |-> None]
    /\ txn' = [r \in Requests |-> None]
    /\ senderBalance' = [r \in Requests |-> 0]
    /\ receiverBalance' = [r \in Requests |-> 0]
    /\ result' = [r \in Requests |-> "none"]
    /\ UNCHANGED <<tables, audit, webhooks>>
-----------------------------------------------------------------------------
\* POST /api/v1/accounts: one statement on a connection of the pool.
NewAccount ==
    /\ PoolFree
    /\ \E a \in Accounts, c \in Currencies, b \in Openings : CreateAccount(a, c, b)
    /\ UNCHANGED <<pc, locals, result, webhooks>>

\* A request arrives.
Arrive(r) ==
    \/ BindInitiate(r)
    \/ BindTransition(r, "authorize")
    \/ BindTransition(r, "settle")
    \/ RejectRequest(r)

\* The request takes its next step.
Proceed(r) ==
    \/ BeginTx(r)
    \/ VerifyAccounts(r)
    \/ InsertTransaction(r)
    \/ CheckSender(r)
    \/ CheckReceiver(r)
    \/ CommitInitiate(r)
    \/ LockDuplicate(r)
    \/ ReturnDuplicate(r)
    \/ LockTransaction(r)
    \/ LockSender(r)
    \/ CommitAuthorize(r)
    \/ LockFirst(r)
    \/ LockSecond(r)
    \/ DebitSender(r)
    \/ CreditReceiver(r)
    \/ CommitSettle(r)
    \/ WriteAudit(r)
    \/ Dispatch(r)
    \/ Reply(r)

Next ==
    \/ NewAccount
    \/ \E r \in Requests : Arrive(r) \/ Proceed(r) \/ Abort(r) \/ BreakDeadlock(r)
    \/ Crash

Spec == Init /\ [][Next]_vars

(***************************************************************************)
(* A request goroutine is always scheduled again.  PostgreSQL serves the   *)
(* waiters of a row, and the pool the waiters for a connection, in turn:   *)
(* a wait that can end again and again does end (strong fairness).         *)
(* Nobody has to send requests, and failures need not happen, except that  *)
(* a deadlock is broken.                                                   *)
(***************************************************************************)
Fairness ==
    \A r \in Requests : SF_vars(Proceed(r)) /\ WF_vars(BreakDeadlock(r))

FairSpec == Spec /\ Fairness
-----------------------------------------------------------------------------
(***************************************************************************)
(* Properties.                                                             *)
(***************************************************************************)
Abs == INSTANCE AtomicPayments

(***************************************************************************)
(* The concurrent service implements AtomicPayments: whatever the          *)
(* interleaving of requests, failures and crashes, the committed tables    *)
(* change only by whole operations on values that are still true when they *)
(* are written.                                                            *)
(***************************************************************************)
ImplementsAtomicPayments == Abs!Spec

\* README "Idempotency": one transaction per idempotency key.
OneTransactionPerKey == Abs!OneTransactionPerKey

\* README "Double-Entry Bookkeeping": one debit and one credit when settled.
DoubleEntry == Abs!DoubleEntry

\* balance_after of the ledger entries replays to the balance.
LedgerReplays == Abs!LedgerReplays

\* A transaction has the currency of both its accounts.
SameCurrency == Abs!SameCurrency

\* The sum of the balances held in currency c.
Total(c) ==
    MapThenSumSet(LAMBDA a : balance[a], {a \in Accounts : currency[a] = c})

(***************************************************************************)
(* Money is neither created nor destroyed in any currency, except by the   *)
(* opening balance of a new account.                                       *)
(***************************************************************************)
MoneyConserved ==
    [][UNCHANGED currency => \A c \in Currencies : Total(c)' = Total(c)]_vars

(***************************************************************************)
(* What isValidTransition of payment_test.go allows, for the statuses that *)
(* any code writes.                                                        *)
(***************************************************************************)
ValidTransition(from, to) ==
    <<from, to>> \in {<<"absent", "pending">>, <<"pending", "authorized">>,
                      <<"authorized", "settled">>}

(***************************************************************************)
(* A transaction never skips a status, goes back, or moves twice to the    *)
(* same status, and its amount and parties never change: two requests can  *)
(* not both settle one payment.                                            *)
(***************************************************************************)
LifecycleRespected ==
    [][\A t \in TxnIds :
          /\ status'[t] # status[t] => ValidTransition(status[t], status'[t])
          /\ status[t] # "absent" => payment'[t] = payment[t]]_vars

(***************************************************************************)
(* The balances that UpdateBalance returned are still those of the         *)
(* committed rows plus the payment's own delta when they are written to    *)
(* the ledger: no other request changes an account in between.             *)
(***************************************************************************)
NoLostUpdate ==
    \A r \in Requests : op[r] = "settle" =>
        /\ pc[r] \in {"credit", "commit"} =>
               senderBalance[r] = balance[txn[r].sender] - txn[r].amount
        /\ pc[r] = "commit" =>
               receiverBalance[r] =
                   (IF txn[r].receiver = txn[r].sender
                      THEN senderBalance[r] ELSE balance[txn[r].receiver])
                   + txn[r].amount

\* The statuses a transaction can have after the event of operation o.
Reached(o) ==
    CASE o = "initiate" -> {"pending", "authorized", "settled"}
      [] o = "authorize" -> {"authorized", "settled"}
      [] o = "settle" -> {"settled"}

(***************************************************************************)
(* A request answered with success names a committed transaction that has  *)
(* reached the status the operation promises; for InitiatePayment it is    *)
(* the transaction of the request's own idempotency key, duplicates        *)
(* included.                                                               *)
(***************************************************************************)
SuccessIsDurable ==
    \A r \in Requests : result[r] = "ok" =>
        /\ status[tid[r]] \in Reached(op[r])
        /\ op[r] = "initiate" => payment[tid[r]].key = txn[r].key

(***************************************************************************)
(* Audit rows and webhooks report only what has been committed, and each   *)
(* event of a transaction at most once, whatever is retried.               *)
(***************************************************************************)
NotifiedOnceAndTruly ==
    \A t \in TxnIds, o \in Ops :
        /\ audit[t][o] + webhooks[t][o] > 0 => status[t] \in Reached(o)
        /\ audit[t][o] <= 1
        /\ webhooks[t][o] <= 1

(***************************************************************************)
(* "Order by ID to prevent deadlocks" (SettlePayment), among the requests  *)
(* that lock rows explicitly: authorizations, settlements and duplicate    *)
(* initiations never wait for each other in a circle.                      *)
(***************************************************************************)
ExplicitLocksDeadlockFree ==
    \A S \in SUBSET {r \in Requests : ~Uncommitted(r)} : ~Deadlocked(S)

(***************************************************************************)
(* Every request is answered: no request waits forever for a row lock, for *)
(* another request's key or for a connection of the pool.                  *)
(***************************************************************************)
EveryRequestEnds ==
    \A r \in Requests : pc[r] # "idle" ~> pc[r] = "idle"
=============================================================================
