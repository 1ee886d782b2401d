------------------------ MODULE PaymentServiceProofs ------------------------
(***************************************************************************)
(* The concurrent service keeps its invariants and implements              *)
(* AtomicPayments for any number of requests, accounts, payments, keys and *)
(* connections, and under any of the modelled failures.                    *)
(***************************************************************************)
EXTENDS PaymentService, WellFoundedInduction, FiniteSetTheorems, TLAPS

\* The assumptions of PaymentModel and PaymentService that the proofs use.
LEMMA Constants ==
    /\ MaxBigint \in Nat
    /\ Callers \subseteq Accounts \cup {None}
    /\ \A p \in Payment : /\ p.key \in Keys
                          /\ p.sender \in Accounts
                          /\ p.receiver \in Accounts
                          /\ p.amount \in Int
                          /\ p.amount > 0
                          /\ p.currency \in Currencies
                          /\ p.currency # None
    /\ None \notin TxnIds
<1>1. \A p \in Payment : p.currency \in Currencies /\ p.currency # None
  BY NoneAssumption DEF Payment
<1>2. \A p \in Payment : p.amount \in Int /\ p.amount > 0
  BY AmountsAssumption DEF Payment
<1> QED
  BY <1>1, <1>2, MaxBigintAssumption, CallersAssumption, NoneAssumption DEF Payment

-----------------------------------------------------------------------------
(***************************************************************************)
(* Type correctness in three parts: what the database stores, the row      *)
(* locks, and what the server process has in memory.                       *)
(***************************************************************************)
TablesType ==
    /\ currency \in [Accounts -> Currencies \cup {None}]
    /\ balance \in [Accounts -> 0..MaxBigint]
    /\ payment \in [TxnIds -> Payment \cup {None}]
    /\ status \in [TxnIds -> RowStatus]
    /\ ledger \in [Accounts -> Seq(LedgerEntry)]
    /\ audit \in [TxnIds -> [Ops -> Nat]]
    /\ webhooks \in [TxnIds -> [Ops -> Nat]]

LocksType ==
    /\ xacct \in [Requests -> SUBSET Accounts]
    /\ sacct \in [Requests -> SUBSET Accounts]
    /\ xtxn \in [Requests -> SUBSET TxnIds]

PcType == pc \in [Requests -> Stages] /\ result \in [Requests -> Results]

LocalsType ==
    /\ op \in [Requests -> Ops \cup {"none"}]
    /\ caller \in [Requests -> Accounts \cup {None}]
    /\ tid \in [Requests -> TxnIds \cup {None}]
    /\ txn \in [Requests -> Payment \cup {None}]
    /\ senderBalance \in [Requests -> 0..MaxBigint]
    /\ receiverBalance \in [Requests -> 0..MaxBigint]

LEMMA TypeParts ==
    /\ TypeOK <=> TablesType /\ LocksType /\ PcType /\ LocalsType
    /\ TypeOK' <=> TablesType' /\ LocksType' /\ PcType' /\ LocalsType'
BY DEF TypeOK, RepoTypeOK, TablesType, LocksType, PcType, LocalsType

\* What a step of another request leaves alone.
SameLocks(q) == xacct'[q] = xacct[q] /\ sacct'[q] = sacct[q] /\ xtxn'[q] = xtxn[q]

SameLocals(q) ==
    /\ op'[q] = op[q]
    /\ tid'[q] = tid[q]
    /\ txn'[q] = txn[q]
    /\ senderBalance'[q] = senderBalance[q]
    /\ receiverBalance'[q] = receiverBalance[q]

Same(q) == pc'[q] = pc[q] /\ SameLocks(q) /\ SameLocals(q)

Others(r) == \A q \in Requests \ {r} : Same(q)

-----------------------------------------------------------------------------
(***************************************************************************)
(* What the shared steps do.                                               *)
(***************************************************************************)
LEMMA GotoEffect ==
    ASSUME PcType, NEW r \in Requests, NEW stage \in Stages, Goto(r, stage)
    PROVE  PcType' /\ pc'[r] = stage /\ \A q \in Requests \ {r} : pc'[q] = pc[q]
BY DEF PcType, Goto

LEMMA AnswerEffect ==
    ASSUME PcType, NEW r \in Requests, NEW res \in Results, Answer(r, res)
    PROVE  PcType' /\ pc'[r] = "reply" /\ \A q \in Requests \ {r} : pc'[q] = pc[q]
BY DEF PcType, Answer, Stages

LEMMA EndTxEffect ==
    ASSUME LocksType, NEW r \in Requests, EndTx(r)
    PROVE  /\ LocksType'
           /\ xacct'[r] = {} /\ sacct'[r] = {} /\ xtxn'[r] = {}
           /\ \A q \in Requests \ {r} : SameLocks(q)
BY DEF LocksType, EndTx, SameLocks

LEMMA LocalsUnchanged ==
    ASSUME LocalsType, UNCHANGED locals
    PROVE  LocalsType' /\ \A q \in Requests : SameLocals(q)
BY DEF LocalsType, locals, SameLocals

LEMMA LocksUnchanged ==
    ASSUME LocksType, UNCHANGED locks
    PROVE  LocksType' /\ \A q \in Requests : SameLocks(q)
BY DEF LocksType, locks, SameLocks

LEMMA TablesUnchanged ==
    ASSUME TablesType, UNCHANGED <<tables, audit, webhooks>>
    PROVE  TablesType'
BY DEF TablesType, tables

LEMMA AfterCommitEffect ==
    ASSUME PcType, NEW r \in Requests, AfterCommit(r)
    PROVE  /\ PcType'
           /\ pc'[r] \in {"audit", "dispatch", "reply"}
           /\ \A q \in Requests \ {r} : pc'[q] = pc[q]
<1>1. CASE Goto(r, IF op[r] = "authorize" THEN "dispatch" ELSE "audit")
  BY <1>1, GotoEffect DEF Stages
<1>2. CASE Answer(r, "unprocessable")
  BY <1>2, AnswerEffect DEF Results
<1> QED
  BY <1>1, <1>2 DEF AfterCommit

LEMMA RefuseEffect ==
    ASSUME TypeOK, NEW r \in Requests, NEW res \in Results, Refuse(r, res)
    PROVE  /\ TypeOK'
           /\ Others(r)
           /\ SameLocals(r)
           /\ pc'[r] = "reply"
           /\ xacct'[r] = {} /\ sacct'[r] = {} /\ xtxn'[r] = {}
           /\ UNCHANGED tables
<1>1. TablesType /\ LocksType /\ PcType /\ LocalsType
  BY TypeParts
<1>2. EndTx(r) /\ Answer(r, res) /\ UNCHANGED <<tables, audit, locals, webhooks>>
  BY DEF Refuse
<1>3. TablesType'
  BY <1>1, <1>2, TablesUnchanged
<1> QED
  BY <1>1, <1>2, <1>3, TypeParts, EndTxEffect, AnswerEffect, LocalsUnchanged DEF Others, Same

-----------------------------------------------------------------------------
(***************************************************************************)
(* The inductive invariant.                                                *)
(***************************************************************************)
RowsArePayments ==
    \A t \in TxnIds : status[t] # "absent" => payment[t] \in Payment

(***************************************************************************)
(* FOR UPDATE excludes every other lock on the row: the reason why values  *)
(* read under it stay true until the commit.                               *)
(***************************************************************************)
Exclusion ==
    \A q, r \in Requests : q # r =>
        /\ xacct[q] \cap (xacct[r] \cup sacct[r]) = {}
        /\ xtxn[q] \cap xtxn[r] = {}

\* Rows inserted and not committed have different ids and different keys.
InsertsDistinct ==
    \A q, r \in Requests : q # r /\ Uncommitted(q) /\ Uncommitted(r) =>
        /\ tid[q] # tid[r]
        /\ txn[q].key # txn[r].key

\* Which operation a request can be in at each stage.
StageOfOp(r) ==
    /\ pc[r] \in {"accounts", "insert", "fk_sender", "fk_receiver",
                  "dup_lock", "dup_rollback"} => op[r] = "initiate"
    /\ pc[r] = "lock_txn" => op[r] \in {"authorize", "settle"}
    /\ pc[r] = "lock_sender" => op[r] = "authorize"
    /\ pc[r] \in {"lock_first", "lock_second", "debit", "credit"} => op[r] = "settle"
    /\ pc[r] \in {"begin", "commit", "audit", "dispatch"} => op[r] \in Ops
    /\ op[r] \in {"authorize", "settle"} => tid[r] \in TxnIds
    /\ pc[r] \in {"dup_lock", "dup_rollback", "audit", "dispatch"} => tid[r] \in TxnIds

\* InitiatePayment: what has been verified and inserted is still true.
Initiating(r) ==
    op[r] = "initiate" =>
        /\ txn[r] \in Payment
        /\ pc[r] \in {"begin", "insert", "fk_sender", "fk_receiver", "commit"} =>
               /\ currency[txn[r].sender] = txn[r].currency
               /\ currency[txn[r].receiver] = txn[r].currency
        /\ Uncommitted(r) =>
               /\ tid[r] \in TxnIds
               /\ status[tid[r]] = "absent"
               /\ \A t \in TxnIds : status[t] # "absent" => payment[t].key # txn[r].key

\* The transaction row is locked and its status has been checked.
Holding(r) ==
    \/ pc[r] \in {"lock_sender", "lock_first", "lock_second", "debit", "credit"}
    \/ pc[r] = "commit" /\ op[r] # "initiate"

\* What was read under the lock of the transaction row is still true.
Moving(r) ==
    Holding(r) =>
        /\ tid[r] \in xtxn[r]
        /\ status[tid[r]] = Expected(op[r])
        /\ txn[r] = payment[tid[r]]

\* What was read or computed under the locks of account rows is still true.
Paying(r) ==
    /\ pc[r] = "commit" /\ op[r] = "authorize" =>
           /\ txn[r].sender \in xacct[r]
           /\ txn[r].amount <= balance[txn[r].sender]
    /\ pc[r] = "lock_second" => LockOrder(txn[r])[1] \in xacct[r]
    /\ pc[r] \in {"debit", "credit", "commit"} /\ op[r] = "settle" =>
           txn[r].sender \in xacct[r] /\ txn[r].receiver \in xacct[r]
    /\ pc[r] \in {"credit", "commit"} /\ op[r] = "settle" =>
           senderBalance[r] = balance[txn[r].sender] - txn[r].amount
    /\ pc[r] = "commit" /\ op[r] = "settle" =>
           receiverBalance[r] =
               (IF txn[r].receiver = txn[r].sender
                  THEN senderBalance[r] ELSE balance[txn[r].receiver])
               + txn[r].amount

Local(r) == StageOfOp(r) /\ Initiating(r) /\ Moving(r) /\ Paying(r)

IInv ==
    /\ TypeOK
    /\ RowsArePayments
    /\ SameCurrency
    /\ Exclusion
    /\ InsertsDistinct
    /\ \A r \in Requests : Local(r)

LEMMA InitIInv == Init => IInv
<1> SUFFICES ASSUME Init PROVE IInv
  OBVIOUS
<1>1. TablesType
  <2>1. << >> \in Seq(LedgerEntry)
    OBVIOUS
  <2>2. ledger \in [Accounts -> Seq(LedgerEntry)]
    BY <2>1 DEF Init, RepoInit
  <2> QED
    BY <2>2, Constants DEF Init, RepoInit, TablesType, RowStatus, Status
<1>2. LocksType
  BY DEF Init, RepoInit, NoLocks, LocksType
<1>3. PcType /\ LocalsType
  BY Constants DEF Init, NoRequests, PcType, LocalsType, Stages, Results
<1>4. TypeOK
  BY <1>1, <1>2, <1>3, TypeParts
<1>5. RowsArePayments /\ SameCurrency
  BY DEF Init, RepoInit, RowsArePayments, SameCurrency, Abs!SameCurrency
<1>6. Exclusion
  BY DEF Init, RepoInit, NoLocks, Exclusion
<1>7. \A r \in Requests : pc[r] = "idle" /\ op[r] = "none"
  BY DEF Init, NoRequests
<1>8. InsertsDistinct
  BY <1>7 DEF InsertsDistinct, Uncommitted
<1>9. \A r \in Requests : Local(r)
  BY <1>7 DEF Local, StageOfOp, Initiating, Moving, Holding, Paying
<1> QED
  BY <1>4, <1>5, <1>6, <1>8, <1>9 DEF IInv

-----------------------------------------------------------------------------
(***************************************************************************)
(* Frames: what a step of request r cannot disturb.                        *)
(***************************************************************************)

\* A request keeps its part of the invariant when nothing it sees changes.
LEMMA LocalFrame ==
    ASSUME NEW q \in Requests, Local(q), Same(q), UNCHANGED tables
    PROVE  Local(q)'
<1> USE DEF Same, SameLocks, SameLocals, tables
<1>1. StageOfOp(q)'
  BY DEF Local, StageOfOp
<1>2. Initiating(q)'
  BY DEF Local, Initiating, Uncommitted
<1>3. Moving(q)'
  BY DEF Local, Moving, Holding, Expected
<1>4. Paying(q)'
  BY DEF Local, Paying, LockOrder
<1> QED
  BY <1>1, <1>2, <1>3, <1>4 DEF Local

\* Giving locks back, or keeping them, preserves exclusion.
LEMMA ExclusionFrame ==
    ASSUME NEW r \in Requests, Exclusion, \A q \in Requests \ {r} : SameLocks(q),
           xacct'[r] \subseteq xacct[r], sacct'[r] \subseteq sacct[r],
           xtxn'[r] \subseteq xtxn[r]
    PROVE  Exclusion'
BY DEF Exclusion, SameLocks

\* A step of r that leaves the tables alone and inserts no row.
LEMMA QuietStep ==
    ASSUME IInv, NEW r \in Requests, TypeOK', Others(r), UNCHANGED tables,
           Exclusion', Local(r)',
           Uncommitted(r)' => Uncommitted(r) /\ tid'[r] = tid[r] /\ txn'[r] = txn[r]
    PROVE  IInv'
<1>1. RowsArePayments'
  BY DEF IInv, RowsArePayments, tables
<1>2. SameCurrency'
  BY DEF IInv, SameCurrency, Abs!SameCurrency, tables
<1>3. \A q \in Requests \ {r} :
          Uncommitted(q)' => Uncommitted(q) /\ tid'[q] = tid[q] /\ txn'[q] = txn[q]
  BY DEF Others, Same, SameLocals, Uncommitted
<1>4. InsertsDistinct'
  BY <1>3 DEF IInv, InsertsDistinct
<1>5. \A q \in Requests : Local(q)'
  BY LocalFrame DEF IInv, Others
<1> QED
  BY <1>1, <1>2, <1>4, <1>5 DEF IInv

LEMMA RefuseStep ==
    ASSUME IInv, NEW r \in Requests, NEW res \in Results, Refuse(r, res)
    PROVE  IInv'
<1>1. /\ TypeOK'
      /\ Others(r)
      /\ SameLocals(r)
      /\ pc'[r] = "reply"
      /\ xacct'[r] = {} /\ sacct'[r] = {} /\ xtxn'[r] = {}
      /\ UNCHANGED tables
  BY RefuseEffect DEF IInv
<1>2. Exclusion'
  BY <1>1, ExclusionFrame DEF IInv, Others, Same
<1>3. Local(r)
  BY DEF IInv
<1>4. Local(r)'
  BY <1>1, <1>3 DEF SameLocals, Local, StageOfOp, Initiating, Uncommitted, Moving,
                    Holding, Paying
<1>5. ~Uncommitted(r)'
  BY <1>1 DEF Uncommitted
<1> QED
  BY <1>1, <1>2, <1>4, <1>5, QuietStep

-----------------------------------------------------------------------------
(***************************************************************************)
(* Acquiring a lock that is free preserves exclusion.                      *)
(***************************************************************************)
LEMMA AccountLocked ==
    ASSUME LocksType, Exclusion, NEW r \in Requests, NEW a \in Accounts,
           GetAccountForUpdate(r, a)
    PROVE  /\ LocksType' /\ Exclusion'
           /\ xacct'[r] = xacct[r] \cup {a} /\ sacct'[r] = sacct[r] /\ xtxn'[r] = xtxn[r]
           /\ \A q \in Requests \ {r} : SameLocks(q)
<1>1. \A q \in Requests \ {r} : a \notin xacct[q] \cup sacct[q]
  BY DEF GetAccountForUpdate, AccountHolders
<1>2. /\ LocksType'
      /\ xacct'[r] = xacct[r] \cup {a} /\ sacct'[r] = sacct[r] /\ xtxn'[r] = xtxn[r]
      /\ \A q \in Requests \ {r} : SameLocks(q)
  BY DEF GetAccountForUpdate, LocksType, SameLocks
<1>3. Exclusion'
  BY <1>1, <1>2 DEF Exclusion, SameLocks
<1> QED
  BY <1>2, <1>3

LEMMA ReferenceChecked ==
    ASSUME LocksType, Exclusion, NEW r \in Requests, NEW a \in Accounts,
           CheckReference(r, a)
    PROVE  /\ LocksType' /\ Exclusion'
           /\ xacct'[r] = xacct[r] /\ xtxn'[r] = xtxn[r]
           /\ \A q \in Requests \ {r} : SameLocks(q)
<1>1. \A q \in Requests \ {r} : a \notin xacct[q]
  BY DEF CheckReference, AccountWriters
<1>2. /\ LocksType'
      /\ xacct'[r] = xacct[r] /\ sacct'[r] = sacct[r] \cup {a} /\ xtxn'[r] = xtxn[r]
      /\ \A q \in Requests \ {r} : SameLocks(q)
  BY DEF CheckReference, LocksType, SameLocks
<1>3. Exclusion'
  BY <1>1, <1>2 DEF Exclusion, SameLocks
<1> QED
  BY <1>2, <1>3

LEMMA TransactionLocked ==
    ASSUME LocksType, Exclusion, NEW r \in Requests, NEW t \in TxnIds,
           GetTransactionForUpdate(r, t)
    PROVE  /\ LocksType' /\ Exclusion'
           /\ xacct'[r] = xacct[r] /\ sacct'[r] = sacct[r] /\ xtxn'[r] = xtxn[r] \cup {t}
           /\ \A q \in Requests \ {r} : SameLocks(q)
<1>1. \A q \in Requests \ {r} : t \notin xtxn[q]
  BY DEF GetTransactionForUpdate, TxnHolders
<1>2. /\ LocksType'
      /\ xacct'[r] = xacct[r] /\ sacct'[r] = sacct[r] /\ xtxn'[r] = xtxn[r] \cup {t}
      /\ \A q \in Requests \ {r} : SameLocks(q)
  BY DEF GetTransactionForUpdate, LocksType, SameLocks
<1>3. Exclusion'
  BY <1>1, <1>2 DEF Exclusion, SameLocks
<1> QED
  BY <1>2, <1>3

\* A request that only moves on to another stage, or answers.
LEMMA MoveStep ==
    ASSUME IInv, NEW r \in Requests, PcType', \A q \in Requests \ {r} : pc'[q] = pc[q],
           TablesType', UNCHANGED tables, UNCHANGED <<locks, locals>>,
           pc'[r] \notin {"fk_sender", "fk_receiver", "commit"},
           StageOfOp(r)', Initiating(r)', Moving(r)', Paying(r)'
    PROVE  IInv'
<1>1. LocksType /\ LocalsType
  BY TypeParts DEF IInv
<1>2. /\ LocksType' /\ LocalsType'
      /\ \A q \in Requests : SameLocks(q) /\ SameLocals(q)
  BY <1>1, LocksUnchanged, LocalsUnchanged
<1>3. TypeOK'
  BY <1>2, TypeParts
<1>4. Others(r)
  BY <1>2 DEF Others, Same
<1>5. Exclusion'
  BY <1>2, ExclusionFrame DEF IInv, SameLocks
<1>6. ~Uncommitted(r)'
  BY DEF Uncommitted
<1> QED
  BY <1>3, <1>4, <1>5, <1>6, QuietStep DEF Local

-----------------------------------------------------------------------------
(***************************************************************************)
(* The steps of a request, one by one.                                     *)
(***************************************************************************)
LEMMA BeginTxStep ==
    ASSUME IInv, NEW r \in Requests, BeginTx(r)
    PROVE  IInv'
<1> DEFINE stage == IF op[r] = "initiate" THEN "insert" ELSE "lock_txn"
<1>1. TablesType /\ PcType /\ Local(r)
  BY TypeParts DEF IInv
<1>2. /\ pc[r] = "begin"
      /\ Goto(r, stage)
      /\ UNCHANGED <<tables, audit, locks, locals, webhooks>>
  BY DEF BeginTx
<1>3. PcType' /\ pc'[r] = stage /\ \A q \in Requests \ {r} : pc'[q] = pc[q]
  BY <1>1, <1>2, GotoEffect DEF Stages, InTx
<1>4. TablesType'
  BY <1>1, <1>2, TablesUnchanged
<1>5. StageOfOp(r)'
  BY <1>1, <1>2, <1>3 DEF Local, StageOfOp, locals, Ops
<1>6. Initiating(r)'
  BY <1>1, <1>2, <1>3 DEF Local, Initiating, Uncommitted, locals, tables
<1>7. Moving(r)' /\ Paying(r)'
  BY <1>3 DEF Moving, Holding, Paying
<1> QED
  BY <1>2, <1>3, <1>4, <1>5, <1>6, <1>7, MoveStep

LEMMA VerifyAccountsStep ==
    ASSUME IInv, NEW r \in Requests, VerifyAccounts(r)
    PROVE  IInv'
<1>1. TablesType /\ PcType /\ Local(r)
  BY TypeParts DEF IInv
<1>2. pc[r] = "accounts" /\ UNCHANGED <<tables, audit, locks, locals, webhooks>>
  BY DEF VerifyAccounts
<1>3. op[r] = "initiate" /\ txn[r] \in Payment
  BY <1>1, <1>2 DEF Local, StageOfOp, Initiating
<1>4. TablesType'
  BY <1>1, <1>2, TablesUnchanged
<1>5. \/ /\ currency[txn[r].sender] = txn[r].currency
         /\ currency[txn[r].receiver] = txn[r].currency
         /\ Goto(r, "begin")
      \/ Answer(r, "unprocessable")
  BY DEF VerifyAccounts
<1>6. /\ PcType'
      /\ \A q \in Requests \ {r} : pc'[q] = pc[q]
      /\ \/ /\ pc'[r] = "begin"
            /\ currency[txn[r].sender] = txn[r].currency
            /\ currency[txn[r].receiver] = txn[r].currency
         \/ pc'[r] = "reply"
  BY <1>1, <1>5, GotoEffect, AnswerEffect DEF Stages, Results
<1>7. StageOfOp(r)'
  BY <1>1, <1>2, <1>3, <1>6 DEF Local, StageOfOp, locals, Ops
<1>8. Initiating(r)'
  BY <1>2, <1>3, <1>6 DEF Initiating, Uncommitted, locals, tables
<1>9. Moving(r)' /\ Paying(r)'
  BY <1>6 DEF Moving, Holding, Paying
<1> QED
  BY <1>2, <1>4, <1>6, <1>7, <1>8, <1>9, MoveStep

LEMMA RejectRequestStep ==
    ASSUME IInv, NEW r \in Requests, RejectRequest(r)
    PROVE  IInv'
<1>1. TablesType /\ PcType /\ Local(r)
  BY TypeParts DEF IInv
<1>2. /\ Answer(r, "bad_request")
      /\ UNCHANGED <<tables, audit, locks, locals, webhooks>>
  BY DEF RejectRequest
<1>3. PcType' /\ pc'[r] = "reply" /\ \A q \in Requests \ {r} : pc'[q] = pc[q]
  BY <1>1, <1>2, AnswerEffect DEF Results
<1>4. TablesType'
  BY <1>1, <1>2, TablesUnchanged
<1>5. StageOfOp(r)' /\ Initiating(r)' /\ Moving(r)' /\ Paying(r)'
  BY <1>1, <1>2, <1>3
     DEF Local, StageOfOp, Initiating, Uncommitted, Moving, Holding, Paying, locals
<1> QED
  BY <1>2, <1>3, <1>4, <1>5, MoveStep

\* One more audit row, or webhook, of transaction t and operation o.
LEMMA CountOne ==
    ASSUME NEW f \in [TxnIds -> [Ops -> Nat]], NEW t \in TxnIds, NEW o \in Ops
    PROVE  [f EXCEPT ![t][o] = @ + 1] \in [TxnIds -> [Ops -> Nat]]
<1> DEFINE g == [f[t] EXCEPT ![o] = f[t][o] + 1]
<1>1. f[t] \in [Ops -> Nat] /\ f[t][o] + 1 \in Nat
  OBVIOUS
<1>2. g \in [Ops -> Nat]
  BY <1>1
<1>3. [f EXCEPT ![t][o] = @ + 1] = [f EXCEPT ![t] = g]
  OBVIOUS
<1> HIDE DEF g
<1> QED
  BY <1>2, <1>3

LEMMA WriteAuditStep ==
    ASSUME IInv, NEW r \in Requests, WriteAudit(r)
    PROVE  IInv'
<1>1. TablesType /\ PcType /\ Local(r)
  BY TypeParts DEF IInv
<1>2. /\ pc[r] = "audit"
      /\ Goto(r, "dispatch")
      /\ UNCHANGED <<tables, locks, locals, webhooks>>
      /\ CreateAuditLog(tid[r], op[r]) \/ UNCHANGED audit
  BY DEF WriteAudit
<1>3. tid[r] \in TxnIds /\ op[r] \in Ops
  BY <1>1, <1>2 DEF Local, StageOfOp
<1>4. audit' \in [TxnIds -> [Ops -> Nat]]
  <2>1. audit \in [TxnIds -> [Ops -> Nat]]
    BY <1>1 DEF TablesType
  <2>2. [audit EXCEPT ![tid[r]][op[r]] = @ + 1] \in [TxnIds -> [Ops -> Nat]]
    BY <1>3, <2>1, CountOne
  <2> QED
    BY <1>2, <2>1, <2>2 DEF CreateAuditLog
<1>5. TablesType'
  BY <1>1, <1>2, <1>4 DEF TablesType, tables
<1>6. PcType' /\ pc'[r] = "dispatch" /\ \A q \in Requests \ {r} : pc'[q] = pc[q]
  BY <1>1, <1>2, GotoEffect DEF Stages
<1>7. StageOfOp(r)' /\ Initiating(r)' /\ Moving(r)' /\ Paying(r)'
  BY <1>1, <1>2, <1>3, <1>6
     DEF Local, StageOfOp, Initiating, Uncommitted, Moving, Holding, Paying, locals
<1> QED
  BY <1>2, <1>5, <1>6, <1>7, MoveStep

LEMMA DispatchStep ==
    ASSUME IInv, NEW r \in Requests, Dispatch(r)
    PROVE  IInv'
<1>1. TablesType /\ PcType /\ Local(r)
  BY TypeParts DEF IInv
<1>2. /\ pc[r] = "dispatch"
      /\ Answer(r, "ok")
      /\ UNCHANGED <<tables, audit, locks, locals>>
      /\ \/ webhooks' = [webhooks EXCEPT ![tid[r]][op[r]] = @ + 1]
         \/ UNCHANGED webhooks
  BY DEF Dispatch
<1>3. tid[r] \in TxnIds /\ op[r] \in Ops
  BY <1>1, <1>2 DEF Local, StageOfOp
<1>4. webhooks' \in [TxnIds -> [Ops -> Nat]]
  <2>1. webhooks \in [TxnIds -> [Ops -> Nat]]
    BY <1>1 DEF TablesType
  <2>2. [webhooks EXCEPT ![tid[r]][op[r]] = @ + 1] \in [TxnIds -> [Ops -> Nat]]
    BY <1>3, <2>1, CountOne
  <2> QED
    BY <1>2, <2>1, <2>2 
<1>5. TablesType'
  BY <1>1, <1>2, <1>4 DEF TablesType, tables
<1>6. PcType' /\ pc'[r] = "reply" /\ \A q \in Requests \ {r} : pc'[q] = pc[q]
  BY <1>1, <1>2, AnswerEffect DEF Results
<1>7. StageOfOp(r)' /\ Initiating(r)' /\ Moving(r)' /\ Paying(r)'
  BY <1>1, <1>2, <1>3, <1>6
     DEF Local, StageOfOp, Initiating, Uncommitted, Moving, Holding, Paying, locals
<1> QED
  BY <1>2, <1>5, <1>6, <1>7, MoveStep

LEMMA ReplyStep ==
    ASSUME IInv, NEW r \in Requests, Reply(r)
    PROVE  IInv'
<1>1. TablesType /\ LocksType /\ PcType /\ LocalsType
  BY TypeParts DEF IInv
<1>2. /\ Forget(r)
      /\ UNCHANGED <<tables, audit, locks, webhooks>>
      /\ pc' = [pc EXCEPT ![r] = "idle"]
      /\ result' = [result EXCEPT ![r] = "none"]
  BY DEF Reply
<1>3. /\ PcType'
      /\ pc'[r] = "idle"
      /\ \A q \in Requests \ {r} : pc'[q] = pc[q]
  BY <1>1, <1>2 DEF PcType, Stages, Results
<1>4. /\ LocalsType'
      /\ op'[r] = "none"
      /\ \A q \in Requests \ {r} : SameLocals(q)
  BY <1>1, <1>2, Constants DEF LocalsType, Forget, SameLocals
<1>5. LocksType' /\ \A q \in Requests : SameLocks(q)
  BY <1>1, <1>2, LocksUnchanged
<1>6. TypeOK'
  BY <1>1, <1>2, <1>3, <1>4, <1>5, TablesUnchanged, TypeParts
<1>7. Others(r)
  BY <1>3, <1>4, <1>5 DEF Others, Same
<1>8. Exclusion'
  BY <1>5, ExclusionFrame DEF IInv, SameLocks
<1>9. Local(r)' /\ ~Uncommitted(r)'
  BY <1>3, <1>4
     DEF Local, StageOfOp, Initiating, Uncommitted, Moving, Holding, Paying
<1> QED
  BY <1>2, <1>6, <1>7, <1>8, <1>9, QuietStep

LEMMA BindInitiateStep ==
    ASSUME IInv, NEW r \in Requests, BindInitiate(r)
    PROVE  IInv'
<1>1. TablesType /\ LocksType /\ PcType /\ LocalsType
  BY TypeParts DEF IInv
<1>2. /\ op' = [op EXCEPT ![r] = "initiate"]
      /\ Goto(r, "accounts")
      /\ UNCHANGED <<tables, audit, locks, caller, tid, senderBalance,
                     receiverBalance, webhooks>>
  BY DEF BindInitiate
<1>3. PICK p \in Payment : txn' = [txn EXCEPT ![r] = p]
  BY DEF BindInitiate, Payment
<1>4. PcType' /\ pc'[r] = "accounts" /\ \A q \in Requests \ {r} : pc'[q] = pc[q]
  BY <1>1, <1>2, GotoEffect DEF Stages
<1>5. /\ LocalsType'
      /\ op'[r] = "initiate"
      /\ txn'[r] \in Payment
      /\ \A q \in Requests \ {r} : SameLocals(q)
  BY <1>1, <1>2, <1>3 DEF LocalsType, SameLocals, Ops
<1>6. LocksType' /\ \A q \in Requests : SameLocks(q)
  BY <1>1, <1>2, LocksUnchanged
<1>7. TypeOK'
  BY <1>1, <1>2, <1>4, <1>5, <1>6, TablesUnchanged, TypeParts
<1>8. Others(r)
  BY <1>4, <1>5, <1>6 DEF Others, Same
<1>9. Exclusion'
  BY <1>6, ExclusionFrame DEF IInv, SameLocks
<1>10. Local(r)' /\ ~Uncommitted(r)'
  BY <1>4, <1>5
     DEF Local, StageOfOp, Initiating, Uncommitted, Moving, Holding, Paying
<1> QED
  BY <1>2, <1>7, <1>8, <1>9, <1>10, QuietStep

LEMMA BindTransitionStep ==
    ASSUME IInv, NEW r \in Requests, NEW o \in {"authorize", "settle"},
           BindTransition(r, o)
    PROVE  IInv'
<1>1. TablesType /\ LocksType /\ PcType /\ LocalsType
  BY TypeParts DEF IInv
<1>2. /\ op' = [op EXCEPT ![r] = o]
      /\ Goto(r, "begin")
      /\ UNCHANGED <<tables, audit, locks, txn, senderBalance, receiverBalance,
                     webhooks>>
  BY DEF BindTransition
<1>3. PICK t \in TxnIds, c \in Callers :
          tid' = [tid EXCEPT ![r] = t] /\ caller' = [caller EXCEPT ![r] = c]
  BY DEF BindTransition
<1>4. PcType' /\ pc'[r] = "begin" /\ \A q \in Requests \ {r} : pc'[q] = pc[q]
  BY <1>1, <1>2, GotoEffect DEF Stages
<1>5. /\ LocalsType'
      /\ op'[r] = o
      /\ tid'[r] \in TxnIds
      /\ \A q \in Requests \ {r} : SameLocals(q)
  BY <1>1, <1>2, <1>3, Constants DEF LocalsType, SameLocals, Ops
<1>6. LocksType' /\ \A q \in Requests : SameLocks(q)
  BY <1>1, <1>2, LocksUnchanged
<1>7. TypeOK'
  BY <1>1, <1>2, <1>4, <1>5, <1>6, TablesUnchanged, TypeParts
<1>8. Others(r)
  BY <1>4, <1>5, <1>6 DEF Others, Same
<1>9. Exclusion'
  BY <1>6, ExclusionFrame DEF IInv, SameLocks
<1>10. Local(r)' /\ ~Uncommitted(r)'
  BY <1>4, <1>5
     DEF Local, StageOfOp, Initiating, Uncommitted, Moving, Holding, Paying, Ops
<1> QED
  BY <1>2, <1>7, <1>8, <1>9, <1>10, QuietStep

LEMMA FailStep ==
    ASSUME IInv, NEW r \in Requests, Fail(r)
    PROVE  IInv'
BY RefuseStep DEF Fail, Results

LEMMA CrashStep ==
    ASSUME IInv, Crash
    PROVE  IInv'
<1>1. TablesType /\ LocksType /\ PcType /\ LocalsType
  BY TypeParts DEF IInv
<1>2. TablesType' /\ UNCHANGED tables
  BY <1>1, TablesUnchanged DEF Crash
<1>3. LocksType' /\ Exclusion'
  BY DEF Crash, LocksType, Exclusion
<1>4. /\ PcType' /\ LocalsType'
      /\ \A r \in Requests : pc'[r] = "idle" /\ op'[r] = "none"
  BY Constants DEF Crash, PcType, LocalsType, Stages, Results
<1>5. TypeOK'
  BY <1>2, <1>3, <1>4, TypeParts
<1>6. RowsArePayments' /\ SameCurrency'
  BY <1>2 DEF IInv, RowsArePayments, SameCurrency, Abs!SameCurrency, tables
<1>7. InsertsDistinct'
  BY <1>4 DEF InsertsDistinct, Uncommitted
<1>8. \A r \in Requests : Local(r)'
  BY <1>4 DEF Local, StageOfOp, Initiating, Uncommitted, Moving, Holding, Paying
<1> QED
  BY <1>3, <1>5, <1>6, <1>7, <1>8 DEF IInv

LEMMA CheckReferenceStep ==
    ASSUME IInv, NEW r \in Requests, CheckSender(r) \/ CheckReceiver(r)
    PROVE  IInv'
<1>1. TablesType /\ LocksType /\ PcType /\ LocalsType /\ Exclusion /\ Local(r)
  BY TypeParts DEF IInv
<1>2. /\ pc[r] \in {"fk_sender", "fk_receiver"}
      /\ UNCHANGED <<tables, audit, locals, webhooks>>
      /\ Goto(r, "fk_receiver") \/ Goto(r, "commit")
      /\ CheckReference(r, txn[r].sender) \/ CheckReference(r, txn[r].receiver)
  BY DEF CheckSender, CheckReceiver
<1>3. op[r] = "initiate" /\ txn[r] \in Payment /\ Uncommitted(r)
  BY <1>1, <1>2 DEF Local, StageOfOp, Initiating, Uncommitted
<1>4. /\ PcType'
      /\ pc'[r] \in {"fk_receiver", "commit"}
      /\ \A q \in Requests \ {r} : pc'[q] = pc[q]
  BY <1>1, <1>2, GotoEffect DEF Stages, InTx
<1>5. /\ LocksType' /\ Exclusion'
      /\ \A q \in Requests \ {r} : SameLocks(q)
  BY <1>1, <1>2, <1>3, Constants, ReferenceChecked
<1>6. LocalsType' /\ \A q \in Requests : SameLocals(q)
  BY <1>1, <1>2, LocalsUnchanged
<1>7. TypeOK'
  BY <1>1, <1>2, <1>4, <1>5, <1>6, TablesUnchanged, TypeParts
<1>8. Others(r)
  BY <1>4, <1>5, <1>6 DEF Others, Same
<1>9. StageOfOp(r)'
  BY <1>1, <1>3, <1>4, <1>6 DEF Local, StageOfOp, Ops, SameLocals
<1>10. Initiating(r)'
  BY <1>1, <1>2, <1>3, <1>4, <1>6 DEF Local, Initiating, Uncommitted, SameLocals, tables
<1>11. Moving(r)' /\ Paying(r)'
  BY <1>3, <1>4, <1>6 DEF Moving, Holding, Paying, SameLocals
<1> QED
  BY <1>2, <1>3, <1>5, <1>6, <1>7, <1>8, <1>9, <1>10, <1>11, QuietStep DEF Local, SameLocals

LEMMA LockDuplicateStep ==
    ASSUME IInv, NEW r \in Requests, LockDuplicate(r)
    PROVE  IInv'
<1>1. TablesType /\ LocksType /\ PcType /\ LocalsType /\ Exclusion /\ Local(r)
  BY TypeParts DEF IInv
<1>2. /\ pc[r] = "dup_lock"
      /\ UNCHANGED <<tables, audit, locals, webhooks>>
      /\ Goto(r, "dup_rollback")
      /\ GetTransactionForUpdate(r, tid[r])
  BY DEF LockDuplicate
<1>3. op[r] = "initiate" /\ txn[r] \in Payment /\ tid[r] \in TxnIds
  BY <1>1, <1>2 DEF Local, StageOfOp, Initiating
<1>4. PcType' /\ pc'[r] = "dup_rollback" /\ \A q \in Requests \ {r} : pc'[q] = pc[q]
  BY <1>1, <1>2, GotoEffect DEF Stages, InTx
<1>5. /\ LocksType' /\ Exclusion'
      /\ \A q \in Requests \ {r} : SameLocks(q)
  BY <1>1, <1>2, <1>3, TransactionLocked
<1>6. LocalsType' /\ \A q \in Requests : SameLocals(q)
  BY <1>1, <1>2, LocalsUnchanged
<1>7. TypeOK'
  BY <1>1, <1>2, <1>4, <1>5, <1>6, TablesUnchanged, TypeParts
<1>8. Others(r)
  BY <1>4, <1>5, <1>6 DEF Others, Same
<1>9. Local(r)' /\ ~Uncommitted(r)'
  BY <1>3, <1>4, <1>6
     DEF Local, StageOfOp, Initiating, Uncommitted, Moving, Holding, Paying, SameLocals
<1> QED
  BY <1>2, <1>5, <1>7, <1>8, <1>9, QuietStep

LEMMA ReturnDuplicateStep ==
    ASSUME IInv, NEW r \in Requests, ReturnDuplicate(r)
    PROVE  IInv'
BY RefuseStep DEF ReturnDuplicate, Results

LEMMA LockTransactionStep ==
    ASSUME IInv, NEW r \in Requests, LockTransaction(r)
    PROVE  IInv'
<1> DEFINE stage == IF op[r] = "authorize" THEN "lock_sender" ELSE "lock_first"
<1>1. TablesType /\ LocksType /\ PcType /\ LocalsType /\ Exclusion /\ Local(r)
  BY TypeParts DEF IInv
<1>2. CASE Refuse(r, "unprocessable") \/ Refuse(r, "forbidden")
  BY <1>2, RefuseStep DEF Results
<1>3. CASE /\ Ready(r)
           /\ GetTransactionForUpdate(r, tid[r])
           /\ txn' = [txn EXCEPT ![r] = payment[tid[r]]]
           /\ Goto(r, stage)
           /\ UNCHANGED <<tables, audit, op, caller, tid, senderBalance,
                          receiverBalance, webhooks>>
  <2>1. op[r] \in {"authorize", "settle"} /\ tid[r] \in TxnIds
    BY <1>1 DEF LockTransaction, Local, StageOfOp
  <2>2. status[tid[r]] = Expected(op[r]) /\ payment[tid[r]] \in Payment
    BY <1>3, <2>1 DEF IInv, RowsArePayments, Ready, Expected
  <2>3. PcType' /\ pc'[r] = stage /\ \A q \in Requests \ {r} : pc'[q] = pc[q]
    BY <1>1, <1>3, GotoEffect DEF Stages, InTx
  <2>4. /\ LocksType' /\ Exclusion'
        /\ xtxn'[r] = xtxn[r] \cup {tid[r]}
        /\ \A q \in Requests \ {r} : SameLocks(q)
    BY <1>1, <1>3, <2>1, TransactionLocked
  <2>5. /\ LocalsType'
        /\ op'[r] = op[r] /\ tid'[r] = tid[r] /\ txn'[r] = payment[tid[r]]
        /\ \A q \in Requests \ {r} : SameLocals(q)
    BY <1>1, <1>3, <2>2 DEF LocalsType, SameLocals
  <2>6. TypeOK'
    BY <1>1, <1>3, <2>3, <2>4, <2>5, TablesUnchanged, TypeParts
  <2>7. Others(r)
    BY <2>3, <2>4, <2>5 DEF Others, Same
  <2>8. StageOfOp(r)' /\ Initiating(r)' /\ Paying(r)' /\ ~Uncommitted(r)'
    BY <2>1, <2>3, <2>5 DEF StageOfOp, Initiating, Uncommitted, Paying
  <2>9. Moving(r)'
    BY <1>3, <2>2, <2>4, <2>5 DEF Moving, Expected, tables
  <2> QED
    BY <1>3, <2>4, <2>6, <2>7, <2>8, <2>9, QuietStep DEF Local
<1> QED
  BY <1>2, <1>3 DEF LockTransaction

LEMMA LockSenderStep ==
    ASSUME IInv, NEW r \in Requests, LockSender(r)
    PROVE  IInv'
<1>1. TablesType /\ LocksType /\ PcType /\ LocalsType /\ Exclusion /\ Local(r)
  BY TypeParts DEF IInv
<1>2. CASE Refuse(r, "unprocessable")
  BY <1>2, RefuseStep DEF Results
<1>3. CASE /\ balance[txn[r].sender] >= txn[r].amount
           /\ GetAccountForUpdate(r, txn[r].sender)
           /\ Goto(r, "commit")
           /\ UNCHANGED <<tables, audit, locals, webhooks>>
  <2>1. op[r] = "authorize" /\ tid[r] \in TxnIds /\ Moving(r) /\ Holding(r)
    BY <1>1 DEF LockSender, Local, StageOfOp, Holding
  <2>2. txn[r] \in Payment
    BY <2>1 DEF IInv, RowsArePayments, Moving, Expected
  <2>3. PcType' /\ pc'[r] = "commit" /\ \A q \in Requests \ {r} : pc'[q] = pc[q]
    BY <1>1, <1>3, GotoEffect DEF Stages, InTx
  <2>4. /\ LocksType' /\ Exclusion'
        /\ xacct'[r] = xacct[r] \cup {txn[r].sender} /\ xtxn'[r] = xtxn[r]
        /\ \A q \in Requests \ {r} : SameLocks(q)
    BY <1>1, <1>3, <2>2, Constants, AccountLocked
  <2>5. LocalsType' /\ \A q \in Requests : SameLocals(q)
    BY <1>1, <1>3, LocalsUnchanged
  <2>6. TypeOK'
    BY <1>1, <1>3, <2>3, <2>4, <2>5, TablesUnchanged, TypeParts
  <2>7. Others(r)
    BY <2>3, <2>4, <2>5 DEF Others, Same
  <2>8. StageOfOp(r)' /\ Initiating(r)' /\ ~Uncommitted(r)'
    BY <2>1, <2>3, <2>5 DEF StageOfOp, Initiating, Uncommitted, SameLocals, Ops
  <2>9. Moving(r)'
    BY <1>3, <2>1, <2>4, <2>5 DEF Moving, SameLocals, tables, Expected
  <2>10. txn[r].amount <= balance[txn[r].sender]
    <3>1. balance[txn[r].sender] \in 0..MaxBigint
      BY <1>1, <2>2, Constants DEF TablesType
    <3> QED
      BY <1>3, <2>2, <3>1, Constants
  <2>11. Paying(r)'
    BY <1>3, <2>1, <2>3, <2>4, <2>5, <2>10 DEF Paying, SameLocals, tables
  <2> QED
    BY <1>3, <2>4, <2>6, <2>7, <2>8, <2>9, <2>11, QuietStep DEF Local
<1> QED
  BY <1>2, <1>3 DEF LockSender

LEMMA LockFirstStep ==
    ASSUME IInv, NEW r \in Requests, LockFirst(r)
    PROVE  IInv'
<1> DEFINE a == LockOrder(txn[r])[1]
<1>1. TablesType /\ LocksType /\ PcType /\ LocalsType /\ Exclusion /\ Local(r)
  BY TypeParts DEF IInv
<1>2. /\ pc[r] = "lock_first"
      /\ GetAccountForUpdate(r, a)
      /\ Goto(r, "lock_second")
      /\ UNCHANGED <<tables, audit, locals, webhooks>>
  BY DEF LockFirst
<1>3. op[r] = "settle" /\ tid[r] \in TxnIds /\ Moving(r) /\ Holding(r)
  BY <1>1, <1>2 DEF Local, StageOfOp, Holding
<1>4. txn[r] \in Payment
  BY <1>3 DEF IInv, RowsArePayments, Moving, Expected
<1>5. a \in Accounts
  BY <1>4, Constants DEF LockOrder
<1>6. PcType' /\ pc'[r] = "lock_second" /\ \A q \in Requests \ {r} : pc'[q] = pc[q]
  BY <1>1, <1>2, GotoEffect DEF Stages, InTx
<1>7. /\ LocksType' /\ Exclusion'
      /\ xacct'[r] = xacct[r] \cup {a} /\ xtxn'[r] = xtxn[r]
      /\ \A q \in Requests \ {r} : SameLocks(q)
  <2> HIDE DEF a
  <2> QED
    BY <1>1, <1>2, <1>5, AccountLocked
<1>8. LocalsType' /\ \A q \in Requests : SameLocals(q)
  BY <1>1, <1>2, LocalsUnchanged
<1>9. TypeOK'
  BY <1>1, <1>2, <1>6, <1>7, <1>8, TablesUnchanged, TypeParts
<1>10. Others(r)
  BY <1>6, <1>7, <1>8 DEF Others, Same
<1>11. StageOfOp(r)' /\ Initiating(r)' /\ ~Uncommitted(r)'
  BY <1>3, <1>6, <1>8 DEF StageOfOp, Initiating, Uncommitted, SameLocals, Ops
<1>12. Moving(r)'
  BY <1>2, <1>3, <1>7, <1>8 DEF Moving, SameLocals, tables, Expected
<1>13. Paying(r)'
  BY <1>6, <1>7, <1>8 DEF Paying, SameLocals, LockOrder
<1> QED
  BY <1>2, <1>7, <1>9, <1>10, <1>11, <1>12, <1>13, QuietStep DEF Local

LEMMA LockSecondStep ==
    ASSUME IInv, NEW r \in Requests, LockSecond(r)
    PROVE  IInv'
<1> DEFINE a == LockOrder(txn[r])[2]
<1>1. TablesType /\ LocksType /\ PcType /\ LocalsType /\ Exclusion /\ Local(r)
  BY TypeParts DEF IInv
<1>2. /\ pc[r] = "lock_second"
      /\ GetAccountForUpdate(r, a)
      /\ Goto(r, "debit")
      /\ UNCHANGED <<tables, audit, locals, webhooks>>
  BY DEF LockSecond
<1>3. op[r] = "settle" /\ tid[r] \in TxnIds /\ Moving(r) /\ Holding(r)
  BY <1>1, <1>2 DEF Local, StageOfOp, Holding
<1>4. txn[r] \in Payment
  BY <1>3 DEF IInv, RowsArePayments, Moving, Expected
<1>5. a \in Accounts
  BY <1>4, Constants DEF LockOrder
<1>6. PcType' /\ pc'[r] = "debit" /\ \A q \in Requests \ {r} : pc'[q] = pc[q]
  BY <1>1, <1>2, GotoEffect DEF Stages, InTx
<1>7. /\ LocksType' /\ Exclusion'
      /\ xacct'[r] = xacct[r] \cup {a} /\ xtxn'[r] = xtxn[r]
      /\ \A q \in Requests \ {r} : SameLocks(q)
  <2> HIDE DEF a
  <2> QED
    BY <1>1, <1>2, <1>5, AccountLocked
<1>8. LocalsType' /\ \A q \in Requests : SameLocals(q)
  BY <1>1, <1>2, LocalsUnchanged
<1>9. TypeOK'
  BY <1>1, <1>2, <1>6, <1>7, <1>8, TablesUnchanged, TypeParts
<1>10. Others(r)
  BY <1>6, <1>7, <1>8 DEF Others, Same
<1>11. StageOfOp(r)' /\ Initiating(r)' /\ ~Uncommitted(r)'
  BY <1>3, <1>6, <1>8 DEF StageOfOp, Initiating, Uncommitted, SameLocals, Ops
<1>12. Moving(r)'
  BY <1>2, <1>3, <1>7, <1>8 DEF Moving, SameLocals, tables, Expected
<1>13. txn[r].sender \in xacct'[r] /\ txn[r].receiver \in xacct'[r]
  BY <1>1, <1>2, <1>7 DEF Local, Paying, LockOrder
<1>14. Paying(r)'
  BY <1>6, <1>8, <1>13 DEF Paying, SameLocals
<1> QED
  BY <1>2, <1>7, <1>9, <1>10, <1>11, <1>12, <1>14, QuietStep DEF Local

\* The facts with which the two balance updates and the commit start.
LEMMA SettlingFacts ==
    ASSUME IInv, NEW r \in Requests, op[r] = "settle",
           pc[r] \in {"debit", "credit", "commit"}
    PROVE  /\ tid[r] \in TxnIds
           /\ tid[r] \in xtxn[r]
           /\ status[tid[r]] = "authorized"
           /\ txn[r] = payment[tid[r]]
           /\ txn[r] \in Payment
           /\ txn[r].sender \in xacct[r]
           /\ txn[r].receiver \in xacct[r]
<1>1. Local(r)
  BY DEF IInv
<1>2. Moving(r) /\ Holding(r) /\ tid[r] \in TxnIds
  BY <1>1 DEF Local, StageOfOp, Holding
<1>3. /\ tid[r] \in xtxn[r]
      /\ status[tid[r]] = "authorized"
      /\ txn[r] = payment[tid[r]]
  BY <1>2 DEF Moving, Expected
<1>4. txn[r] \in Payment
  BY <1>2, <1>3 DEF IInv, RowsArePayments
<1>5. txn[r].sender \in xacct[r] /\ txn[r].receiver \in xacct[r]
  BY <1>1 DEF Local, Paying
<1> QED
  BY <1>2, <1>3, <1>4, <1>5

LEMMA DebitSenderStep ==
    ASSUME IInv, NEW r \in Requests, DebitSender(r)
    PROVE  IInv'
<1> DEFINE b == balance[txn[r].sender] - txn[r].amount
<1>1. TablesType /\ LocksType /\ PcType /\ LocalsType /\ Exclusion /\ Local(r)
  BY TypeParts DEF IInv
<1>2. CASE Refuse(r, "unprocessable")
  BY <1>2, RefuseStep DEF Results
<1>3. CASE /\ Storable(b)
           /\ senderBalance' = [senderBalance EXCEPT ![r] = b]
           /\ Goto(r, "credit")
           /\ UNCHANGED <<tables, audit, locks, op, caller, tid, txn,
                          receiverBalance, webhooks>>
  <2>1. op[r] = "settle" /\ pc[r] = "debit"
    BY <1>1 DEF DebitSender, Local, StageOfOp
  <2>2. /\ tid[r] \in TxnIds
        /\ tid[r] \in xtxn[r]
        /\ status[tid[r]] = "authorized"
        /\ txn[r] = payment[tid[r]]
        /\ txn[r] \in Payment
        /\ txn[r].sender \in xacct[r]
        /\ txn[r].receiver \in xacct[r]
    BY <2>1, SettlingFacts
  <2>3. PcType' /\ pc'[r] = "credit" /\ \A q \in Requests \ {r} : pc'[q] = pc[q]
    BY <1>1, <1>3, GotoEffect DEF Stages, InTx
  <2>4. b \in 0..MaxBigint
    BY <1>3 DEF Storable
  <2>5. /\ LocalsType'
        /\ op'[r] = op[r] /\ tid'[r] = tid[r] /\ txn'[r] = txn[r]
        /\ senderBalance'[r] = b
        /\ \A q \in Requests \ {r} : SameLocals(q)
    <3> HIDE DEF b
    <3> QED
      BY <1>1, <1>3, <2>4 DEF LocalsType, SameLocals
  <2>6. LocksType' /\ \A q \in Requests : SameLocks(q)
    BY <1>1, <1>3, LocksUnchanged
  <2>7. TypeOK'
    BY <1>1, <1>3, <2>3, <2>5, <2>6, TablesUnchanged, TypeParts
  <2>8. Others(r)
    BY <2>3, <2>5, <2>6 DEF Others, Same
  <2>9. Exclusion'
    BY <2>6, ExclusionFrame DEF IInv, SameLocks
  <2>10. StageOfOp(r)' /\ Initiating(r)' /\ ~Uncommitted(r)'
    BY <2>1, <2>2, <2>3, <2>5 DEF StageOfOp, Initiating, Uncommitted
  <2>11. Moving(r)'
    BY <1>3, <2>1, <2>2, <2>5, <2>6 DEF Moving, SameLocks, tables, Expected
  <2>12. Paying(r)'
    BY <1>3, <2>1, <2>2, <2>3, <2>5, <2>6 DEF Paying, SameLocks, tables
  <2> QED
    BY <1>3, <2>7, <2>8, <2>9, <2>10, <2>11, <2>12, QuietStep DEF Local
<1> QED
  BY <1>2, <1>3 DEF DebitSender

LEMMA CreditReceiverStep ==
    ASSUME IInv, NEW r \in Requests, CreditReceiver(r)
    PROVE  IInv'
<1> DEFINE seen == IF txn[r].receiver = txn[r].sender
                     THEN senderBalance[r] ELSE balance[txn[r].receiver]
           b == seen + txn[r].amount
<1>1. TablesType /\ LocksType /\ PcType /\ LocalsType /\ Exclusion /\ Local(r)
  BY TypeParts DEF IInv
<1>2. CASE Refuse(r, "unprocessable")
  BY <1>2, RefuseStep DEF Results
<1>3. CASE /\ Storable(b)
           /\ receiverBalance' = [receiverBalance EXCEPT ![r] = b]
           /\ Goto(r, "commit")
           /\ UNCHANGED <<tables, audit, locks, op, caller, tid, txn,
                          senderBalance, webhooks>>
  <2>1. op[r] = "settle" /\ pc[r] = "credit"
    BY <1>1 DEF CreditReceiver, Local, StageOfOp
  <2>2. /\ tid[r] \in TxnIds
        /\ tid[r] \in xtxn[r]
        /\ status[tid[r]] = "authorized"
        /\ txn[r] = payment[tid[r]]
        /\ txn[r] \in Payment
        /\ txn[r].sender \in xacct[r]
        /\ txn[r].receiver \in xacct[r]
    BY <2>1, SettlingFacts
  <2>3. PcType' /\ pc'[r] = "commit" /\ \A q \in Requests \ {r} : pc'[q] = pc[q]
    BY <1>1, <1>3, GotoEffect DEF Stages, InTx
  <2>4. b \in 0..MaxBigint
    BY <1>3 DEF Storable
  <2>5. /\ LocalsType'
        /\ op'[r] = op[r] /\ tid'[r] = tid[r] /\ txn'[r] = txn[r]
        /\ senderBalance'[r] = senderBalance[r]
        /\ receiverBalance'[r] = b
        /\ \A q \in Requests \ {r} : SameLocals(q)
    <3> HIDE DEF b
    <3> QED
      BY <1>1, <1>3, <2>4 DEF LocalsType, SameLocals
  <2>6. LocksType' /\ \A q \in Requests : SameLocks(q)
    BY <1>1, <1>3, LocksUnchanged
  <2>7. TypeOK'
    BY <1>1, <1>3, <2>3, <2>5, <2>6, TablesUnchanged, TypeParts
  <2>8. Others(r)
    BY <2>3, <2>5, <2>6 DEF Others, Same
  <2>9. Exclusion'
    BY <2>6, ExclusionFrame DEF IInv, SameLocks
  <2>10. StageOfOp(r)' /\ Initiating(r)' /\ ~Uncommitted(r)'
    BY <2>1, <2>2, <2>3, <2>5 DEF StageOfOp, Initiating, Uncommitted, Ops
  <2>11. Moving(r)'
    BY <1>3, <2>1, <2>2, <2>5, <2>6 DEF Moving, SameLocks, tables, Expected
  <2>12. senderBalance[r] = balance[txn[r].sender] - txn[r].amount
    BY <1>1, <2>1 DEF Local, Paying
  <2>13. Paying(r)'
    BY <1>3, <2>1, <2>2, <2>3, <2>5, <2>6, <2>12 DEF Paying, SameLocks, tables
  <2> QED
    BY <1>3, <2>7, <2>8, <2>9, <2>10, <2>11, <2>13, QuietStep DEF Local
<1> QED
  BY <1>2, <1>3 DEF CreditReceiver

LEMMA InsertTransactionStep ==
    ASSUME IInv, NEW r \in Requests, InsertTransaction(r)
    PROVE  IInv'
<1>1. TablesType /\ LocksType /\ PcType /\ LocalsType /\ Exclusion /\ Local(r)
  BY TypeParts DEF IInv
<1>2. /\ pc[r] = "insert"
      /\ Inserting(r) = {}
      /\ UNCHANGED <<tables, audit, locks, op, caller, txn, senderBalance,
                     receiverBalance, webhooks>>
  BY DEF InsertTransaction
<1>3. /\ op[r] = "initiate" /\ txn[r] \in Payment
      /\ currency[txn[r].sender] = txn[r].currency
      /\ currency[txn[r].receiver] = txn[r].currency
  BY <1>1, <1>2 DEF Local, StageOfOp, Initiating
<1>4. PICK t \in TxnIds :
          /\ tid' = [tid EXCEPT ![r] = t]
          /\ \/ /\ RowsOfKey(txn[r].key) = {}
                /\ t \notin TakenIds
                /\ status[t] = "absent"
                /\ Goto(r, "fk_sender")
             \/ Goto(r, "dup_lock")
  BY DEF InsertTransaction, RowsOfKey
<1>5. /\ PcType'
      /\ \A q \in Requests \ {r} : pc'[q] = pc[q]
      /\ \/ /\ pc'[r] = "fk_sender"
            /\ RowsOfKey(txn[r].key) = {}
            /\ t \notin TakenIds
            /\ status[t] = "absent"
         \/ pc'[r] = "dup_lock"
  BY <1>1, <1>4, GotoEffect DEF Stages, InTx
<1>6. /\ LocalsType'
      /\ op'[r] = op[r] /\ tid'[r] = t /\ txn'[r] = txn[r]
      /\ \A q \in Requests \ {r} : SameLocals(q)
  BY <1>1, <1>2, <1>4 DEF LocalsType, SameLocals
<1>7. LocksType' /\ \A q \in Requests : SameLocks(q)
  BY <1>1, <1>2, LocksUnchanged
<1>8. TypeOK'
  BY <1>1, <1>2, <1>5, <1>6, <1>7, TablesUnchanged, TypeParts
<1>9. Others(r)
  BY <1>5, <1>6, <1>7 DEF Others, Same
<1>10. Exclusion'
  BY <1>7, ExclusionFrame DEF IInv, SameLocks
<1>11. StageOfOp(r)' /\ Moving(r)' /\ Paying(r)'
  BY <1>3, <1>5, <1>6 DEF StageOfOp, Moving, Holding, Paying
<1>12. Initiating(r)'
  <2>1. CASE pc'[r] = "dup_lock"
    BY <1>3, <1>6, <2>1 DEF Initiating, Uncommitted
  <2>2. CASE pc'[r] = "fk_sender"
    <3>1. \A u \in TxnIds : status[u] # "absent" => payment[u].key # txn[r].key
      BY <1>5, <2>2 DEF RowsOfKey
    <3> QED
      BY <1>2, <1>3, <1>5, <1>6, <2>2, <3>1 DEF Initiating, tables
  <2> QED
    BY <1>5, <2>1, <2>2
<1>13. \A q \in Requests \ {r} :
           Uncommitted(q)' => /\ Uncommitted(q)
                              /\ tid'[q] = tid[q]
                              /\ txn'[q] = txn[q]
  BY <1>9 DEF Others, Same, SameLocals, Uncommitted
<1>14. Uncommitted(r)' =>
           \A q \in Requests \ {r} :
               Uncommitted(q) => tid[q] # t /\ txn[q].key # txn[r].key
  <2>1. Uncommitted(r)' => t \notin TakenIds
    BY <1>5 DEF Uncommitted
  <2> QED
    BY <1>2, <2>1 DEF TakenIds, Inserting
<1>15. InsertsDistinct'
  BY <1>6, <1>13, <1>14 DEF IInv, InsertsDistinct
<1>16. RowsArePayments' /\ SameCurrency'
  BY <1>2 DEF IInv, RowsArePayments, SameCurrency, Abs!SameCurrency, tables
<1>17. \A q \in Requests : Local(q)'
  BY <1>2, <1>9, <1>11, <1>12, LocalFrame DEF IInv, Others, Local
<1> QED
  BY <1>8, <1>10, <1>15, <1>16, <1>17 DEF IInv

-----------------------------------------------------------------------------
(***************************************************************************)
(* The commits: the tables change under the locks of the committing        *)
(* request, and every other request keeps what it knows.                   *)
(***************************************************************************)
LEMMA KnowledgeOfOthers ==
    ASSUME IInv, NEW r \in Requests, NEW q \in Requests \ {r}, Same(q),
           NEW t \in xtxn[r], status[t] # "absent", NEW new \in Status,
           status' = [status EXCEPT ![t] = new],
           UNCHANGED <<currency, payment>>,
           \A a \in Accounts : a \notin xacct[r] => balance'[a] = balance[a]
    PROVE  Local(q)'
<1> USE DEF Same, SameLocks, SameLocals
<1>1. Local(q) /\ TablesType /\ LocksType
  BY TypeParts DEF IInv
<1>2. /\ \A u \in TxnIds : u # t => status'[u] = status[u]
      /\ \A u \in TxnIds : status'[u] # "absent" <=> status[u] # "absent"
  BY <1>1 DEF TablesType, Status
<1>3. StageOfOp(q)'
  BY <1>1 DEF Local, StageOfOp
<1>4. Initiating(q)'
  BY <1>1, <1>2 DEF Local, Initiating, Uncommitted
<1>5. Moving(q)'
  <2>1. Holding(q)' <=> Holding(q)
    BY DEF Holding
  <2>2. SUFFICES ASSUME Holding(q)
                 PROVE  /\ tid[q] \in xtxn[q]
                        /\ status'[tid[q]] = Expected(op[q])
                        /\ txn[q] = payment[tid[q]]
    BY <2>1 DEF Moving, Expected
  <2>3. /\ tid[q] \in xtxn[q]
        /\ status[tid[q]] = Expected(op[q])
        /\ txn[q] = payment[tid[q]]
    BY <1>1, <2>2 DEF Local, Moving
  <2>4. tid[q] # t /\ tid[q] \in TxnIds
    BY <1>1, <2>3 DEF IInv, Exclusion, LocksType
  <2> QED
    BY <1>2, <2>3, <2>4
<1>6. \A a \in xacct[q] : balance'[a] = balance[a]
  BY <1>1 DEF IInv, Exclusion, LocksType
<1>7. Paying(q)'
  BY <1>1, <1>6 DEF Local, Paying, LockOrder
<1> QED
  BY <1>3, <1>4, <1>5, <1>7 DEF Local

\* The committing request itself: it has no lock and no open transaction left.
LEMMA AfterCommitLocal ==
    ASSUME IInv, NEW r \in Requests, pc[r] = "commit",
           pc'[r] \in {"audit", "dispatch", "reply"}, SameLocals(r), tid[r] \in TxnIds
    PROVE  Local(r)' /\ ~Uncommitted(r)'
<1>1. Local(r)
  BY DEF IInv
<1> QED
  BY <1>1 DEF Local, StageOfOp, Initiating, Uncommitted, Moving, Holding, Paying, SameLocals

\* InsertsDistinct only loses a member.
LEMMA InsertsDistinctFrame ==
    ASSUME IInv, NEW r \in Requests, Others(r), ~Uncommitted(r)'
    PROVE  InsertsDistinct'
<1>1. \A q \in Requests \ {r} :
          Uncommitted(q)' => Uncommitted(q) /\ tid'[q] = tid[q] /\ txn'[q] = txn[q]
  BY DEF Others, Same, SameLocals, Uncommitted
<1> QED
  BY <1>1 DEF IInv, InsertsDistinct

LEMMA CommitInitiateStep ==
    ASSUME IInv, NEW r \in Requests, CommitInitiate(r)
    PROVE  IInv'
<1> DEFINE t == tid[r]
<1>1. TablesType /\ LocksType /\ PcType /\ LocalsType /\ Local(r)
  BY TypeParts DEF IInv
<1>2. /\ pc[r] = "commit" /\ op[r] = "initiate"
      /\ payment' = [payment EXCEPT ![t] = txn[r]]
      /\ status' = [status EXCEPT ![t] = "pending"]
      /\ EndTx(r) /\ AfterCommit(r)
      /\ UNCHANGED <<currency, balance, ledger, audit, locals, webhooks>>
  BY DEF CommitInitiate
<1>3. /\ txn[r] \in Payment
      /\ currency[txn[r].sender] = txn[r].currency
      /\ currency[txn[r].receiver] = txn[r].currency
      /\ Uncommitted(r) /\ t \in TxnIds /\ status[t] = "absent"
  BY <1>1, <1>2 DEF Local, Initiating, Uncommitted
<1>4. /\ PcType' /\ pc'[r] \in {"audit", "dispatch", "reply"}
      /\ \A q \in Requests \ {r} : pc'[q] = pc[q]
  BY <1>1, <1>2, AfterCommitEffect
<1>5. /\ LocksType' /\ xacct'[r] = {} /\ sacct'[r] = {} /\ xtxn'[r] = {}
      /\ \A q \in Requests \ {r} : SameLocks(q)
  BY <1>1, <1>2, EndTxEffect
<1>6. LocalsType' /\ \A q \in Requests : SameLocals(q)
  BY <1>1, <1>2, LocalsUnchanged
<1>7. TablesType'
  BY <1>1, <1>2, <1>3 DEF TablesType, RowStatus, Status
<1>8. TypeOK'
  BY <1>4, <1>5, <1>6, <1>7, TypeParts
<1>9. Others(r)
  BY <1>4, <1>5, <1>6 DEF Others, Same
<1>10. Exclusion'
  BY <1>5, ExclusionFrame DEF IInv
<1>11. Local(r)' /\ ~Uncommitted(r)'
  BY <1>2, <1>3, <1>4, <1>6, AfterCommitLocal
<1>12. InsertsDistinct'
  BY <1>9, <1>11, InsertsDistinctFrame
<1>13. /\ payment'[t] = txn[r] /\ status'[t] = "pending"
       /\ \A u \in TxnIds \ {t} : payment'[u] = payment[u] /\ status'[u] = status[u]
  BY <1>1, <1>2, <1>3 DEF TablesType
<1>14. RowsArePayments'
  BY <1>3, <1>13 DEF IInv, RowsArePayments
<1>15. SameCurrency'
  BY <1>2, <1>3, <1>13 DEF IInv, SameCurrency, Abs!SameCurrency
<1>16. ASSUME NEW q \in Requests \ {r} PROVE Local(q)'
  <2> USE DEF Same, SameLocks, SameLocals
  <2>1. Same(q) /\ Local(q)
    BY <1>9 DEF Others, IInv
  <2>2. StageOfOp(q)'
    BY <2>1 DEF Local, StageOfOp
  <2>3. Initiating(q)'
    <3>1. Uncommitted(q)' <=> Uncommitted(q)
      BY <2>1 DEF Uncommitted
    <3>2. Uncommitted(q) => tid[q] # t /\ txn[q].key # txn[r].key
      BY <1>3 DEF IInv, InsertsDistinct
    <3> QED
      BY <1>2, <1>13, <2>1, <3>1, <3>2 DEF Local, Initiating
  <2>4. Moving(q)'
    <3>1. Holding(q) => tid[q] \in TxnIds \ {t}
      BY <1>1, <1>3, <2>1 DEF Local, Moving, Expected, LocksType
    <3> QED
      BY <1>13, <2>1, <3>1 DEF Local, Moving, Holding, Expected
  <2>5. Paying(q)'
    BY <1>2, <2>1 DEF Local, Paying, LockOrder
  <2> QED
    BY <2>2, <2>3, <2>4, <2>5 DEF Local
<1> QED
  BY <1>8, <1>10, <1>11, <1>12, <1>14, <1>15, <1>16 DEF IInv

LEMMA CommitAuthorizeStep ==
    ASSUME IInv, NEW r \in Requests, CommitAuthorize(r)
    PROVE  IInv'
<1> DEFINE t == tid[r]
<1>1. TablesType /\ LocksType /\ PcType /\ LocalsType /\ Local(r)
  BY TypeParts DEF IInv
<1>2. /\ pc[r] = "commit" /\ op[r] = "authorize"
      /\ status' = [status EXCEPT ![t] = "authorized"]
      /\ EndTx(r) /\ AfterCommit(r)
      /\ UNCHANGED <<currency, balance, payment, ledger, audit, locals, webhooks>>
  BY DEF CommitAuthorize
<1>3. t \in TxnIds /\ t \in xtxn[r] /\ status[t] = "pending"
  BY <1>1, <1>2 DEF Local, StageOfOp, Moving, Holding, Expected
<1>4. /\ PcType' /\ pc'[r] \in {"audit", "dispatch", "reply"}
      /\ \A q \in Requests \ {r} : pc'[q] = pc[q]
  BY <1>1, <1>2, AfterCommitEffect
<1>5. /\ LocksType' /\ xacct'[r] = {} /\ sacct'[r] = {} /\ xtxn'[r] = {}
      /\ \A q \in Requests \ {r} : SameLocks(q)
  BY <1>1, <1>2, EndTxEffect
<1>6. LocalsType' /\ \A q \in Requests : SameLocals(q)
  BY <1>1, <1>2, LocalsUnchanged
<1>7. TablesType'
  BY <1>1, <1>2 DEF TablesType, RowStatus, Status
<1>8. TypeOK'
  BY <1>4, <1>5, <1>6, <1>7, TypeParts
<1>9. Others(r)
  BY <1>4, <1>5, <1>6 DEF Others, Same
<1>10. Exclusion'
  BY <1>5, ExclusionFrame DEF IInv
<1>11. Local(r)' /\ ~Uncommitted(r)'
  BY <1>2, <1>3, <1>4, <1>6, AfterCommitLocal
<1>12. InsertsDistinct'
  BY <1>9, <1>11, InsertsDistinctFrame
<1>13. \A u \in TxnIds : status'[u] # "absent" => status[u] # "absent"
  BY <1>1, <1>2, <1>3 DEF TablesType
<1>14. RowsArePayments' /\ SameCurrency'
  BY <1>2, <1>13 DEF IInv, RowsArePayments, SameCurrency, Abs!SameCurrency
<1>15. \A q \in Requests \ {r} : Local(q)'
  BY <1>2, <1>3, <1>9, KnowledgeOfOthers DEF Others, Status
<1> QED
  BY <1>8, <1>10, <1>11, <1>12, <1>14, <1>15 DEF IInv

\* What the commit of a settlement writes is what AtomicPayments computes.
LEMMA SettledValues ==
    ASSUME IInv, NEW r \in Requests, CommitSettle(r)
    PROVE  LET p == payment[tid[r]]
               debited == balance[p.sender] - p.amount
               withDebit == [balance EXCEPT ![p.sender] = debited]
               credited == withDebit[p.receiver] + p.amount
           IN  /\ debited \in 0..MaxBigint
               /\ credited \in 0..MaxBigint
               /\ senderBalance[r] = debited
               /\ receiverBalance[r] = credited
               /\ balance' = [withDebit EXCEPT ![p.receiver] = credited]
               /\ ledger' = Post(Post(ledger, p.sender,
                                      Entry(tid[r], "debit", p.amount, debited)),
                                 p.receiver,
                                 Entry(tid[r], "credit", p.amount, credited))
<1> DEFINE p == payment[tid[r]]
           debited == balance[p.sender] - p.amount
           withDebit == [balance EXCEPT ![p.sender] = debited]
           credited == withDebit[p.receiver] + p.amount
<1>1. TablesType /\ LocalsType /\ Local(r)
  BY TypeParts DEF IInv
<1>2. op[r] = "settle" /\ pc[r] = "commit"
  BY DEF CommitSettle
<1>3. txn[r] = p /\ p \in Payment /\ p.sender \in Accounts /\ p.receiver \in Accounts
  BY <1>2, SettlingFacts, Constants
<1>4. senderBalance[r] = debited
  BY <1>1, <1>2, <1>3 DEF Local, Paying
<1>5. receiverBalance[r] = (IF p.receiver = p.sender THEN senderBalance[r]
                                                      ELSE balance[p.receiver]) + p.amount
  BY <1>1, <1>2, <1>3 DEF Local, Paying
<1>6. withDebit[p.receiver] = IF p.receiver = p.sender THEN debited ELSE balance[p.receiver]
  BY <1>1, <1>3 DEF TablesType
<1>7. receiverBalance[r] = credited
  <2> HIDE DEF debited, withDebit
  <2> QED
    BY <1>4, <1>5, <1>6
<1>8. senderBalance[r] \in 0..MaxBigint /\ receiverBalance[r] \in 0..MaxBigint
  BY <1>1 DEF LocalsType
<1>9. /\ balance' = [[balance EXCEPT ![p.sender] = senderBalance[r]]
                        EXCEPT ![p.receiver] = receiverBalance[r]]
      /\ ledger' = Post(Post(ledger, p.sender,
                             Entry(tid[r], "debit", p.amount, senderBalance[r])),
                        p.receiver,
                        Entry(tid[r], "credit", p.amount, receiverBalance[r]))
  BY <1>3 DEF CommitSettle, SettledEntries
<1> QED
  BY <1>4, <1>7, <1>8, <1>9

LEMMA CommitSettleStep ==
    ASSUME IInv, NEW r \in Requests, CommitSettle(r)
    PROVE  IInv'
<1> DEFINE t == tid[r]
           p == txn[r]
<1>1. TablesType /\ LocksType /\ PcType /\ LocalsType /\ Local(r)
  BY TypeParts DEF IInv
<1>2. /\ pc[r] = "commit" /\ op[r] = "settle"
      /\ balance' = [[balance EXCEPT ![p.sender] = senderBalance[r]]
                        EXCEPT ![p.receiver] = receiverBalance[r]]
      /\ ledger' = SettledEntries(r)
      /\ status' = [status EXCEPT ![t] = "settled"]
      /\ EndTx(r) /\ AfterCommit(r)
      /\ UNCHANGED <<currency, payment, audit, locals, webhooks>>
  BY DEF CommitSettle
<1>3. /\ t \in TxnIds /\ t \in xtxn[r] /\ status[t] = "authorized"
      /\ p \in Payment
      /\ p.sender \in xacct[r] /\ p.receiver \in xacct[r]
  BY <1>2, SettlingFacts
<1>4. /\ PcType' /\ pc'[r] \in {"audit", "dispatch", "reply"}
      /\ \A q \in Requests \ {r} : pc'[q] = pc[q]
  BY <1>1, <1>2, AfterCommitEffect
<1>5. /\ LocksType' /\ xacct'[r] = {} /\ sacct'[r] = {} /\ xtxn'[r] = {}
      /\ \A q \in Requests \ {r} : SameLocks(q)
  BY <1>1, <1>2, EndTxEffect
<1>6. LocalsType' /\ \A q \in Requests : SameLocals(q)
  BY <1>1, <1>2, LocalsUnchanged
<1>7. senderBalance[r] \in 0..MaxBigint /\ receiverBalance[r] \in 0..MaxBigint
  BY <1>1 DEF LocalsType
<1>8. ledger' \in [Accounts -> Seq(LedgerEntry)]
  <2> DEFINE d == Entry(t, "debit", p.amount, senderBalance[r])
             c == Entry(t, "credit", p.amount, receiverBalance[r])
             mid == Post(ledger, p.sender, d)
  <2>1. p.amount \in {m \in Amounts : m > 0} /\ p.sender \in Accounts /\ p.receiver \in Accounts
    BY <1>3 DEF Payment
  <2>2. d \in LedgerEntry /\ c \in LedgerEntry
    BY <1>3, <1>7, <2>1 DEF Entry, LedgerEntry
  <2>3. ledger' = Post(mid, p.receiver, c)
    BY <1>2 DEF SettledEntries
  <2> HIDE DEF d, c
  <2>4. ASSUME NEW book \in [Accounts -> Seq(LedgerEntry)], NEW a \in Accounts,
               NEW e \in LedgerEntry
        PROVE  Post(book, a, e) \in [Accounts -> Seq(LedgerEntry)]
    <3>1. Append(book[a], e) \in Seq(LedgerEntry)
      OBVIOUS
    <3> QED
      BY <3>1 DEF Post
  <2>5. mid \in [Accounts -> Seq(LedgerEntry)]
    BY <1>1, <2>1, <2>2, <2>4 DEF TablesType
  <2> HIDE DEF mid
  <2>6. Post(mid, p.receiver, c) \in [Accounts -> Seq(LedgerEntry)]
    BY <2>1, <2>2, <2>4, <2>5
  <2> QED
    BY <2>3, <2>6
<1>9. balance' \in [Accounts -> 0..MaxBigint]
  BY <1>1, <1>2, <1>7 DEF TablesType
<1>10. TablesType'
  BY <1>1, <1>2, <1>8, <1>9 DEF TablesType, RowStatus, Status
<1>11. TypeOK'
  BY <1>4, <1>5, <1>6, <1>10, TypeParts
<1>12. Others(r)
  BY <1>4, <1>5, <1>6 DEF Others, Same
<1>13. Exclusion'
  BY <1>5, ExclusionFrame DEF IInv
<1>14. Local(r)' /\ ~Uncommitted(r)'
  BY <1>2, <1>3, <1>4, <1>6, AfterCommitLocal
<1>15. InsertsDistinct'
  BY <1>12, <1>14, InsertsDistinctFrame
<1>16. \A u \in TxnIds : status'[u] # "absent" => status[u] # "absent"
  BY <1>1, <1>2, <1>3 DEF TablesType
<1>17. RowsArePayments' /\ SameCurrency'
  BY <1>2, <1>16 DEF IInv, RowsArePayments, SameCurrency, Abs!SameCurrency
<1>18. \A a \in Accounts : a \notin xacct[r] => balance'[a] = balance[a]
  BY <1>1, <1>2, <1>3 DEF TablesType
<1>19. \A q \in Requests \ {r} : Local(q)'
  BY <1>2, <1>3, <1>12, <1>18, KnowledgeOfOthers DEF Others, Status
<1> QED
  BY <1>11, <1>13, <1>14, <1>15, <1>17, <1>19 DEF IInv

LEMMA NewAccountStep ==
    ASSUME IInv, NewAccount
    PROVE  IInv'
<1>1. TablesType /\ LocksType /\ PcType /\ LocalsType
  BY TypeParts DEF IInv
<1>2. PICK a \in Accounts, c \in Currencies, b \in Openings : CreateAccount(a, c, b)
  BY DEF NewAccount
<1>3. UNCHANGED <<payment, status, ledger, audit, locks, pc, locals, result, webhooks>>
  BY <1>2 DEF NewAccount, CreateAccount
<1>4. /\ currency[a] = None
      /\ \A x \in Accounts \ {a} : currency'[x] = currency[x] /\ balance'[x] = balance[x]
  BY <1>1, <1>2 DEF CreateAccount, TablesType
<1>5. TablesType'
  BY <1>1, <1>2, <1>3 DEF TablesType, CreateAccount, Storable
<1>6. /\ LocksType' /\ LocalsType' /\ PcType'
      /\ \A q \in Requests : SameLocks(q) /\ SameLocals(q) /\ pc'[q] = pc[q]
  BY <1>1, <1>3, LocksUnchanged, LocalsUnchanged DEF PcType
<1>7. TypeOK'
  BY <1>5, <1>6, TypeParts
<1>8. RowsArePayments'
  BY <1>3 DEF IInv, RowsArePayments
<1>9. \A p \in Payment : \A x \in {p.sender, p.receiver} :
          currency[x] = p.currency =>
              /\ x \in Accounts \ {a}
              /\ currency'[x] = currency[x]
              /\ balance'[x] = balance[x]
  BY <1>4, Constants
<1>10. SameCurrency'
  BY <1>3, <1>9 DEF IInv, RowsArePayments, SameCurrency, Abs!SameCurrency
<1>11. Exclusion' /\ InsertsDistinct'
  BY <1>6 DEF IInv, Exclusion, InsertsDistinct, Uncommitted, SameLocks, SameLocals
<1>12. ASSUME NEW q \in Requests PROVE Local(q)'
  <2> USE <1>6 DEF SameLocks, SameLocals
  <2>1. Local(q)
    BY DEF IInv
  <2>2. StageOfOp(q)'
    BY <2>1 DEF Local, StageOfOp
  <2>3. Initiating(q)'
    BY <1>3, <1>9, <2>1 DEF Local, Initiating, Uncommitted
  <2>4. Moving(q)'
    BY <1>3, <2>1 DEF Local, Moving, Holding, Expected
  <2>5. Holding(q) => /\ balance'[txn[q].sender] = balance[txn[q].sender]
                      /\ balance'[txn[q].receiver] = balance[txn[q].receiver]
    <3> SUFFICES ASSUME Holding(q)
                 PROVE  /\ balance'[txn[q].sender] = balance[txn[q].sender]
                        /\ balance'[txn[q].receiver] = balance[txn[q].receiver]
      OBVIOUS
    <3>1. /\ tid[q] \in TxnIds
          /\ status[tid[q]] # "absent"
          /\ txn[q] = payment[tid[q]]
      BY <1>1, <2>1 DEF Local, Moving, Expected, LocksType
    <3>2. /\ txn[q] \in Payment
          /\ currency[txn[q].sender] = txn[q].currency
          /\ currency[txn[q].receiver] = txn[q].currency
      BY <3>1 DEF IInv, RowsArePayments, SameCurrency, Abs!SameCurrency
    <3> QED
      BY <1>9, <3>2
  <2>6. Paying(q)'
    BY <2>1, <2>5 DEF Local, Paying, Holding, LockOrder
  <2> QED
    BY <2>2, <2>3, <2>4, <2>6 DEF Local
<1> QED
  BY <1>7, <1>8, <1>10, <1>11, <1>12 DEF IInv

LEMMA StutterStep ==
    ASSUME IInv, UNCHANGED vars
    PROVE  IInv'
<1>1. UNCHANGED tables
  BY DEF vars
<1>2. \A q \in Requests : Same(q)
  BY DEF vars, locks, locals, Same, SameLocks, SameLocals
<1>3. \A q \in Requests : Local(q)'
  BY <1>1, <1>2, LocalFrame DEF IInv
<1>4. TypeOK'
  BY DEF IInv, TypeOK, RepoTypeOK, vars, tables, locks, locals
<1>5. RowsArePayments' /\ SameCurrency'
  BY <1>1 DEF IInv, RowsArePayments, SameCurrency, Abs!SameCurrency, tables
<1>6. Exclusion' /\ InsertsDistinct'
  BY <1>2 DEF IInv, Exclusion, InsertsDistinct, Uncommitted, Same, SameLocks, SameLocals
<1> QED
  BY <1>3, <1>4, <1>5, <1>6 DEF IInv

LEMMA NextIInv ==
    ASSUME IInv, [Next]_vars
    PROVE  IInv'
<1>1. CASE NewAccount
  BY <1>1, NewAccountStep
<1>2. CASE Crash
  BY <1>2, CrashStep
<1>3. CASE UNCHANGED vars
  BY <1>3, StutterStep
<1>4. ASSUME NEW r \in Requests, Arrive(r) PROVE IInv'
  BY <1>4, BindInitiateStep, BindTransitionStep, RejectRequestStep DEF Arrive
<1>5. ASSUME NEW r \in Requests, Proceed(r) PROVE IInv'
  BY <1>5, BeginTxStep, VerifyAccountsStep, InsertTransactionStep, CheckReferenceStep,
     CommitInitiateStep, LockDuplicateStep, ReturnDuplicateStep, LockTransactionStep,
     LockSenderStep, CommitAuthorizeStep, LockFirstStep, LockSecondStep, DebitSenderStep,
     CreditReceiverStep, CommitSettleStep, WriteAuditStep, DispatchStep, ReplyStep
     DEF Proceed
<1>6. ASSUME NEW r \in Requests, Abort(r) \/ BreakDeadlock(r) PROVE IInv'
  BY <1>6, FailStep DEF Abort, BreakDeadlock
<1> QED
  BY <1>1, <1>2, <1>3, <1>4, <1>5, <1>6 DEF Next

-----------------------------------------------------------------------------
(***************************************************************************)
(* The invariant holds in every reachable state, whatever requests are     *)
(* interleaved with which failures.                                        *)
(***************************************************************************)
THEOREM Invariance == Spec => []IInv
<1>1. IInv /\ [Next]_vars => IInv'
  BY NextIInv
<1> QED
  BY InitIInv, <1>1, PTL DEF Spec

(***************************************************************************)
(* Type correctness: in particular no committed balance, and none that a   *)
(* request is about to commit, is negative or above BIGINT.                *)
(***************************************************************************)
THEOREM TypeCorrect == Spec => []TypeOK
<1>1. IInv => TypeOK
  BY DEF IInv
<1> QED
  BY Invariance, <1>1, PTL

\* FOR UPDATE locks of two requests never overlap.
THEOREM LocksExclude == Spec => []Exclusion
<1>1. IInv => Exclusion
  BY DEF IInv
<1> QED
  BY Invariance, <1>1, PTL

(***************************************************************************)
(* No lost update: the balances a settlement has computed are those of the *)
(* committed rows plus its own delta until it commits them.                *)
(***************************************************************************)
THEOREM BalancesStayTrue == Spec => []NoLostUpdate
<1>1. IInv => NoLostUpdate
  BY DEF IInv, Local, Paying, NoLostUpdate
<1> QED
  BY Invariance, <1>1, PTL

(***************************************************************************)
(* A payment and both its accounts have one currency, although             *)
(* InitiatePayment compares them before it begins its transaction.         *)
(***************************************************************************)
THEOREM OneCurrency == Spec => []SameCurrency
<1>1. IInv => SameCurrency
  BY DEF IInv
<1> QED
  BY Invariance, <1>1, PTL

-----------------------------------------------------------------------------
(***************************************************************************)
(* Refinement.  The three commits and NewAccount are the operations of     *)
(* AtomicPayments; every other step leaves the committed tables alone.     *)
(***************************************************************************)
LEMMA InitImplements == Init => Abs!Init
BY DEF Init, RepoInit, Abs!Init

LEMMA NewAccountImplements ==
    ASSUME NewAccount
    PROVE  Abs!Next
<1>1. PICK a \in Accounts, c \in Currencies, b \in Openings : CreateAccount(a, c, b)
  BY DEF NewAccount
<1>2. Abs!Open(a, c, b)
  BY <1>1 DEF CreateAccount, Storable, Abs!Open
<1> QED
  BY <1>2 DEF Abs!Next

LEMMA CommitInitiateImplements ==
    ASSUME IInv, NEW r \in Requests, CommitInitiate(r)
    PROVE  Abs!Next
<1>1. Local(r) /\ pc[r] = "commit" /\ op[r] = "initiate"
  BY DEF IInv, CommitInitiate
<1>2. /\ txn[r] \in Payment
      /\ currency[txn[r].sender] = txn[r].currency
      /\ currency[txn[r].receiver] = txn[r].currency
      /\ tid[r] \in TxnIds
      /\ status[tid[r]] = "absent"
      /\ \A u \in TxnIds : status[u] # "absent" => payment[u].key # txn[r].key
  BY <1>1 DEF Local, Initiating, Uncommitted
<1>3. Abs!Initiate(tid[r], txn[r])
  BY <1>2 DEF CommitInitiate, Abs!Initiate
<1> QED
  BY <1>2, <1>3 DEF Abs!Next, Payment, Abs!Payment

LEMMA CommitAuthorizeImplements ==
    ASSUME IInv, NEW r \in Requests, CommitAuthorize(r)
    PROVE  Abs!Next
<1>1. Local(r) /\ pc[r] = "commit" /\ op[r] = "authorize"
  BY DEF IInv, CommitAuthorize
<1>2. /\ tid[r] \in TxnIds
      /\ status[tid[r]] = "pending"
      /\ txn[r] = payment[tid[r]]
  BY <1>1 DEF Local, StageOfOp, Moving, Holding, Expected
<1>3. payment[tid[r]].amount <= balance[payment[tid[r]].sender]
  BY <1>1, <1>2 DEF Local, Paying
<1>4. Abs!Authorize(tid[r])
  BY <1>2, <1>3 DEF CommitAuthorize, Abs!Authorize
<1> QED
  BY <1>2, <1>4 DEF Abs!Next

LEMMA CommitSettleImplements ==
    ASSUME IInv, NEW r \in Requests, CommitSettle(r)
    PROVE  Abs!Next
<1> DEFINE t == tid[r]
           p == payment[t]
           debited == balance[p.sender] - p.amount
           withDebit == [balance EXCEPT ![p.sender] = debited]
           credited == withDebit[p.receiver] + p.amount
<1>1. op[r] = "settle" /\ pc[r] = "commit"
  BY DEF CommitSettle
<1>2. t \in TxnIds /\ status[t] = "authorized"
  BY <1>1, SettlingFacts
<1>3. /\ debited \in 0..MaxBigint
      /\ credited \in 0..MaxBigint
      /\ balance' = [withDebit EXCEPT ![p.receiver] = credited]
      /\ ledger' = Post(Post(ledger, p.sender, Entry(t, "debit", p.amount, debited)),
                        p.receiver, Entry(t, "credit", p.amount, credited))
  BY SettledValues
<1>4. status' = [status EXCEPT ![t] = "settled"] /\ UNCHANGED <<currency, payment>>
  BY DEF CommitSettle
<1>5. debited >= 0 /\ credited <= MaxBigint
  <2> HIDE DEF debited, credited
  <2> QED
    BY <1>3, Constants
<1>6. Abs!Settle(t)
  BY <1>2, <1>3, <1>4, <1>5 DEF Abs!Settle, Post, Abs!Post, Entry, Abs!Entry
<1> QED
  BY <1>2, <1>6 DEF Abs!Next

\* Every other step of a request leaves the committed tables alone.
LEMMA ProceedQuietly ==
    ASSUME NEW r \in Requests, Proceed(r),
           ~CommitInitiate(r), ~CommitAuthorize(r), ~CommitSettle(r)
    PROVE  UNCHANGED tables
<1>1. CASE BeginTx(r) \/ VerifyAccounts(r) \/ InsertTransaction(r)
  BY <1>1 DEF BeginTx, VerifyAccounts, InsertTransaction
<1>2. CASE CheckSender(r) \/ CheckReceiver(r) \/ LockDuplicate(r) \/ ReturnDuplicate(r)
  BY <1>2 DEF CheckSender, CheckReceiver, LockDuplicate, ReturnDuplicate, Refuse
<1>3. CASE LockTransaction(r)
  BY <1>3 DEF LockTransaction, Refuse
<1>4. CASE LockSender(r)
  BY <1>4 DEF LockSender, Refuse
<1>5. CASE LockFirst(r) \/ LockSecond(r)
  BY <1>5 DEF LockFirst, LockSecond
<1>6. CASE DebitSender(r)
  BY <1>6 DEF DebitSender, Refuse
<1>7. CASE CreditReceiver(r)
  BY <1>7 DEF CreditReceiver, Refuse
<1>8. CASE WriteAudit(r) \/ Dispatch(r) \/ Reply(r)
  BY <1>8 DEF WriteAudit, Dispatch, Reply
<1> QED
  BY <1>1, <1>2, <1>3, <1>4, <1>5, <1>6, <1>7, <1>8 DEF Proceed

LEMMA StepImplements ==
    ASSUME IInv, [Next]_vars
    PROVE  [Abs!Next]_(Abs!vars)
<1>1. CASE NewAccount
  BY <1>1, NewAccountImplements
<1>2. CASE Crash \/ UNCHANGED vars
  BY <1>2 DEF Crash, vars, tables, Abs!vars
<1>3. ASSUME NEW r \in Requests, Arrive(r) PROVE UNCHANGED Abs!vars
  BY <1>3 DEF Arrive, BindInitiate, BindTransition, RejectRequest, tables, Abs!vars
<1>4. ASSUME NEW r \in Requests, Proceed(r) PROVE [Abs!Next]_(Abs!vars)
  <2>1. CASE CommitInitiate(r) \/ CommitAuthorize(r) \/ CommitSettle(r)
    BY <2>1, CommitInitiateImplements, CommitAuthorizeImplements, CommitSettleImplements
  <2>2. CASE ~(CommitInitiate(r) \/ CommitAuthorize(r) \/ CommitSettle(r))
    BY <1>4, <2>2, ProceedQuietly DEF tables, Abs!vars
  <2> QED
    BY <2>1, <2>2
<1>5. ASSUME NEW r \in Requests, Abort(r) \/ BreakDeadlock(r) PROVE UNCHANGED Abs!vars
  BY <1>5 DEF Abort, BreakDeadlock, Fail, Refuse, tables, Abs!vars
<1> QED
  BY <1>1, <1>2, <1>3, <1>4, <1>5 DEF Next

(***************************************************************************)
(* The concurrent service implements AtomicPayments: PaymentService makes  *)
(* each operation take effect at one instant, its commit.                  *)
(***************************************************************************)
THEOREM Refinement == Spec => ImplementsAtomicPayments
<1>1. IInv /\ [Next]_vars => [Abs!Next]_(Abs!vars)
  BY StepImplements
<1> QED
  BY InitImplements, Invariance, <1>1, PTL DEF Spec, ImplementsAtomicPayments, Abs!Spec

-----------------------------------------------------------------------------
(***************************************************************************)
(* What is proved of AtomicPayments therefore holds of the service.        *)
(***************************************************************************)
Atomic == INSTANCE AtomicPaymentsProofs

\* The two instances of AtomicPayments define the same operations.
LEMMA SameSpec == Abs!Spec => Atomic!Spec
<1>1. Abs!Init => Atomic!Init
  BY DEF Abs!Init, Atomic!Init
<1>2. [Abs!Next]_(Abs!vars) => [Atomic!Next]_(Atomic!vars)
  BY DEF Abs!Next, Abs!vars, Abs!Open, Abs!Initiate, Abs!Authorize, Abs!Settle,
         Atomic!Next, Atomic!vars, Atomic!Open, Atomic!Initiate, Atomic!Authorize,
         Atomic!Settle, Abs!Post, Abs!Entry, Atomic!Post, Atomic!Entry, Abs!Payment,
         Atomic!Payment
<1> QED
  BY <1>1, <1>2, PTL DEF Abs!Spec, Atomic!Spec

\* The theorems of AtomicPaymentsProofs, with their assumptions discharged.
LEMMA AtomicTheorems ==
    /\ Atomic!Spec => []Atomic!OneTransactionPerKey
    /\ Atomic!Spec => []Atomic!DoubleEntry
    /\ Atomic!Spec => []Atomic!LedgerReplays
<1> USE NoneAssumption, MaxBigintAssumption, AmountsAssumption, AccountsAssumption,
        AccountsBounded
<1>1. Atomic!Spec => []Atomic!OneTransactionPerKey
  BY Atomic!Idempotent
<1>2. Atomic!Spec => []Atomic!DoubleEntry
  BY Atomic!Balanced
<1>3. Atomic!Spec => []Atomic!LedgerReplays
  BY Atomic!Replays
<1> QED
  BY <1>1, <1>2, <1>3

(***************************************************************************)
(* README "Idempotency": concurrent requests with one key never create two *)
(* transactions, whatever is retried after whichever failure.              *)
(***************************************************************************)
THEOREM Idempotent == Spec => []OneTransactionPerKey
<1>1. Atomic!OneTransactionPerKey => OneTransactionPerKey
  BY DEF Atomic!OneTransactionPerKey, OneTransactionPerKey, Abs!OneTransactionPerKey
<1> QED
  BY <1>1, Refinement, SameSpec, AtomicTheorems, PTL DEF ImplementsAtomicPayments

(***************************************************************************)
(* README "Double-Entry Bookkeeping": concurrent settlements write exactly *)
(* one debit and one credit for each transaction they settle.              *)
(***************************************************************************)
THEOREM Balanced == Spec => []DoubleEntry
<1>1. Atomic!DoubleEntry => DoubleEntry
  BY DEF DoubleEntry, Abs!DoubleEntry, Abs!EntryOfSettled, Abs!HasEntry, Abs!SameEntry,
         Atomic!DoubleEntry, Atomic!EntryOfSettled, Atomic!HasEntry, Atomic!SameEntry
<1> QED
  BY <1>1, Refinement, SameSpec, AtomicTheorems, PTL DEF ImplementsAtomicPayments

(***************************************************************************)
(* balance_after: the ledger that concurrent settlements write replays to  *)
(* the balances of the accounts.                                           *)
(***************************************************************************)
THEOREM Replays == Spec => []LedgerReplays
<1>1. Atomic!LedgerReplays => LedgerReplays
  BY DEF LedgerReplays, Abs!LedgerReplays, Abs!Signed, Atomic!LedgerReplays, Atomic!Signed
<1> QED
  BY <1>1, Refinement, SameSpec, AtomicTheorems, PTL DEF ImplementsAtomicPayments

(***************************************************************************)
(* isValidTransition of payment_test.go: a transaction never skips a       *)
(* status, goes back or moves twice, and its columns never change.         *)
(***************************************************************************)
THEOREM Lifecycle == Spec => LifecycleRespected
<1> DEFINE Step == \A t \in TxnIds :
                       /\ status'[t] # status[t] => ValidTransition(status[t], status'[t])
                       /\ status[t] # "absent" => payment'[t] = payment[t]
<1>1. ASSUME TypeOK, [Abs!Next]_(Abs!vars) PROVE Step
  <2>1. status \in [TxnIds -> RowStatus] /\ payment \in [TxnIds -> Payment \cup {None}]
    BY <1>1 DEF TypeOK, RepoTypeOK
  <2>2. CASE UNCHANGED Abs!vars
    BY <2>2 DEF Abs!vars
  <2>3. ASSUME NEW a \in Accounts, NEW c \in Currencies, NEW b \in Openings,
               Abs!Open(a, c, b)
        PROVE  Step
    BY <2>3 DEF Abs!Open
  <2>4. ASSUME NEW t \in TxnIds, NEW p \in Abs!Payment, Abs!Initiate(t, p) PROVE Step
    BY <2>1, <2>4 DEF Abs!Initiate, ValidTransition
  <2>5. ASSUME NEW t \in TxnIds, Abs!Authorize(t) PROVE Step
    BY <2>1, <2>5 DEF Abs!Authorize, ValidTransition
  <2>6. ASSUME NEW t \in TxnIds, Abs!Settle(t) PROVE Step
    BY <2>1, <2>6 DEF Abs!Settle, ValidTransition
  <2> QED
    BY <1>1, <2>2, <2>3, <2>4, <2>5, <2>6 DEF Abs!Next
<1>2. TypeOK /\ [Abs!Next]_(Abs!vars) => [Step]_vars
  BY <1>1
<1> QED
  BY <1>2, TypeCorrect, Refinement, PTL
     DEF ImplementsAtomicPayments, Abs!Spec, LifecycleRespected

-----------------------------------------------------------------------------
(***************************************************************************)
(* What the service tells its clients, its auditors and the webhook's      *)
(* endpoint about a payment has been committed, and each event is told     *)
(* once, for any number of requests and under any of the modelled          *)
(* failures.                                                               *)
(***************************************************************************)

\* The stages after a commit that the caller has learned of.
Notifying == {"audit", "dispatch"}

\* r has learned that its operation is committed, by itself or by another one.
Claims(r) ==
    \/ pc[r] \in Notifying \cup {"dup_lock", "dup_rollback"}
    \/ result[r] = "ok"

\* What a request claims is true, and only a request that replies has a result.
Truthful(r) ==
    /\ result[r] # "none" => pc[r] = "reply"
    /\ Claims(r) =>
           /\ tid[r] \in TxnIds
           /\ op[r] \in Ops
           /\ status[tid[r]] \in Reached(op[r])
           /\ op[r] = "initiate" => payment[tid[r]].key = txn[r].key

\* The event of a request that is still to be told has not been told yet.
Untold(r) ==
    /\ pc[r] = "audit" => audit[tid[r]][op[r]] = 0
    /\ pc[r] \in Notifying => webhooks[tid[r]][op[r]] = 0

\* No two requests are about to tell the same event.
OneTeller ==
    \A q, r \in Requests :
        /\ q # r
        /\ pc[q] \in Notifying
        /\ pc[r] \in Notifying
        => tid[q] # tid[r] \/ op[q] # op[r]

\* What has been told is true, and was told once.
Told(t, o) ==
    /\ audit[t][o] \in {0, 1}
    /\ webhooks[t][o] \in {0, 1}
    /\ audit[t][o] = 1 \/ webhooks[t][o] = 1 => status[t] \in Reached(o)

\* No statement writes "failed" or "refunded".
Written(t) == status[t] \in Reached("initiate") \cup {"absent"}

NInv ==
    /\ \A t \in TxnIds : Written(t)
    /\ \A r \in Requests : Truthful(r) /\ Untold(r)
    /\ OneTeller
    /\ \A t \in TxnIds, o \in Ops : Told(t, o)

LEMMA InitNInv == Init => NInv
<1> SUFFICES ASSUME Init PROVE NInv
  OBVIOUS
<1>1. \A r \in Requests : pc[r] = "idle" /\ result[r] = "none"
  BY DEF Init, NoRequests
<1>2. \A t \in TxnIds, o \in Ops : audit[t][o] = 0 /\ webhooks[t][o] = 0
  BY DEF Init, RepoInit
<1>3. \A t \in TxnIds : Written(t)
  BY DEF Init, RepoInit, Written
<1> QED
  BY <1>1, <1>2, <1>3 DEF NInv, Truthful, Claims, Notifying, Untold, OneTeller, Told

-----------------------------------------------------------------------------
(***************************************************************************)
(* Frames.                                                                 *)
(***************************************************************************)

\* A payment never goes back, and its columns never change.
Onward ==
    \A t \in TxnIds :
        /\ \A o \in Ops : status[t] \in Reached(o) => status'[t] \in Reached(o)
        /\ status[t] # "absent" => payment'[t] = payment[t]
        /\ Written(t) => Written(t)'

LEMMA StepsOnward ==
    ASSUME IInv, [Next]_vars
    PROVE  Onward
<1> USE DEF Written
<1>1. status \in [TxnIds -> RowStatus] /\ payment \in [TxnIds -> Payment \cup {None}]
  BY DEF IInv, TypeOK, RepoTypeOK
<1>2. [Abs!Next]_(Abs!vars)
  BY StepImplements
<1>3. CASE UNCHANGED Abs!vars
  BY <1>3 DEF Abs!vars, Onward
<1>4. ASSUME NEW a \in Accounts, NEW c \in Currencies, NEW b \in Openings,
             Abs!Open(a, c, b)
      PROVE  Onward
  BY <1>4 DEF Abs!Open, Onward
<1>5. ASSUME NEW t \in TxnIds, NEW p \in Abs!Payment, Abs!Initiate(t, p) PROVE Onward
  BY <1>1, <1>5 DEF Abs!Initiate, Onward, Reached, Ops
<1>6. ASSUME NEW t \in TxnIds, Abs!Authorize(t) PROVE Onward
  BY <1>1, <1>6 DEF Abs!Authorize, Onward, Reached, Ops
<1>7. ASSUME NEW t \in TxnIds, Abs!Settle(t) PROVE Onward
  BY <1>1, <1>7 DEF Abs!Settle, Onward, Reached, Ops
<1> QED
  BY <1>2, <1>3, <1>4, <1>5, <1>6, <1>7 DEF Abs!Next

\* What a step of another request leaves alone of what q claims.
Unmoved(q) ==
    /\ pc'[q] = pc[q]
    /\ result'[q] = result[q]
    /\ op'[q] = op[q]
    /\ tid'[q] = tid[q]
    /\ txn'[q] = txn[q]

Alone(r) == \A q \in Requests \ {r} : Unmoved(q)

\* A claim stays true when the claimant does not move.
LEMMA ClaimFrame ==
    ASSUME NEW q \in Requests, Truthful(q), Unmoved(q), Onward
    PROVE  Truthful(q)'
<1> SUFFICES ASSUME Claims(q)
             PROVE  /\ status'[tid[q]] \in Reached(op[q])
                    /\ op[q] = "initiate" => payment'[tid[q]] = payment[tid[q]]
  BY DEF Truthful, Claims, Unmoved
<1>1. tid[q] \in TxnIds /\ op[q] \in Ops /\ status[tid[q]] \in Reached(op[q])
  BY DEF Truthful
<1>2. status[tid[q]] # "absent"
  BY <1>1 DEF Reached, Ops
<1> QED
  BY <1>1, <1>2 DEF Onward

\* A step of r that tells nothing and after which r has nothing to tell.
LEMMA UntellingStep ==
    ASSUME NInv, Onward, NEW r \in Requests, Alone(r), UNCHANGED <<audit, webhooks>>,
           Truthful(r)', pc'[r] \notin Notifying
    PROVE  NInv'
<1>1. \A q \in Requests : Truthful(q)'
  BY ClaimFrame DEF NInv, Alone
<1>2. \A q \in Requests : Untold(q)'
  BY DEF NInv, Alone, Unmoved, Untold, Notifying
<1>3. OneTeller'
  BY DEF NInv, Alone, Unmoved, OneTeller
<1>4. \A t \in TxnIds, o \in Ops : Told(t, o)'
  BY DEF NInv, Told, Onward
<1> QED
  BY <1>1, <1>2, <1>3, <1>4 DEF NInv, Onward

-----------------------------------------------------------------------------
(***************************************************************************)
(* Steps after which the request claims nothing.                           *)
(***************************************************************************)
Silent(r) ==
    /\ Alone(r)
    /\ UNCHANGED <<audit, webhooks>>
    /\ pc'[r] \notin Notifying \cup {"dup_lock", "dup_rollback"}
    /\ result'[r] # "ok"
    /\ result'[r] # "none" => pc'[r] = "reply"

LEMMA SilentStep ==
    ASSUME NInv, Onward, NEW r \in Requests, Silent(r)
    PROVE  NInv'
<1>1. Truthful(r)'
  BY DEF Silent, Truthful, Claims
<1> QED
  BY <1>1, UntellingStep DEF Silent

\* A refusal is silent.
LEMMA RefuseIsSilent ==
    ASSUME IInv, NEW r \in Requests, NEW res \in Results \ {"ok"}, Refuse(r, res)
    PROVE  Silent(r)
<1>1. PcType
  BY TypeParts DEF IInv
<1> QED
  BY <1>1 DEF Refuse, Answer, locals, PcType, Silent, Alone, Unmoved, Notifying

\* So is going on to another statement of the same database transaction.
LEMMA GotoIsSilent ==
    ASSUME IInv, NInv, NEW r \in Requests, pc[r] # "reply",
           NEW stage \in Stages \ (Notifying \cup {"dup_lock", "dup_rollback"}),
           Goto(r, stage), UNCHANGED <<audit, webhooks>>,
           \A q \in Requests \ {r} :
               op'[q] = op[q] /\ tid'[q] = tid[q] /\ txn'[q] = txn[q]
    PROVE  Silent(r)
<1>1. PcType
  BY TypeParts DEF IInv
<1>2. result[r] = "none"
  BY DEF NInv, Truthful
<1> QED
  BY <1>1, <1>2 DEF Goto, PcType, Silent, Alone, Unmoved, Notifying

LEMMA ArriveIsSilent ==
    ASSUME IInv, NInv, NEW r \in Requests, Arrive(r)
    PROVE  Silent(r)
<1>1. PcType /\ LocalsType
  BY TypeParts DEF IInv
<1>2. CASE BindInitiate(r)
  <2>1. PICK p : txn' = [txn EXCEPT ![r] = p]
    BY <1>2 DEF BindInitiate
  <2> QED
    BY <1>1, <1>2, <2>1, GotoIsSilent DEF BindInitiate, LocalsType, Stages, Notifying
<1>3. ASSUME NEW o \in {"authorize", "settle"}, BindTransition(r, o) PROVE Silent(r)
  <2>1. PICK t : tid' = [tid EXCEPT ![r] = t]
    BY <1>3 DEF BindTransition
  <2> QED
    BY <1>1, <1>3, <2>1, GotoIsSilent DEF BindTransition, LocalsType, Stages, Notifying
<1>4. CASE RejectRequest(r)
  BY <1>1, <1>4 DEF RejectRequest, Answer, locals, PcType, Silent, Alone, Unmoved, Notifying
<1> QED
  BY <1>2, <1>3, <1>4 DEF Arrive

LEMMA ReplyIsSilent ==
    ASSUME IInv, NEW r \in Requests, Reply(r)
    PROVE  Silent(r)
<1>1. PcType /\ LocalsType
  BY TypeParts DEF IInv
<1> QED
  BY <1>1 DEF Reply, Forget, PcType, LocalsType, Silent, Alone, Unmoved, Notifying

\* The statements before the commit, unless they find the key's transaction.
Statement(r) ==
    \/ BeginTx(r) \/ VerifyAccounts(r) \/ CheckSender(r) \/ CheckReceiver(r)
    \/ LockTransaction(r) \/ LockSender(r) \/ LockFirst(r) \/ LockSecond(r)
    \/ DebitSender(r) \/ CreditReceiver(r)

LEMMA StatementIsSilent ==
    ASSUME IInv, NInv, NEW r \in Requests, Statement(r)
    PROVE  Silent(r)
<1> USE DEF Stages, InTx, Notifying, Results
<1>1. PcType /\ LocalsType
  BY TypeParts DEF IInv
<1>2. CASE BeginTx(r)
  BY <1>2, GotoIsSilent DEF BeginTx, locals
<1>3. CASE VerifyAccounts(r)
  <2>1. CASE Goto(r, "begin")
    BY <1>3, <2>1, GotoIsSilent DEF VerifyAccounts, locals
  <2>2. CASE Answer(r, "unprocessable")
    BY <1>1, <1>3, <2>2
       DEF VerifyAccounts, Answer, locals, PcType, Silent, Alone, Unmoved
  <2> QED
    BY <1>3, <2>1, <2>2 DEF VerifyAccounts
<1>4. CASE CheckSender(r) \/ CheckReceiver(r)
  BY <1>4, GotoIsSilent DEF CheckSender, CheckReceiver, locals
<1>5. CASE LockTransaction(r)
  <2>1. CASE Refuse(r, "unprocessable") \/ Refuse(r, "forbidden")
    BY <2>1, RefuseIsSilent
  <2>2. CASE ~(Refuse(r, "unprocessable") \/ Refuse(r, "forbidden"))
    <3>1. /\ pc[r] = "lock_txn"
          /\ txn' = [txn EXCEPT ![r] = payment[tid[r]]]
          /\ Goto(r, IF op[r] = "authorize" THEN "lock_sender" ELSE "lock_first")
          /\ UNCHANGED <<audit, op, tid, webhooks>>
      BY <1>5, <2>2 DEF LockTransaction
    <3> QED
      BY <1>1, <3>1, GotoIsSilent DEF LocalsType
  <2> QED
    BY <2>1, <2>2
<1>6. CASE LockSender(r)
  <2>1. CASE Refuse(r, "unprocessable")
    BY <2>1, RefuseIsSilent
  <2>2. CASE ~Refuse(r, "unprocessable")
    BY <1>6, <2>2, GotoIsSilent DEF LockSender, locals
  <2> QED
    BY <2>1, <2>2
<1>7. CASE LockFirst(r) \/ LockSecond(r)
  BY <1>7, GotoIsSilent DEF LockFirst, LockSecond, locals
<1>8. CASE DebitSender(r)
  <2>1. CASE Refuse(r, "unprocessable")
    BY <2>1, RefuseIsSilent
  <2>2. CASE ~Refuse(r, "unprocessable")
    BY <1>8, <2>2, GotoIsSilent DEF DebitSender
  <2> QED
    BY <2>1, <2>2
<1>9. CASE CreditReceiver(r)
  <2>1. CASE Refuse(r, "unprocessable")
    BY <2>1, RefuseIsSilent
  <2>2. CASE ~Refuse(r, "unprocessable")
    BY <1>9, <2>2, GotoIsSilent DEF CreditReceiver
  <2> QED
    BY <2>1, <2>2
<1> QED
  BY <1>2, <1>3, <1>4, <1>5, <1>6, <1>7, <1>8, <1>9 DEF Statement

-----------------------------------------------------------------------------
(***************************************************************************)
(* A repeated initiation: the transaction of the key exists.               *)
(***************************************************************************)
LEMMA InsertNInv ==
    ASSUME IInv, NInv, Onward, NEW r \in Requests, InsertTransaction(r)
    PROVE  NInv'
<1>1. PcType /\ LocalsType /\ Local(r) /\ TablesType
  BY TypeParts DEF IInv
<1>2. /\ pc[r] = "insert"
      /\ UNCHANGED <<tables, audit, op, txn, webhooks>>
  BY DEF InsertTransaction
<1>3. op[r] = "initiate" /\ result[r] = "none"
  BY <1>1, <1>2 DEF Local, StageOfOp, NInv, Truthful
<1>4. PICK t \in TxnIds :
          /\ tid' = [tid EXCEPT ![r] = t]
          /\ \/ Goto(r, "fk_sender")
             \/ t \in RowsOfKey(txn[r].key) /\ Goto(r, "dup_lock")
  BY DEF InsertTransaction, RowsOfKey
<1>5. Alone(r)
  BY <1>1, <1>2, <1>4 DEF Goto, PcType, LocalsType, Alone, Unmoved
<1>6. CASE Goto(r, "fk_sender")
  BY <1>1, <1>2, <1>3, <1>5, <1>6, SilentStep DEF Silent, Goto, PcType, Notifying
<1>7. CASE t \in RowsOfKey(txn[r].key) /\ Goto(r, "dup_lock")
  <2>1. status[t] # "absent" /\ payment[t].key = txn[r].key
    BY <1>7 DEF RowsOfKey
  <2>2. status[t] \in Reached("initiate")
    BY <2>1 DEF NInv, Written
  <2>3. pc'[r] = "dup_lock" /\ result'[r] = "none" /\ tid'[r] = t /\ op'[r] = "initiate"
    BY <1>1, <1>2, <1>3, <1>4, <1>7 DEF Goto, PcType, LocalsType
  <2>4. Truthful(r)'
    BY <1>2, <2>1, <2>2, <2>3 DEF Truthful, tables, Ops
  <2> QED
    BY <1>2, <1>5, <2>3, <2>4, UntellingStep DEF Notifying
<1> QED
  BY <1>4, <1>6, <1>7

\* The duplicate is locked and answered with the transaction that exists.
LEMMA DuplicateNInv ==
    ASSUME IInv, NInv, Onward, NEW r \in Requests,
           LockDuplicate(r) \/ ReturnDuplicate(r)
    PROVE  NInv'
<1>1. PcType /\ Truthful(r)
  BY TypeParts DEF IInv, NInv
<1>2. /\ Claims(r)
      /\ pc[r] \in {"dup_lock", "dup_rollback"}
      /\ UNCHANGED <<tables, audit, locals, webhooks>>
      /\ Goto(r, "dup_rollback") \/ Answer(r, "ok")
  BY DEF LockDuplicate, ReturnDuplicate, Refuse, Claims
<1>3. /\ Alone(r)
      /\ pc'[r] \in {"dup_rollback", "reply"}
      /\ result'[r] # "none" => pc'[r] = "reply"
  BY <1>1, <1>2 DEF Goto, Answer, locals, PcType, Alone, Unmoved, Truthful
<1>4. Truthful(r)'
  BY <1>1, <1>2, <1>3 DEF Truthful, tables, locals
<1> QED
  BY <1>2, <1>3, <1>4, UntellingStep DEF Notifying

-----------------------------------------------------------------------------
(***************************************************************************)
(* The commits.  Before its commit the payment has not reached the         *)
(* operation's status, so nobody has told the event or is about to.        *)
(***************************************************************************)
Commits(r) == CommitInitiate(r) \/ CommitAuthorize(r) \/ CommitSettle(r)

LEMMA CommitReaches ==
    ASSUME IInv, NEW r \in Requests, Commits(r)
    PROVE  /\ tid[r] \in TxnIds /\ op[r] \in Ops
           /\ status[tid[r]] \notin Reached(op[r])
           /\ status'[tid[r]] \in Reached(op[r])
           /\ op[r] = "initiate" => payment'[tid[r]] = txn[r]
           /\ pc[r] = "commit"
           /\ AfterCommit(r)
           /\ UNCHANGED <<audit, webhooks, locals>>
<1>1. Local(r) /\ TablesType
  BY TypeParts DEF IInv
<1>2. CASE CommitInitiate(r)
  <2>1. tid[r] \in TxnIds /\ status[tid[r]] = "absent"
    BY <1>1, <1>2 DEF CommitInitiate, Local, Initiating, Uncommitted
  <2> QED
    BY <1>1, <1>2, <2>1 DEF CommitInitiate, TablesType, Reached, Ops
<1>3. CASE CommitAuthorize(r)
  <2>1. tid[r] \in TxnIds /\ status[tid[r]] = "pending"
    BY <1>1, <1>3 DEF CommitAuthorize, Local, StageOfOp, Moving, Holding, Expected
  <2> QED
    BY <1>1, <1>3, <2>1 DEF CommitAuthorize, TablesType, Reached, Ops
<1>4. CASE CommitSettle(r)
  <2>1. tid[r] \in TxnIds /\ status[tid[r]] = "authorized"
    BY <1>1, <1>4 DEF CommitSettle, Local, StageOfOp, Moving, Holding, Expected
  <2> QED
    BY <1>1, <1>4, <2>1 DEF CommitSettle, TablesType, Reached, Ops
<1> QED
  BY <1>2, <1>3, <1>4 DEF Commits

LEMMA CommitNInv ==
    ASSUME IInv, NInv, Onward, NEW r \in Requests, Commits(r)
    PROVE  NInv'
<1> DEFINE t == tid[r]
           o == op[r]
<1>1. PcType
  BY TypeParts DEF IInv
<1>2. /\ t \in TxnIds /\ o \in Ops
      /\ status[t] \notin Reached(o)
      /\ status'[t] \in Reached(o)
      /\ o = "initiate" => payment'[t] = txn[r]
      /\ pc[r] = "commit"
      /\ AfterCommit(r)
      /\ UNCHANGED <<audit, webhooks>>
      /\ op' = op /\ tid' = tid /\ txn' = txn
  BY CommitReaches DEF locals
<1>3. result[r] = "none"
  BY <1>2 DEF NInv, Truthful
<1>4. CASE Answer(r, "unprocessable")
  BY <1>1, <1>2, <1>4, SilentStep
     DEF Answer, PcType, Silent, Alone, Unmoved, Notifying
<1>5. CASE Goto(r, IF o = "authorize" THEN "dispatch" ELSE "audit")
  <2>1. Alone(r) /\ pc'[r] \in Notifying /\ result'[r] = "none"
    BY <1>1, <1>2, <1>3, <1>5 DEF Goto, PcType, Alone, Unmoved, Notifying
  <2>2. \A q \in Requests : Truthful(q)'
    <3>1. Truthful(r)'
      BY <1>2, <2>1 DEF Truthful
    <3> QED
      BY <2>1, <3>1, ClaimFrame DEF NInv, Alone
  <2>3. audit[t][o] = 0 /\ webhooks[t][o] = 0
    BY <1>2 DEF NInv, Told
  <2>4. \A q \in Requests : Untold(q)'
    BY <1>2, <2>1, <2>3 DEF NInv, Alone, Unmoved, Untold
  <2>5. \A q \in Requests \ {r} : pc[q] \in Notifying => tid[q] # t \/ op[q] # o
    BY <1>2 DEF NInv, Truthful, Claims
  <2>6. OneTeller'
    BY <1>2, <2>1, <2>5 DEF NInv, Alone, Unmoved, OneTeller
  <2>7. \A u \in TxnIds, p \in Ops : Told(u, p)'
    BY <1>2 DEF NInv, Told, Onward
  <2> QED
    BY <2>2, <2>4, <2>6, <2>7 DEF NInv, Onward
<1> QED
  BY <1>2, <1>4, <1>5 DEF AfterCommit

-----------------------------------------------------------------------------
(***************************************************************************)
(* The audit row and the webhook.                                          *)
(***************************************************************************)

\* One more entry for t and o changes no other count.
LEMMA CountOthers ==
    ASSUME NEW f \in [TxnIds -> [Ops -> Nat]], NEW t \in TxnIds, NEW o \in Ops,
           NEW g, g = [f EXCEPT ![t][o] = @ + 1]
    PROVE  /\ g[t][o] = f[t][o] + 1
           /\ \A u \in TxnIds, p \in Ops : u # t \/ p # o => g[u][p] = f[u][p]
OBVIOUS

LEMMA WriteAuditNInv ==
    ASSUME IInv, NInv, Onward, NEW r \in Requests, WriteAudit(r)
    PROVE  NInv'
<1> DEFINE t == tid[r]
           o == op[r]
<1>1. PcType /\ TablesType /\ Truthful(r) /\ Untold(r)
  BY TypeParts DEF IInv, NInv
<1>2. /\ pc[r] = "audit"
      /\ Goto(r, "dispatch")
      /\ CreateAuditLog(t, o) \/ UNCHANGED audit
      /\ webhooks' = webhooks /\ status' = status /\ payment' = payment
      /\ op' = op /\ tid' = tid /\ txn' = txn
  BY DEF WriteAudit, locals, tables
<1>3. /\ Alone(r)
      /\ pc'[r] = "dispatch"
      /\ result'[r] = result[r]
  BY <1>1, <1>2 DEF Goto, PcType, Alone, Unmoved
<1>4. /\ t \in TxnIds /\ o \in Ops
      /\ status[t] \in Reached(o)
      /\ audit[t][o] = 0 /\ webhooks[t][o] = 0
  BY <1>1, <1>2 DEF Truthful, Claims, Untold, Notifying
<1>5. /\ audit'[t][o] \in {0, 1}
      /\ \A u \in TxnIds, p \in Ops : u # t \/ p # o => audit'[u][p] = audit[u][p]
  <2>1. CASE UNCHANGED audit
    BY <1>4, <2>1
  <2>2. CASE CreateAuditLog(t, o)
    <3>1. audit \in [TxnIds -> [Ops -> Nat]] /\ audit' = [audit EXCEPT ![t][o] = @ + 1]
      BY <1>1, <2>2 DEF TablesType, CreateAuditLog
    <3> QED
      BY <1>4, <3>1, CountOthers
  <2> QED
    BY <1>2, <2>1, <2>2
<1>6. \A q \in Requests : Truthful(q)'
  <2>1. Truthful(r)'
    BY <1>1, <1>2, <1>3 DEF Truthful, Claims, Notifying
  <2> QED
    BY <1>3, <2>1, ClaimFrame DEF NInv, Alone
<1>7. \A q \in Requests \ {r} :
          pc[q] \in Notifying =>
              /\ tid[q] \in TxnIds /\ op[q] \in Ops
              /\ tid[q] # t \/ op[q] # o
  BY <1>2 DEF NInv, OneTeller, Truthful, Claims, Notifying
<1>8. \A q \in Requests : Untold(q)'
  <2>1. Untold(r)'
    BY <1>2, <1>3, <1>4 DEF Untold
  <2>2. ASSUME NEW q \in Requests \ {r} PROVE Untold(q)'
    BY <1>2, <1>3, <1>5, <1>7 DEF NInv, Alone, Unmoved, Untold, Notifying
  <2> QED
    BY <2>1, <2>2
<1>9. OneTeller'
  BY <1>2, <1>3, <1>7 DEF NInv, Alone, Unmoved, OneTeller, Notifying
<1>10. ASSUME NEW u \in TxnIds, NEW p \in Ops PROVE Told(u, p)'
  <2>1. CASE u = t /\ p = o
    BY <1>2, <1>4, <1>5, <2>1 DEF Told
  <2>2. CASE u # t \/ p # o
    BY <1>2, <1>5, <2>2 DEF NInv, Told
  <2> QED
    BY <2>1, <2>2
<1> QED
  BY <1>6, <1>8, <1>9, <1>10 DEF NInv, Onward

LEMMA DispatchNInv ==
    ASSUME IInv, NInv, Onward, NEW r \in Requests, Dispatch(r)
    PROVE  NInv'
<1> DEFINE t == tid[r]
           o == op[r]
<1>1. PcType /\ TablesType /\ Truthful(r) /\ Untold(r)
  BY TypeParts DEF IInv, NInv
<1>2. /\ pc[r] = "dispatch"
      /\ Answer(r, "ok")
      /\ webhooks' = [webhooks EXCEPT ![t][o] = @ + 1] \/ webhooks' = webhooks
      /\ audit' = audit /\ status' = status /\ payment' = payment
      /\ op' = op /\ tid' = tid /\ txn' = txn
  BY DEF Dispatch, locals, tables
<1>3. Alone(r) /\ pc'[r] = "reply"
  BY <1>1, <1>2 DEF Answer, PcType, Alone, Unmoved
<1>4. /\ t \in TxnIds /\ o \in Ops
      /\ status[t] \in Reached(o)
      /\ webhooks[t][o] = 0
  BY <1>1, <1>2 DEF Truthful, Claims, Untold, Notifying
<1>5. /\ webhooks'[t][o] \in {0, 1}
      /\ \A u \in TxnIds, p \in Ops :
             u # t \/ p # o => webhooks'[u][p] = webhooks[u][p]
  <2>1. webhooks \in [TxnIds -> [Ops -> Nat]]
    BY <1>1 DEF TablesType
  <2> QED
    BY <1>2, <1>4, <2>1, CountOthers
<1>6. \A q \in Requests : Truthful(q)'
  <2>1. Truthful(r)'
    BY <1>1, <1>2, <1>3 DEF Truthful, Claims, Notifying
  <2> QED
    BY <1>3, <2>1, ClaimFrame DEF NInv, Alone
<1>7. \A q \in Requests \ {r} :
          pc[q] \in Notifying =>
              /\ tid[q] \in TxnIds /\ op[q] \in Ops
              /\ tid[q] # t \/ op[q] # o
  BY <1>2 DEF NInv, OneTeller, Truthful, Claims, Notifying
<1>8. \A q \in Requests : Untold(q)'
  <2>1. Untold(r)'
    BY <1>3 DEF Untold, Notifying
  <2>2. ASSUME NEW q \in Requests \ {r} PROVE Untold(q)'
    BY <1>2, <1>3, <1>5, <1>7 DEF NInv, Alone, Unmoved, Untold, Notifying
  <2> QED
    BY <2>1, <2>2
<1>9. OneTeller'
  BY <1>2, <1>3, <1>7 DEF NInv, Alone, Unmoved, OneTeller, Notifying
<1>10. ASSUME NEW u \in TxnIds, NEW p \in Ops PROVE Told(u, p)'
  <2>1. CASE u = t /\ p = o
    BY <1>2, <1>4, <1>5, <2>1 DEF NInv, Told
  <2>2. CASE u # t \/ p # o
    BY <1>2, <1>5, <2>2 DEF NInv, Told
  <2> QED
    BY <2>1, <2>2
<1> QED
  BY <1>6, <1>8, <1>9, <1>10 DEF NInv, Onward

-----------------------------------------------------------------------------
LEMMA CrashNInv ==
    ASSUME IInv, NInv, Onward, Crash
    PROVE  NInv'
<1>1. /\ \A r \in Requests : pc'[r] = "idle" /\ result'[r] = "none"
      /\ audit' = audit /\ webhooks' = webhooks
  BY DEF Crash
<1>2. \A t \in TxnIds, o \in Ops : Told(t, o)'
  BY <1>1 DEF NInv, Told, Onward
<1> QED
  BY <1>1, <1>2 DEF NInv, Onward, Truthful, Claims, Notifying, Untold, OneTeller

\* A step that moves no request.
LEMMA IdleNInv ==
    ASSUME NInv, Onward, UNCHANGED <<pc, locals, result, audit, webhooks>>
    PROVE  NInv'
<1>1. \A q \in Requests : Unmoved(q)
  BY DEF locals, Unmoved
<1>2. \A q \in Requests : Truthful(q)'
  BY <1>1, ClaimFrame DEF NInv
<1>3. (\A q \in Requests : Untold(q)') /\ OneTeller'
  BY DEF NInv, locals, Untold, OneTeller
<1>4. \A t \in TxnIds, o \in Ops : Told(t, o)'
  BY DEF NInv, Told, Onward
<1> QED
  BY <1>2, <1>3, <1>4 DEF NInv, Onward

LEMMA NextNInv ==
    ASSUME IInv, NInv, [Next]_vars
    PROVE  NInv'
<1>1. Onward
  BY StepsOnward
<1>2. CASE NewAccount
  BY <1>1, <1>2, IdleNInv DEF NewAccount, CreateAccount
<1>3. CASE Crash
  BY <1>1, <1>3, CrashNInv
<1>4. CASE UNCHANGED vars
  BY <1>1, <1>4, IdleNInv DEF vars
<1>5. ASSUME NEW r \in Requests, Arrive(r) PROVE NInv'
  BY <1>1, <1>5, ArriveIsSilent, SilentStep
<1>6. ASSUME NEW r \in Requests, Proceed(r) PROVE NInv'
  <2>1. CASE Statement(r) \/ Reply(r)
    BY <1>1, <2>1, StatementIsSilent, ReplyIsSilent, SilentStep
  <2>2. CASE ~(Statement(r) \/ Reply(r))
    BY <1>1, <1>6, <2>2, InsertNInv, DuplicateNInv, CommitNInv, WriteAuditNInv,
       DispatchNInv
       DEF Proceed, Statement, Commits
  <2> QED
    BY <2>1, <2>2
<1>7. ASSUME NEW r \in Requests, Abort(r) \/ BreakDeadlock(r) PROVE NInv'
  BY <1>1, <1>7, RefuseIsSilent, SilentStep DEF Abort, BreakDeadlock, Fail, Results
<1> QED
  BY <1>2, <1>3, <1>4, <1>5, <1>6, <1>7 DEF Next

\* Claims are true and events are told once, in every reachable state.
THEOREM NotificationInvariance == Spec => []NInv
<1>1. IInv /\ NInv /\ [Next]_vars => NInv'
  BY NextNInv
<1> QED
  BY InitNInv, Invariance, <1>1, PTL DEF Spec

(***************************************************************************)
(* A client that is told of success (handler/payment.go:33-39, 58-68,      *)
(* 87-97) can rely on it: the transaction is committed with the status of  *)
(* the operation, and for an initiation it is the one of the client's key, *)
(* whatever else happens.                                                  *)
(***************************************************************************)
THEOREM Durable == Spec => []SuccessIsDurable
<1>1. NInv => SuccessIsDurable
  BY DEF NInv, Truthful, Claims, SuccessIsDurable
<1> QED
  BY NotificationInvariance, <1>1, PTL

(***************************************************************************)
(* Audit rows and webhooks (service/payment.go:88-92, 148, 259-263) tell   *)
(* of committed operations only, and of each at most once, although        *)
(* clients retry and several requests work on one payment.                 *)
(***************************************************************************)
THEOREM Notified == Spec => []NotifiedOnceAndTruly
<1>1. NInv => NotifiedOnceAndTruly
  BY DEF NInv, Told, NotifiedOnceAndTruly
<1> QED
  BY NotificationInvariance, <1>1, PTL

-----------------------------------------------------------------------------
(***************************************************************************)
(* Requests that lock rows explicitly never wait for each other in a       *)
(* circle, for any number of requests, accounts and payments.              *)
(***************************************************************************)

(***************************************************************************)
(* Which locks a request can hold at its stage: it holds one account when  *)
(* it waits for the second one, none when it waits for its first, and no   *)
(* transaction when it waits for one.                                      *)
(***************************************************************************)
HeldLocks(r) ==
    /\ sacct[r] # {} => Uncommitted(r)
    /\ xacct[r] # {} => pc[r] \in {"lock_second", "debit", "credit", "commit"}
    /\ pc[r] = "lock_second" => xacct[r] \subseteq {LockOrder(txn[r])[1]}
    /\ xtxn[r] # {} => pc[r] \in {"dup_rollback", "lock_sender", "lock_first",
                                  "lock_second", "debit", "credit", "commit"}

DInv == IInv /\ \A r \in Requests : HeldLocks(r)

LEMMA InitDInv == Init => DInv
<1>1. Init => \A r \in Requests : HeldLocks(r)
  BY DEF Init, RepoInit, NoLocks, NoRequests, HeldLocks
<1> QED
  BY <1>1, InitIInv DEF DInv

\* What HeldLocks reads of a request.
Unseen(q) == /\ pc'[q] = pc[q]
             /\ SameLocks(q)
             /\ op'[q] = op[q]
             /\ txn'[q] = txn[q]

LEMMA HeldFrame ==
    ASSUME NEW q \in Requests, HeldLocks(q), Unseen(q)
    PROVE  HeldLocks(q)'
BY DEF HeldLocks, Unseen, SameLocks, Uncommitted, LockOrder

\* A request that has given back every lock holds none.
LEMMA RefuseHeld ==
    ASSUME TypeOK, NEW r \in Requests, NEW res \in Results, Refuse(r, res)
    PROVE  HeldLocks(r)' /\ \A q \in Requests \ {r} : Unseen(q)
<1>1. /\ Others(r)
      /\ pc'[r] = "reply"
      /\ xacct'[r] = {} /\ sacct'[r] = {} /\ xtxn'[r] = {}
  BY RefuseEffect
<1> QED
  BY <1>1 DEF HeldLocks, Others, Same, SameLocals, Unseen

\* A step that changes no lock.
LEMMA IdleHeld ==
    ASSUME TypeOK, NEW r \in Requests, HeldLocks(r), UNCHANGED locks,
           PcType', \A q \in Requests \ {r} : pc'[q] = pc[q] /\ op'[q] = op[q] /\ txn'[q] = txn[q],
           \/ pc[r] \in Stages \ InTx
           \/ pc[r] = "insert"
           \/ pc[r] \in {"debit", "credit"} /\ pc'[r] \in {"credit", "commit"}
    PROVE  HeldLocks(r)' /\ \A q \in Requests \ {r} : Unseen(q)
<1>1. SameLocks(r) /\ \A q \in Requests \ {r} : SameLocks(q)
  BY DEF locks, SameLocks
<1>2. sacct[r] = {}
  BY DEF HeldLocks, Uncommitted, InTx, Stages
<1>3. pc[r] \notin {"debit", "credit"} => xacct[r] = {} /\ xtxn[r] = {}
  BY DEF HeldLocks, InTx, Stages
<1>4. ASSUME pc[r] \notin {"debit", "credit"} PROVE HeldLocks(r)'
  <2>1. xacct'[r] = {} /\ sacct'[r] = {} /\ xtxn'[r] = {}
    BY <1>1, <1>2, <1>3, <1>4 DEF SameLocks
  <2> QED
    BY <2>1 DEF HeldLocks
<1>5. ASSUME pc[r] \in {"debit", "credit"} PROVE HeldLocks(r)'
  <2>1. sacct'[r] = {} /\ pc'[r] \in {"credit", "commit"}
    BY <1>1, <1>2, <1>5 DEF SameLocks, Stages, InTx
  <2> QED
    BY <2>1 DEF HeldLocks
<1>6. HeldLocks(r)'
  BY <1>4, <1>5
<1> QED
  BY <1>1, <1>6 DEF Unseen

\* A commit gives back every lock.
LEMMA CommitHeld ==
    ASSUME TypeOK, NEW r \in Requests, EndTx(r), AfterCommit(r), UNCHANGED locals
    PROVE  HeldLocks(r)' /\ \A q \in Requests \ {r} : Unseen(q)
<1>1. LocksType /\ PcType /\ LocalsType
  BY TypeParts
<1>2. /\ xacct'[r] = {} /\ sacct'[r] = {} /\ xtxn'[r] = {}
      /\ \A q \in Requests \ {r} : SameLocks(q)
  BY <1>1, EndTxEffect
<1>3. /\ pc'[r] \in {"audit", "dispatch", "reply"}
      /\ \A q \in Requests \ {r} : pc'[q] = pc[q]
  BY <1>1, AfterCommitEffect
<1> QED
  BY <1>2, <1>3 DEF HeldLocks, Unseen, locals

LEMMA ArriveHeld ==
    ASSUME TypeOK, NEW r \in Requests, HeldLocks(r), Arrive(r)
    PROVE  HeldLocks(r)' /\ \A q \in Requests \ {r} : Unseen(q)
<1>1. PcType /\ LocalsType /\ pc[r] = "idle" /\ UNCHANGED locks
  BY TypeParts DEF Arrive, BindInitiate, BindTransition, RejectRequest
<1>2. PcType' /\ \A q \in Requests \ {r} : pc'[q] = pc[q]
  BY <1>1, GotoEffect, AnswerEffect
     DEF Arrive, BindInitiate, BindTransition, RejectRequest, Stages, Results
<1>3. \A q \in Requests \ {r} : op'[q] = op[q] /\ txn'[q] = txn[q]
  BY <1>1 DEF Arrive, BindInitiate, BindTransition, RejectRequest, LocalsType, locals
<1> QED
  BY <1>1, <1>2, <1>3, IdleHeld DEF Stages, InTx

LEMMA ProceedHeld ==
    ASSUME IInv, NEW r \in Requests, HeldLocks(r), Proceed(r)
    PROVE  HeldLocks(r)' /\ \A q \in Requests \ {r} : Unseen(q)
<1> DEFINE Goal == HeldLocks(r)' /\ \A q \in Requests \ {r} : Unseen(q)
<1>1. TypeOK /\ LocksType /\ PcType /\ LocalsType /\ Exclusion /\ Local(r)
  BY TypeParts DEF IInv
<1>2. UNCHANGED locals => \A q \in Requests : op'[q] = op[q] /\ txn'[q] = txn[q]
  BY DEF locals
<1>3. CASE BeginTx(r) \/ VerifyAccounts(r)
  <2>1. /\ pc[r] \in {"begin", "accounts"}
        /\ UNCHANGED <<locks, locals>>
    BY <1>3 DEF BeginTx, VerifyAccounts
  <2>2. PcType' /\ \A q \in Requests \ {r} : pc'[q] = pc[q]
    BY <1>1, <1>3, GotoEffect, AnswerEffect
       DEF BeginTx, VerifyAccounts, Stages, InTx, Results
  <2> QED
    BY <1>1, <1>2, <2>1, <2>2, IdleHeld DEF Stages, InTx
<1>4. CASE InsertTransaction(r)
  <2>1. PcType' /\ \A q \in Requests \ {r} : pc'[q] = pc[q]
    BY <1>1, <1>4, GotoEffect DEF InsertTransaction, Stages, InTx
  <2> QED
    BY <1>1, <1>4, <2>1, IdleHeld DEF InsertTransaction
<1>5. CASE CheckSender(r) \/ CheckReceiver(r)
  <2>1. PICK a \in Accounts : CheckReference(r, a)
    <3>1. op[r] = "initiate" /\ txn[r] \in Payment
      BY <1>1, <1>5 DEF CheckSender, CheckReceiver, Local, StageOfOp, Initiating
    <3> QED
      BY <1>5, <3>1, Constants DEF CheckSender, CheckReceiver
  <2>2. /\ op[r] = "initiate"
        /\ pc[r] \in {"fk_sender", "fk_receiver"}
        /\ UNCHANGED locals
    BY <1>1, <1>5 DEF CheckSender, CheckReceiver, Local, StageOfOp
  <2>3. /\ pc'[r] \in {"fk_receiver", "commit"}
        /\ \A q \in Requests \ {r} : pc'[q] = pc[q]
    BY <1>1, <1>5, GotoEffect DEF CheckSender, CheckReceiver, Stages, InTx
  <2>4. /\ xacct'[r] = xacct[r] /\ xtxn'[r] = xtxn[r]
        /\ \A q \in Requests \ {r} : SameLocks(q)
    BY <1>1, <2>1, ReferenceChecked
  <2>5. xacct[r] = {} /\ xtxn[r] = {}
    BY <2>2 DEF HeldLocks
  <2>6. HeldLocks(r)'
    BY <1>2, <2>2, <2>3, <2>4, <2>5 DEF HeldLocks, Uncommitted
  <2> QED
    BY <1>2, <2>2, <2>3, <2>4, <2>6 DEF Unseen
<1>6. CASE CommitInitiate(r) \/ CommitAuthorize(r) \/ CommitSettle(r)
  BY <1>1, <1>6, CommitHeld DEF CommitInitiate, CommitAuthorize, CommitSettle
<1>7. CASE LockDuplicate(r)
  <2>1. tid[r] \in TxnIds
    BY <1>1, <1>7 DEF LockDuplicate, Local, StageOfOp
  <2>2. /\ xacct'[r] = xacct[r] /\ sacct'[r] = sacct[r]
        /\ \A q \in Requests \ {r} : SameLocks(q)
    BY <1>1, <1>7, <2>1, TransactionLocked DEF LockDuplicate
  <2>3. pc'[r] = "dup_rollback" /\ \A q \in Requests \ {r} : pc'[q] = pc[q]
    BY <1>1, <1>7, GotoEffect DEF LockDuplicate, Stages, InTx
  <2>4. HeldLocks(r)'
    BY <1>7, <2>2, <2>3 DEF HeldLocks, LockDuplicate, Uncommitted
  <2> QED
    BY <1>2, <1>7, <2>2, <2>3, <2>4 DEF Unseen, LockDuplicate
<1>8. CASE ReturnDuplicate(r)
  BY <1>1, <1>8, RefuseHeld DEF ReturnDuplicate, Results
<1>9. CASE LockTransaction(r)
  <2>1. CASE Refuse(r, "unprocessable") \/ Refuse(r, "forbidden")
    BY <1>1, <2>1, RefuseHeld DEF Results
  <2>2. CASE /\ GetTransactionForUpdate(r, tid[r])
             /\ txn' = [txn EXCEPT ![r] = payment[tid[r]]]
             /\ Goto(r, IF op[r] = "authorize" THEN "lock_sender" ELSE "lock_first")
             /\ UNCHANGED op
    <3>1. tid[r] \in TxnIds /\ pc[r] = "lock_txn"
      BY <1>1, <1>9 DEF LockTransaction, Local, StageOfOp
    <3>2. /\ xacct'[r] = xacct[r] /\ sacct'[r] = sacct[r]
          /\ \A q \in Requests \ {r} : SameLocks(q)
      BY <1>1, <2>2, <3>1, TransactionLocked
    <3>3. /\ pc'[r] \in {"lock_sender", "lock_first"}
          /\ \A q \in Requests \ {r} : pc'[q] = pc[q]
      BY <1>1, <2>2, GotoEffect DEF Stages, InTx
    <3>4. HeldLocks(r)'
      BY <3>1, <3>2, <3>3 DEF HeldLocks, Uncommitted
    <3>5. \A q \in Requests \ {r} : txn'[q] = txn[q]
      BY <1>1, <2>2 DEF LocalsType
    <3> QED
      BY <2>2, <3>2, <3>3, <3>4, <3>5 DEF Unseen
  <2> QED
    BY <1>9, <2>1, <2>2 DEF LockTransaction
<1>10. CASE LockSender(r)
  <2>1. CASE Refuse(r, "unprocessable")
    BY <1>1, <2>1, RefuseHeld DEF Results
  <2>2. CASE /\ GetAccountForUpdate(r, txn[r].sender)
             /\ Goto(r, "commit")
             /\ UNCHANGED locals
    <3>1. pc[r] = "lock_sender" /\ txn[r].sender \in Accounts
      <4>1. Moving(r) /\ Holding(r) /\ op[r] = "authorize" /\ tid[r] \in TxnIds
        BY <1>1, <1>10 DEF LockSender, Local, StageOfOp, Holding
      <4>2. txn[r] \in Payment
        BY <4>1 DEF IInv, RowsArePayments, Moving, Expected
      <4> QED
        BY <1>10, <4>2, Constants DEF LockSender
    <3>2. /\ sacct'[r] = sacct[r] /\ xtxn'[r] = xtxn[r]
          /\ \A q \in Requests \ {r} : SameLocks(q)
      BY <1>1, <2>2, <3>1, AccountLocked
    <3>3. pc'[r] = "commit" /\ \A q \in Requests \ {r} : pc'[q] = pc[q]
      BY <1>1, <2>2, GotoEffect DEF Stages, InTx
    <3>4. HeldLocks(r)'
      BY <3>1, <3>2, <3>3 DEF HeldLocks, Uncommitted
    <3> QED
      BY <1>2, <2>2, <3>2, <3>3, <3>4 DEF Unseen
  <2> QED
    BY <1>10, <2>1, <2>2 DEF LockSender
<1>11. CASE LockFirst(r) \/ LockSecond(r)
  <2> DEFINE a == IF pc[r] = "lock_first" THEN LockOrder(txn[r])[1]
                                          ELSE LockOrder(txn[r])[2]
  <2>1. /\ pc[r] \in {"lock_first", "lock_second"}
        /\ GetAccountForUpdate(r, a)
        /\ Goto(r, IF pc[r] = "lock_first" THEN "lock_second" ELSE "debit")
        /\ UNCHANGED locals
    BY <1>11 DEF LockFirst, LockSecond
  <2>2. a \in Accounts
    <3>1. Moving(r) /\ Holding(r) /\ op[r] = "settle" /\ tid[r] \in TxnIds
      BY <1>1, <2>1 DEF Local, StageOfOp, Holding
    <3>2. txn[r] \in Payment
      BY <3>1 DEF IInv, RowsArePayments, Moving, Expected
    <3> QED
      BY <3>2, Constants DEF LockOrder
  <2>3. /\ xacct'[r] = xacct[r] \cup {a} /\ sacct'[r] = sacct[r] /\ xtxn'[r] = xtxn[r]
        /\ \A q \in Requests \ {r} : SameLocks(q)
    BY <1>1, <2>1, <2>2, AccountLocked
  <2>4. /\ pc'[r] = IF pc[r] = "lock_first" THEN "lock_second" ELSE "debit"
        /\ \A q \in Requests \ {r} : pc'[q] = pc[q]
    BY <1>1, <2>1, GotoEffect DEF Stages, InTx
  <2>5. txn'[r] = txn[r] /\ LockOrder(txn[r])' = LockOrder(txn[r])
    BY <2>1 DEF locals, LockOrder
  <2>6. HeldLocks(r)'
    BY <2>1, <2>3, <2>4, <2>5 DEF HeldLocks, Uncommitted
  <2> QED
    BY <1>2, <2>1, <2>3, <2>4, <2>6 DEF Unseen
<1>12. CASE DebitSender(r) \/ CreditReceiver(r)
  <2>1. CASE Refuse(r, "unprocessable")
    BY <1>1, <2>1, RefuseHeld DEF Results
  <2>2. CASE /\ pc[r] \in {"debit", "credit"}
             /\ Goto(r, "credit") \/ Goto(r, "commit")
             /\ UNCHANGED <<locks, op, txn>>
    <3>1. /\ PcType' /\ pc'[r] \in {"credit", "commit"}
          /\ \A q \in Requests \ {r} : pc'[q] = pc[q]
      BY <1>1, <2>2, GotoEffect DEF Stages, InTx
    <3> QED
      BY <1>1, <2>2, <3>1, IdleHeld
  <2> QED
    BY <1>12, <2>1, <2>2 DEF DebitSender, CreditReceiver
<1>13. CASE WriteAudit(r) \/ Dispatch(r) \/ Reply(r)
  <2>1. pc[r] \in {"audit", "dispatch", "reply"} /\ UNCHANGED locks
    BY <1>13 DEF WriteAudit, Dispatch, Reply
  <2>2. PcType' /\ \A q \in Requests \ {r} : pc'[q] = pc[q]
    BY <1>1, <1>13, GotoEffect, AnswerEffect
       DEF WriteAudit, Dispatch, Reply, PcType, Stages, Results
  <2>3. \A q \in Requests \ {r} : op'[q] = op[q] /\ txn'[q] = txn[q]
    BY <1>1, <1>2, <1>13 DEF WriteAudit, Dispatch, Reply, Forget, LocalsType, locals
  <2> QED
    BY <1>1, <2>1, <2>2, <2>3, IdleHeld DEF Stages, InTx
<1> QED
  BY <1>3, <1>4, <1>5, <1>6, <1>7, <1>8, <1>9, <1>10, <1>11, <1>12, <1>13 DEF Proceed

LEMMA NextDInv ==
    ASSUME DInv, [Next]_vars
    PROVE  DInv'
<1>1. IInv /\ IInv' /\ TypeOK
  BY NextIInv DEF DInv, IInv
<1>2. CASE NewAccount \/ UNCHANGED vars
  <2>1. UNCHANGED <<locks, pc, op, txn>>
    BY <1>2 DEF NewAccount, CreateAccount, vars, locals
  <2>2. \A q \in Requests : Unseen(q)
    BY <2>1 DEF Unseen, locks, SameLocks
  <2> QED
    BY <1>1, <2>2, HeldFrame DEF DInv
<1>3. CASE Crash
  BY <1>1, <1>3 DEF DInv, Crash, HeldLocks
<1>4. ASSUME NEW r \in Requests, Arrive(r) \/ Proceed(r) \/ Abort(r) \/ BreakDeadlock(r)
      PROVE  DInv'
  <2>1. HeldLocks(r)
    BY DEF DInv
  <2>2. HeldLocks(r)' /\ \A q \in Requests \ {r} : Unseen(q)
    BY <1>1, <1>4, <2>1, ArriveHeld, ProceedHeld, RefuseHeld
       DEF Abort, BreakDeadlock, Fail, Results
  <2> QED
    BY <1>1, <2>2, HeldFrame DEF DInv
<1> QED
  BY <1>2, <1>3, <1>4 DEF Next

-----------------------------------------------------------------------------
LEMMA BoundedHasMax ==
    ASSUME NEW M \in SUBSET Nat, M # {}, NEW n \in Nat, \A m \in M : m <= n
    PROVE  \E m \in M : \A k \in M : k <= m
<1> DEFINE T == {n - m : m \in M}
<1>1. T \in SUBSET Nat /\ T # {}
  <2>1. \A m \in M : n - m \in Nat
    OBVIOUS
  <2> QED
    BY <2>1
<1>2. PICK x \in T : \A y \in T : ~(<<y, x>> \in OpToRel(<, Nat))
  BY <1>1, WFMin, NatLessThanWellFounded
<1>3. PICK m \in M : x = n - m
  BY <1>2
<1>4. ASSUME NEW k \in M PROVE k <= m
  <2>1. n - k \in T /\ x \in Nat /\ n - k \in Nat
    BY <1>1, <1>3
  <2>2. ~(n - k < x)
    BY <1>2, <2>1 DEF OpToRel
  <2> QED
    BY <1>3, <2>2
<1> QED
  BY <1>4

LEMMA LockOrderAscends ==
    ASSUME NEW p \in Payment
    PROVE  /\ LockOrder(p)[1] \in Accounts
           /\ LockOrder(p)[2] \in Accounts
           /\ LockOrder(p)[1] <= LockOrder(p)[2]
<1> DEFINE s == p.sender
           v == p.receiver
<1>1. s \in Accounts /\ v \in Accounts /\ s \in Nat /\ v \in Nat
  BY Constants, AccountsAssumption
<1>2. \/ LockOrder(p) = <<s, v>> /\ s < v
      \/ LockOrder(p) = <<v, s>> /\ ~(s < v)
  BY DEF LockOrder
<1> HIDE DEF s, v
<1> QED
  BY <1>1, <1>2

\* The stages where a request waits for a row that another one locked.
WaitsForAccount == {"lock_sender", "lock_first", "lock_second"}
WaitsForTxn == {"dup_lock", "lock_txn"}

\* The account that a request waits for.
Wanted(r) == CASE pc[r] = "lock_sender" -> txn[r].sender
               [] pc[r] = "lock_first" -> LockOrder(txn[r])[1]
               [] pc[r] = "lock_second" -> LockOrder(txn[r])[2]

(***************************************************************************)
(* The accounts are ordered, so a circle of requests that each hold their  *)
(* first account and wait for their second one would climb forever.        *)
(***************************************************************************)
LEMMA NoCircle == DInv => ExplicitLocksDeadlockFree
<1> SUFFICES ASSUME DInv,
                    NEW S \in SUBSET {r \in Requests : ~Uncommitted(r)},
                    Deadlocked(S)
             PROVE  FALSE
  BY DEF ExplicitLocksDeadlockFree
<1>1. ASSUME NEW r \in S
      PROVE  /\ r \in Requests /\ ~Uncommitted(r) /\ HeldLocks(r) /\ Local(r)
             /\ WaitsFor(r) \cap S # {}
  BY DEF DInv, IInv, Deadlocked
<1>2. ASSUME NEW r \in S PROVE pc[r] \in WaitsForAccount \cup WaitsForTxn
  <2>1. pc[r] \notin {"fk_sender", "fk_receiver"}
    BY <1>1 DEF Local, StageOfOp, Uncommitted
  <2>2. pc[r] # "insert"
    BY <1>1 DEF WaitsFor, Inserting
  <2> QED
    BY <1>1, <2>1, <2>2 DEF WaitsFor, WaitsForAccount, WaitsForTxn
<1>3. ASSUME NEW r \in S, pc[r] \in WaitsForAccount
      PROVE  \E q \in S \ {r} : Wanted(r) \in xacct[q] /\ pc[q] = "lock_second"
  <2>1. WaitsFor(r) = AccountHolders(r, Wanted(r))
    BY <1>3 DEF WaitsForAccount, WaitsFor, Wanted
  <2>2. PICK q \in S \ {r} : Wanted(r) \in xacct[q] \cup sacct[q]
    BY <1>1, <2>1 DEF AccountHolders
  <2>3. sacct[q] = {}
    BY <1>1, <2>2 DEF HeldLocks
  <2>4. pc[q] = "lock_second"
    BY <1>1, <1>2, <2>2, <2>3 DEF HeldLocks, WaitsForAccount, WaitsForTxn
  <2> QED
    BY <2>2, <2>3, <2>4
<1>4. ASSUME NEW r \in S, pc[r] \in WaitsForTxn
      PROVE  \E q \in S : pc[q] \in WaitsForAccount
  <2>1. WaitsFor(r) = TxnHolders(r, tid[r])
    BY <1>4 DEF WaitsForTxn, WaitsFor
  <2>2. PICK q \in S : xtxn[q] # {}
    BY <1>1, <2>1 DEF TxnHolders
  <2>3. pc[q] \in WaitsForAccount
    BY <1>1, <1>2, <2>2 DEF HeldLocks, WaitsForAccount, WaitsForTxn
  <2> QED
    BY <2>3
<1> DEFINE Climbers == {r \in S : pc[r] = "lock_second"}
           Seconds == {LockOrder(txn[r])[2] : r \in Climbers}
<1>5. Climbers # {}
  BY <1>2, <1>3, <1>4 DEF Deadlocked
<1>6. ASSUME NEW r \in Climbers
      PROVE  /\ LockOrder(txn[r])[1] \in Accounts /\ LockOrder(txn[r])[2] \in Accounts
             /\ LockOrder(txn[r])[1] <= LockOrder(txn[r])[2]
             /\ xacct[r] \subseteq {LockOrder(txn[r])[1]}
             /\ LockOrder(txn[r])[1] \in xacct[r]
             /\ Wanted(r) = LockOrder(txn[r])[2]
  <2>1. /\ Local(r) /\ HeldLocks(r) /\ pc[r] = "lock_second"
        /\ op[r] = "settle" /\ tid[r] \in TxnIds
    BY <1>1 DEF Local, StageOfOp
  <2>2. txn[r] \in Payment
    BY <2>1 DEF DInv, IInv, RowsArePayments, Local, Moving, Holding, Expected
  <2>3. /\ LockOrder(txn[r])[1] \in Accounts /\ LockOrder(txn[r])[2] \in Accounts
        /\ LockOrder(txn[r])[1] <= LockOrder(txn[r])[2]
    BY <2>2, LockOrderAscends
  <2> QED
    BY <2>1, <2>3 DEF HeldLocks, Local, Paying, Wanted
<1>7. ASSUME NEW r \in Climbers
      PROVE  \E q \in Climbers \ {r} : LockOrder(txn[q])[1] = LockOrder(txn[r])[2]
  <2>1. PICK q \in S \ {r} : Wanted(r) \in xacct[q] /\ pc[q] = "lock_second"
    BY <1>3 DEF WaitsForAccount
  <2> QED
    BY <1>6, <2>1
<1>8. ASSUME NEW r \in Climbers
      PROVE  LockOrder(txn[r])[1] # LockOrder(txn[r])[2]
  <2>1. PICK q \in Climbers \ {r} : LockOrder(txn[q])[1] = LockOrder(txn[r])[2]
    BY <1>7
  <2>2. LockOrder(txn[q])[1] \in xacct[q] /\ LockOrder(txn[r])[1] \in xacct[r]
    BY <1>6, <2>1
  <2>3. xacct[q] \cap xacct[r] = {}
    BY <1>1, <2>1 DEF DInv, IInv, Exclusion
  <2> QED
    BY <2>1, <2>2, <2>3
<1>9. PICK n \in Nat : \A a \in Accounts : a <= n
  BY AccountsAssumption, AccountsBounded
<1>10. Seconds \in SUBSET Nat /\ Seconds # {} /\ \A m \in Seconds : m <= n
  BY <1>5, <1>6, <1>9, AccountsAssumption
<1>11. PICK top \in Climbers :
           \A k \in Seconds : k <= LockOrder(txn[top])[2]
  <2>1. PICK m \in Seconds : \A k \in Seconds : k <= m
    <3> HIDE DEF Seconds
    <3> QED
      BY <1>10, BoundedHasMax
  <2> QED
    BY <2>1
<1>12. PICK q \in Climbers \ {top} : LockOrder(txn[q])[1] = LockOrder(txn[top])[2]
  BY <1>7
<1> DEFINE first == LockOrder(txn[q])[1]
           second == LockOrder(txn[q])[2]
<1>13. second <= first
  BY <1>11, <1>12
<1>14. first \in Nat /\ second \in Nat /\ first <= second /\ first # second
  BY <1>6, <1>8, <1>12, AccountsAssumption
<1> HIDE DEF first, second
<1> QED
  BY <1>13, <1>14

(***************************************************************************)
(* "Order by ID to prevent deadlocks" (SettlePayment), for requests that   *)
(* lock rows explicitly and any number of them.                            *)
(***************************************************************************)
THEOREM DeadlockFree == Spec => []ExplicitLocksDeadlockFree
<1>1. DInv /\ [Next]_vars => DInv'
  BY NextDInv
<1>2. Spec => []DInv
  BY InitDInv, <1>1, PTL DEF Spec
<1> QED
  BY <1>2, NoCircle, PTL

-----------------------------------------------------------------------------
(***************************************************************************)
(* Money is conserved.  Total adds up the balances of a set of accounts,   *)
(* one account after another, each time the one that CHOOSE names: so two  *)
(* sums over the same accounts take them in the same order.                *)
(***************************************************************************)
Some(s) == CHOOSE x \in s : TRUE

\* g is the sum of f over each of the sets in D.
Sums(f, g, D) ==
    g = [s \in D |-> IF s = {} THEN 0
                     ELSE f[Some(s)] + g[s \ {Some(s)}]]

SumOver(f, S) == (CHOOSE g : Sums(f, g, SUBSET S))[S]

LEMMA TotalIsSum ==
    ASSUME NEW c, UNCHANGED currency
    PROVE  LET S == {a \in Accounts : currency[a] = c}
           IN  /\ Total(c) = SumOver(balance, S)
               /\ Total(c)' = SumOver(balance', S)
<1>. DEFINE S == {a \in Accounts : currency[a] = c}
<1>1. Total(c) = SumOver(balance, S)
  BY DEF Total, MapThenSumSet, MapThenFoldSet, SumOver, Sums, Some
<1>2. Total(c)' = SumOver(balance', S)
  BY DEF Total, MapThenSumSet, MapThenFoldSet, SumOver, Sums, Some
<1>. QED
  BY <1>1, <1>2

LEMMA AccountsFinite == IsFiniteSet(Accounts)
<1>1. PICK n \in Accounts \cup {0} : \A a \in Accounts : a <= n
  BY AccountsBounded
<1>2. n \in Int /\ Accounts \subseteq 0..n
  BY <1>1, AccountsAssumption
<1>3. IsFiniteSet(0..n)
  BY <1>2, FS_Interval
<1>. QED
  BY <1>2, <1>3, FS_Subset

\* A set of naturals that is not empty has a least element.
LEMMA Least ==
    ASSUME NEW B \in SUBSET Nat, B # {}
    PROVE  \E n \in B : \A m \in B : n <= m
<1>1. PICK n \in B : \A m \in B : ~(<<m, n>> \in OpToRel(<, Nat))
  BY WFMin, NatLessThanWellFounded
<1>2. ASSUME NEW m \in B PROVE n <= m
  <2>1. m \in Nat /\ n \in Nat
    OBVIOUS
  <2>2. ~(m < n)
    BY <1>1, <2>1 DEF OpToRel
  <2>. QED
    BY <2>1, <2>2
<1>. QED
  BY <1>2

\* What is left when Some(s) has been added.
LEMMA OneLess ==
    ASSUME NEW S, IsFiniteSet(S), NEW s \in SUBSET S, s # {}
    PROVE  /\ Some(s) \in s
           /\ s \ {Some(s)} \in SUBSET S
           /\ Cardinality(s) \in Nat
           /\ Cardinality(s \ {Some(s)}) = Cardinality(s) - 1
<1>1. Some(s) \in s
  BY DEF Some
<1>2. IsFiniteSet(s)
  BY FS_Subset
<1>. QED
  BY <1>1, <1>2, FS_RemoveElement, FS_CardinalityType

\* There is a sum over every finite set.
LEMMA SumsExist ==
    ASSUME NEW f, NEW S, IsFiniteSet(S)
    PROVE  \E g : Sums(f, g, SUBSET S)
<1>. DEFINE D(n) == {s \in SUBSET S : Cardinality(s) <= n}
            B == {n \in Nat : ~\E g : Sums(f, g, D(n))}
<1>1. \A s \in SUBSET S : IsFiniteSet(s) /\ Cardinality(s) \in Nat
                          /\ Cardinality(s) <= Cardinality(S)
  BY FS_Subset, FS_CardinalityType
<1>2. Cardinality(S) \in Nat /\ D(Cardinality(S)) = SUBSET S
  BY <1>1
<1>3. B = {}
  <2>. SUFFICES ASSUME B # {} PROVE FALSE
    OBVIOUS
  <2>1. PICK n \in B : \A m \in B : n <= m
    BY Least
  <2>2. CASE n = 0
    <3>1. \A s \in D(n) : s = {}
      BY <1>1, <2>2, FS_EmptySet
    <3>. DEFINE g == [s \in D(n) |-> 0]
    <3>2. Sums(f, g, D(n))
      BY <3>1 DEF Sums
    <3>. QED
      BY <2>1, <3>2
  <2>3. CASE n # 0
    <3>1. n \in Nat /\ n - 1 \in Nat
      BY <2>3
    <3>2. n - 1 \notin B
      <4>. HIDE DEF B
      <4>. QED
        BY <2>1, <3>1
    <3>3. PICK h : Sums(f, h, D(n - 1))
      BY <3>1, <3>2
    <3>. DEFINE g == [s \in D(n) |-> IF s = {} THEN 0
                                     ELSE f[Some(s)] + h[s \ {Some(s)}]]
    <3>4. ASSUME NEW s \in D(n - 1) PROVE s \in D(n) /\ g[s] = h[s]
      <4>1. s \in D(n)
        BY <1>1, <3>1
      <4>2. h[s] = IF s = {} THEN 0 ELSE f[Some(s)] + h[s \ {Some(s)}]
        BY <3>3 DEF Sums
      <4>. QED
        BY <4>1, <4>2
    <3>5. ASSUME NEW s \in D(n), s # {} PROVE s \ {Some(s)} \in D(n - 1)
      BY <3>1, <3>5, OneLess
    <3>6. \A s \in D(n) : s # {} => g[s \ {Some(s)}] = h[s \ {Some(s)}]
      BY <3>4, <3>5
    <3>7. Sums(f, g, D(n))
      BY <3>6 DEF Sums
    <3>. QED
      BY <2>1, <3>7
  <2>. QED
    BY <2>2, <2>3
<1>. QED
  BY <1>2, <1>3

\* An amount that moves from p to q, both of them in a set or neither, does not
\* change the sum over the set.
LEMMA SumMoves ==
    ASSUME NEW S \in SUBSET Accounts,
           NEW b \in [Accounts -> Int], NEW b2 \in [Accounts -> Int],
           NEW p \in Accounts, NEW q \in Accounts, NEW m \in Int,
           \A x \in Accounts :
               b2[x] = b[x] - (IF x = p THEN m ELSE 0)
                            + (IF x = q THEN m ELSE 0),
           p \in S <=> q \in S
    PROVE  SumOver(b2, S) = SumOver(b, S)
<1>. DEFINE g == CHOOSE g : Sums(b, g, SUBSET S)
            g2 == CHOOSE g2 : Sums(b2, g2, SUBSET S)
<1>1. IsFiniteSet(S)
  BY AccountsFinite, FS_Subset
<1>2. Sums(b, g, SUBSET S) /\ Sums(b2, g2, SUBSET S)
  BY <1>1, SumsExist
<1>3. SumOver(b, S) = g[S] /\ SumOver(b2, S) = g2[S]
  BY DEF SumOver
<1>. HIDE DEF g, g2
<1>. DEFINE Moved(T) ==
                /\ g[T] \in Int
                /\ g2[T] = g[T] - (IF p \in T THEN m ELSE 0)
                                + (IF q \in T THEN m ELSE 0)
            B == {n \in Nat : \E T \in SUBSET S :
                                  Cardinality(T) = n /\ ~Moved(T)}
<1>4. ASSUME B # {} PROVE FALSE
  <2>1. PICK n \in B : \A k \in B : n <= k
    BY <1>4, Least
  <2>2. PICK T \in SUBSET S : Cardinality(T) = n /\ ~Moved(T)
    BY <2>1
  <2>3. T # {}
    <3>1. ASSUME T = {} PROVE Moved(T)
      <4>1. g[T] = 0 /\ g2[T] = 0
        BY <1>2, <3>1 DEF Sums
      <4>. QED
        BY <4>1, <3>1
    <3>. QED
      BY <2>2, <3>1
  <2>. DEFINE x == Some(T)
              U == T \ {x}
  <2>4. /\ x \in T /\ U \in SUBSET S
        /\ Cardinality(U) = n - 1 /\ n - 1 \in Nat
    <3>1. x \in T /\ U \in SUBSET S /\ Cardinality(U) = n - 1
      BY <1>1, <2>2, <2>3, OneLess
    <3>2. Cardinality(U) \in Nat
      BY <1>1, <3>1, FS_Subset, FS_CardinalityType
    <3>. QED
      BY <3>1, <3>2
  <2>5. Moved(U)
    <3>1. n - 1 \notin B
      BY <2>1, <2>4
    <3>. QED
      BY <2>4, <3>1
  <2>6. g[T] = b[x] + g[U] /\ g2[T] = b2[x] + g2[U]
    BY <1>2, <2>2, <2>3 DEF Sums
  <2>7. x \in Accounts /\ x \notin U /\ T = U \cup {x}
    BY <2>4
  <2>. HIDE DEF x, U
  <2>8. b[x] \in Int /\ b2[x] = b[x] - (IF x = p THEN m ELSE 0)
                                     + (IF x = q THEN m ELSE 0)
    BY <2>7
  <2>9. /\ p \in T <=> p \in U \/ x = p
        /\ q \in T <=> q \in U \/ x = q
        /\ ~(p \in U /\ x = p) /\ ~(q \in U /\ x = q)
    BY <2>7
  <2>10. Moved(T)
    BY <2>5, <2>6, <2>8, <2>9
  <2>. QED
    BY <2>2, <2>10
<1>5. Moved(S)
  <2>1. Cardinality(S) \in Nat
    BY <1>1, FS_CardinalityType
  <2>. QED
    BY <1>4, <2>1
<1>. QED
  BY <1>3, <1>5

\* What a settlement does to the balances.
LEMMA SettleMoves ==
    ASSUME IInv, NEW t \in TxnIds, Abs!Settle(t)
    PROVE  \E p, q \in Accounts, m \in Int :
               /\ currency[p] = currency[q]
               /\ balance' \in [Accounts -> Int]
               /\ \A x \in Accounts :
                      balance'[x] = balance[x] - (IF x = p THEN m ELSE 0)
                                               + (IF x = q THEN m ELSE 0)
<1>. DEFINE p == payment[t].sender
            q == payment[t].receiver
            m == payment[t].amount
<1>1. /\ balance \in [Accounts -> 0..MaxBigint]
      /\ payment[t] \in Payment
      /\ status[t] = "authorized"
  BY DEF IInv, RowsArePayments, TypeOK, RepoTypeOK, Abs!Settle
<1>2. currency[p] = payment[t].currency /\ currency[q] = payment[t].currency
  BY <1>1 DEF IInv, SameCurrency, Abs!SameCurrency
<1>3. p \in Accounts /\ q \in Accounts /\ m \in Int
  BY <1>1, Constants
<1>4. balance' =
          [[balance EXCEPT ![p] = balance[p] - m]
               EXCEPT ![q] = [balance EXCEPT ![p] = balance[p] - m][q] + m]
  BY DEF Abs!Settle
<1>. HIDE DEF p, q, m
<1>5. \A x \in Accounts : balance[x] \in Int
  BY <1>1, MaxBigintAssumption
<1>6. /\ balance' \in [Accounts -> Int]
      /\ \A x \in Accounts :
             balance'[x] = balance[x] - (IF x = p THEN m ELSE 0)
                                      + (IF x = q THEN m ELSE 0)
  BY <1>1, <1>3, <1>4, <1>5
<1>. QED
  BY <1>2, <1>3, <1>6

(***************************************************************************)
(* Settlements neither create nor destroy money, in any currency, however  *)
(* many of them run at once and whichever of them fail                     *)
(* (payment.go:162-277).                                                   *)
(***************************************************************************)
THEOREM Conserved == Spec => MoneyConserved
<1>. DEFINE Step == UNCHANGED currency =>
                        \A c \in Currencies : Total(c)' = Total(c)
<1>1. ASSUME IInv, [Abs!Next]_(Abs!vars) PROVE Step
  <2>. SUFFICES ASSUME UNCHANGED currency, NEW c \in Currencies
                PROVE  Total(c)' = Total(c)
    OBVIOUS
  <2>. DEFINE S == {a \in Accounts : currency[a] = c}
  <2>1. Total(c) = SumOver(balance, S) /\ Total(c)' = SumOver(balance', S)
    BY TotalIsSum
  <2>. HIDE DEF S
  <2>2. CASE UNCHANGED balance
    BY <2>1, <2>2
  <2>3. ASSUME NEW a \in Accounts, NEW d \in Currencies, NEW b \in Openings,
               Abs!Open(a, d, b)
        PROVE  FALSE
    BY <1>1, <2>3, NoneAssumption DEF IInv, TypeOK, RepoTypeOK, Abs!Open
  <2>4. ASSUME NEW t \in TxnIds, Abs!Settle(t) PROVE Total(c)' = Total(c)
    <3>1. PICK p \in Accounts, q \in Accounts, m \in Int :
              /\ currency[p] = currency[q]
              /\ balance' \in [Accounts -> Int]
              /\ \A x \in Accounts :
                     balance'[x] = balance[x] - (IF x = p THEN m ELSE 0)
                                              + (IF x = q THEN m ELSE 0)
      BY <1>1, <2>4, SettleMoves
    <3>2. S \in SUBSET Accounts /\ (p \in S <=> q \in S)
      BY <3>1 DEF S
    <3>3. balance \in [Accounts -> Int]
      BY <1>1, MaxBigintAssumption DEF IInv, TypeOK, RepoTypeOK
    <3>4. SumOver(balance', S) = SumOver(balance, S)
      BY <3>1, <3>2, <3>3, SumMoves
    <3>. QED
      BY <2>1, <3>4
  <2>. QED
    BY <1>1, <2>2, <2>3, <2>4
       DEF Abs!Next, Abs!vars, Abs!Initiate, Abs!Authorize
<1>2. IInv /\ [Next]_vars => [Step]_vars
  BY <1>1, StepImplements
<1>. QED
  BY <1>2, Invariance, PTL DEF Spec, MoneyConserved
=============================================================================
