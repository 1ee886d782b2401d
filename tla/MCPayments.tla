----------------------------- MODULE MCPayments -----------------------------
(***************************************************************************)
(* Instances of PaymentService for TLC.                                    *)
(***************************************************************************)
EXTENDS PaymentService, TLC

\* Requests, transaction ids and keys are interchangeable.
Symmetry ==
    Permutations(Requests) \cup Permutations(TxnIds) \cup Permutations(Keys)

\* One opening balance that PostgreSQL refuses and one that it stores.
TwoOrNegative == {-1, 2}

(***************************************************************************)
(* A state in the middle of a day: every account is open and one payment   *)
(* is authorized (which one is immaterial, as ids and keys are             *)
(* interchangeable, and the order of locks is that of the account ids in   *)
(* either direction of the payment).  Runs that start here reach the       *)
(* contention of a second payment with its settlement in fewer states.  No *)
(* webhook is counted, so WEBHOOK_URL has to be unset.                     *)
(***************************************************************************)
WarmInit ==
    LET t == CHOOSE u \in TxnIds : TRUE
        k == CHOOSE u \in Keys : TRUE
    IN  /\ ~WebhookURL
        /\ \E p \in Payment, b \in Openings :
               /\ p.key = k
               /\ p.sender < p.receiver
               /\ p.amount <= b
               /\ currency = [a \in Accounts |-> p.currency]
               /\ balance = [a \in Accounts |-> b]
               /\ payment = [u \in TxnIds |-> IF u = t THEN p ELSE None]
        /\ status = [u \in TxnIds |-> IF u = t THEN "authorized" ELSE "absent"]
        /\ audit = [u \in TxnIds |->
                       [o \in Ops |-> IF u = t /\ o = "initiate" THEN 1 ELSE 0]]
        /\ ledger = [a \in Accounts |-> << >>]
        /\ NoLocks
        /\ NoRequests
        /\ webhooks = [u \in TxnIds |-> [o \in Ops |-> 0]]

WarmFairSpec == WarmInit /\ [][Next]_vars /\ Fairness
=============================================================================
