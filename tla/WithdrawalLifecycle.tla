------------------------- MODULE WithdrawalLifecycle -------------------------
(***************************************************************************)
(* What a withdrawal promises, whatever carries it out: a request is made, *)
(* approved or rejected, and an approved one is sent or, after all,        *)
(* rejected. The account pays exactly the requests that are approved or    *)
(* sent, it never pays more than it has, and SENT and REJECTED are final.  *)
(***************************************************************************)
EXTENDS Integers

CONSTANTS
  Requests,   \* withdrawal requests
  Amounts     \* what may be asked for

VARIABLES
  status,     \* of each request
  amount,     \* of each request
  balance,    \* what the account holds
  others      \* of which deposits, trades and corrections, net

Charged == {"APPROVED", "SENT"}

RequestIt(r) ==
  /\ status[r] = "ABSENT"
  /\ status' = [status EXCEPT ![r] = "PENDING"]
  /\ \E a \in Amounts : amount' = [amount EXCEPT ![r] = a]
  /\ UNCHANGED <<balance, others>>

Approve(r) ==
  /\ status[r] = "PENDING"
  /\ amount[r] <= balance
  /\ status' = [status EXCEPT ![r] = "APPROVED"]
  /\ balance' = balance - amount[r]
  /\ UNCHANGED <<amount, others>>

Reject(r) ==
  /\ status[r] \in {"PENDING", "APPROVED"}
  /\ status' = [status EXCEPT ![r] = "REJECTED"]
  /\ balance' = balance + IF status[r] \in Charged THEN amount[r] ELSE 0
  /\ UNCHANGED <<amount, others>>

Send(r) ==
  /\ status[r] = "APPROVED"
  /\ status' = [status EXCEPT ![r] = "SENT"]
  /\ UNCHANGED <<amount, balance, others>>

\* Deposits, trades and corrections move the balance too.
OtherFunds ==
  /\ others' \in Int
  /\ balance' = balance + (others' - others)
  /\ UNCHANGED <<status, amount>>

Init ==
  /\ status = [r \in Requests |-> "ABSENT"]
  /\ amount = [r \in Requests |-> 0]
  /\ balance \in Int
  /\ others = 0

Next ==
  \/ \E r \in Requests : RequestIt(r) \/ Approve(r) \/ Reject(r) \/ Send(r)
  \/ OtherFunds

Spec == Init /\ [][Next]_<<status, amount, balance, others>>
=============================================================================
