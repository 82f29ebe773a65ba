----------------------------- MODULE Withdrawals -----------------------------
(***************************************************************************)
(* Withdrawal requests of one account and the administrators who decide    *)
(* them (withdrawals.service.ts, reached through wallet.service.ts).       *)
(*                                                                         *)
(* An administrator's call is a thread: it looks at the wallet transaction *)
(* linked to the request, at the request, at the margin, decides in a      *)
(* database transaction that reads again, and afterwards copies the        *)
(* decision to the linked transaction. The database runs at READ COMMITTED *)
(* without row locks on reads, so every read is a step of its own and the  *)
(* writes of a database transaction are one step, its commit.              *)
(***************************************************************************)
EXTENDS Integers, FiniteSets, FiniteSetsExt

CONSTANTS
  Admins,       \* concurrent calls of administrators
  Amounts,      \* amounts clients ask for (at least 10 USDT in the code)
  Opening,      \* the balance the account starts with
  Moves,        \* what deposits and trades add to the balance
  Locked,       \* used margin less unrealized PnL, as prices and orders move it
  Window,       \* linked transactions are looked up among so many (50 in the code)
  MaxRequests,  \* bound on the number of requests
  MaxMoves,     \* bound on those other movements of the balance
  MaxFaults     \* bound on crashes and failing calls

ASSUME AmountsAssumption ==
  /\ Amounts \subseteq Nat \ {0}
  /\ Opening \in Nat
  /\ Moves \subseteq Int
  /\ Locked \subseteq Int /\ Locked # {}

ASSUME LimitsAssumption ==
  /\ Window \in Nat \ {0}
  /\ MaxRequests \in Nat
  /\ MaxMoves \in Nat
  /\ MaxFaults \in Nat

Requests == 1 .. MaxRequests   \* in the order of createdAt
None     == 0

VARIABLES
  status,    \* withdrawalRequest.status, ABSENT before the row exists
  amount,    \* withdrawalRequest.amount
  entry,     \* status of the linked wallet transaction
  balance,   \* account.balance
  others,    \* what other services added to it
  locked,    \* used margin less unrealized PnL
  debits,    \* how often each request was charged to the account
  refunds,   \* how often it was given back
  moves,     \* other movements so far
  faults,    \* crashes and failing calls so far
  pc,        \* where each call is
  op,        \* what it is to do
  on,        \* the request it is about
  seen       \* the request's status its transaction has read

rows  == <<status, amount, entry, balance>>
book  == <<debits, refunds>>
env   == <<others, locked, moves, faults>>
local == <<pc, op, on, seen>>
vars  == <<rows, book, env, local>>

Statuses == {"ABSENT", "PENDING", "APPROVED", "REJECTED", "SENT"}
Entries  == {"ABSENT", "PENDING", "APPROVED", "REJECTED", "COMPLETED"}
Ops      == {"approve", "reject", "send"}
PCs      == {"idle", "decide", "guard", "margin", "recheck", "funds", "debit",
             "open", "reject", "check", "send", "sync"}

Existing == {r \in Requests : status[r] # "ABSENT"}

Init ==
  /\ status = [r \in Requests |-> "ABSENT"]
  /\ amount = [r \in Requests |-> 0]
  /\ entry = [r \in Requests |-> "ABSENT"]
  /\ balance = Opening
  /\ others = 0
  /\ locked \in Locked
  /\ debits = [r \in Requests |-> 0]
  /\ refunds = [r \in Requests |-> 0]
  /\ moves = 0
  /\ faults = 0
  /\ pc = [a \in Admins |-> "idle"]
  /\ op = [a \in Admins |-> "approve"]
  /\ on = [a \in Admins |-> None]
  /\ seen = [a \in Admins |-> "ABSENT"]

-----------------------------------------------------------------------------
(***************************************************************************)
(* requestWithdrawal. The margin is read before the row is inserted; as    *)
(* nothing is reserved, a request on stale figures is one made earlier. A  *)
(* refused request changes nothing.                                        *)
(***************************************************************************)
RequestWithdrawal(r, a) ==
  /\ r \notin Existing
  /\ \A x \in Requests \ Existing : r <= x
  /\ balance - locked >= a
  /\ status' = [status EXCEPT ![r] = "PENDING"]
  /\ amount' = [amount EXCEPT ![r] = a]
  /\ entry' = [entry EXCEPT ![r] = "PENDING"]
  /\ UNCHANGED <<balance, book, env, local>>

-----------------------------------------------------------------------------
\* The Window newest withdrawal transactions of the account.
Recent(r) == Cardinality({x \in Existing : x > r}) < Window

Goto(a, label) == pc' = [pc EXCEPT ![a] = label]

\* The call answers, with a result or with an exception.
Return(a) ==
  /\ Goto(a, "idle")
  /\ on' = [on EXCEPT ![a] = None]
  /\ seen' = [seen EXCEPT ![a] = "ABSENT"]
  /\ op' = [op EXCEPT ![a] = "approve"]

\* A check of the call: it goes on or it answers with an exception.
Check(a, label, holds, next) ==
  /\ pc[a] = label
  /\ \/ /\ holds
        /\ Goto(a, next)
        /\ UNCHANGED <<op, on, seen>>
     \/ /\ ~holds
        /\ Return(a)
  /\ UNCHANGED <<rows, book, env>>

\* approveWithdrawalRequest, rejectWithdrawalRequest (which look the linked
\* transaction up), approveTransaction, rejectTransaction (which are given it)
\* and markWithdrawalRequestAsSent.
Call(a, o, r) ==
  /\ pc[a] = "idle"
  /\ on' = [on EXCEPT ![a] = r]
  /\ op' = [op EXCEPT ![a] = o]
  /\ \/ /\ o # "send"
        /\ Goto(a, "decide")
     \/ /\ o = "approve" /\ ~Recent(r)
        /\ Goto(a, "guard")
     \/ /\ o = "reject" /\ ~Recent(r)
        /\ Goto(a, "open")
     \/ /\ o = "send"
        /\ Goto(a, "check")
  /\ UNCHANGED <<rows, book, env, seen>>

\* decideTransaction: the status of the linked transaction
Decide(a) ==
  \/ /\ op[a] = "approve"
     /\ Check(a, "decide", entry[on[a]] = "PENDING", "guard")
  \/ /\ op[a] = "reject"
     /\ Check(a, "decide", entry[on[a]] \in {"PENDING", "APPROVED"}, "open")

-----------------------------------------------------------------------------
(***************************************************************************)
(* approveWithdrawal                                                       *)
(***************************************************************************)
\* Mutant: a decided request may be approved.
ApprovableAgain(s) == s # "ABSENT"
Approvable(s) == s = "PENDING"

Guard(a)   == Check(a, "guard", Approvable(status[on[a]]), "margin")
Margin(a)  == Check(a, "margin", balance - locked >= amount[on[a]], "recheck")
Recheck(a) == Check(a, "recheck", Approvable(status[on[a]]), "funds")
Funds(a)   == Check(a, "funds", balance >= amount[on[a]], "debit")

\* Mutants: the account is charged the net amount; it is charged when the
\* withdrawal is sent; the status is left.
DebitNet(a) ==
  /\ pc[a] = "debit"
  /\ balance' = balance - (amount[on[a]] - 1)
  /\ status' = [status EXCEPT ![on[a]] = "APPROVED"]
  /\ debits' = [debits EXCEPT ![on[a]] = @ + 1]
  /\ Goto(a, "sync")
  /\ UNCHANGED <<amount, entry, refunds, env, op, on, seen>>

DebitLater(a) ==
  /\ pc[a] = "debit"
  /\ status' = [status EXCEPT ![on[a]] = "APPROVED"]
  /\ Goto(a, "sync")
  /\ UNCHANGED <<amount, entry, balance, book, env, op, on, seen>>

DebitOnly(a) ==
  /\ pc[a] = "debit"
  /\ balance' = balance - amount[on[a]]
  /\ debits' = [debits EXCEPT ![on[a]] = @ + 1]
  /\ Goto(a, "sync")
  /\ UNCHANGED <<status, amount, entry, refunds, env, op, on, seen>>

Debit(a) ==
  /\ pc[a] = "debit"
  /\ balance' = balance - amount[on[a]]
  /\ status' = [status EXCEPT ![on[a]] = "APPROVED"]
  /\ debits' = [debits EXCEPT ![on[a]] = @ + 1]
  /\ Goto(a, "sync")
  /\ UNCHANGED <<amount, entry, refunds, env, op, on, seen>>

-----------------------------------------------------------------------------
(***************************************************************************)
(* rejectWithdrawal                                                        *)
(***************************************************************************)
\* Mutant: any request may be rejected.
RejectableAny(s) == TRUE
Rejectable(s) == s \in {"PENDING", "APPROVED"}

Open(a) ==
  /\ pc[a] = "open"
  /\ \/ /\ Rejectable(status[on[a]])
        /\ seen' = [seen EXCEPT ![a] = status[on[a]]]
        /\ Goto(a, "reject")
        /\ UNCHANGED <<op, on>>
     \/ /\ ~Rejectable(status[on[a]])
        /\ Return(a)
  /\ UNCHANGED <<rows, book, env>>

\* Mutant: a pending request is refunded too.
GivesBackAlways(a) == 1
\* The account is refunded when the transaction has read APPROVED.
GivesBack(a) == IF seen[a] = "APPROVED" THEN 1 ELSE 0

Reject(a) ==
  /\ pc[a] = "reject"
  /\ balance' = balance + GivesBack(a) * amount[on[a]]
  /\ refunds' = [refunds EXCEPT ![on[a]] = @ + GivesBack(a)]
  /\ status' = [status EXCEPT ![on[a]] = "REJECTED"]
  /\ Goto(a, "sync")
  /\ UNCHANGED <<amount, entry, debits, env, op, on, seen>>

-----------------------------------------------------------------------------
(***************************************************************************)
(* markAsSent, and what the three have in common: syncLedgerTransaction.   *)
(***************************************************************************)
\* Mutant: a pending withdrawal may be marked as sent.
SendablePending(s) == s \in {"PENDING", "APPROVED"}
Sendable(s) == s = "APPROVED"

CheckSend(a) == Check(a, "check", Sendable(status[on[a]]), "send")

Send(a) ==
  /\ pc[a] = "send"
  /\ status' = [status EXCEPT ![on[a]] = "SENT"]
  /\ Goto(a, "sync")
  /\ UNCHANGED <<amount, entry, balance, book, env, op, on, seen>>

\* Mutants: a sent withdrawal's transaction is left APPROVED; it is given the
\* status of the request.
EntryForUnsent(o) == IF o = "reject" THEN "REJECTED" ELSE "APPROVED"
EntryForStatus(o) ==
  IF o = "approve" THEN "APPROVED" ELSE IF o = "reject" THEN "REJECTED" ELSE "SENT"
EntryFor(o) ==
  IF o = "approve" THEN "APPROVED" ELSE IF o = "reject" THEN "REJECTED" ELSE "COMPLETED"

\* syncLedgerTransaction writes whatever the transaction has become meanwhile.
Sync(a) ==
  /\ pc[a] = "sync"
  /\ entry' = IF Recent(on[a])
              THEN [entry EXCEPT ![on[a]] = EntryFor(op[a])]
              ELSE entry
  /\ Return(a)
  /\ UNCHANGED <<status, amount, balance, book, env>>

-----------------------------------------------------------------------------
OneFault ==
  /\ faults < MaxFaults
  /\ faults' = faults + 1
  /\ UNCHANGED <<others, locked, moves>>

\* A call of the database fails: the handler throws, a transaction rolls back.
CallFails(a) ==
  /\ pc[a] # "idle"
  /\ OneFault
  /\ Return(a)
  /\ UNCHANGED <<rows, book>>

\* The process dies with every call it was serving.
Crash ==
  /\ \E a \in Admins : pc[a] # "idle"
  /\ OneFault
  /\ pc' = [a \in Admins |-> "idle"]
  /\ on' = [a \in Admins |-> None]
  /\ op' = [a \in Admins |-> "approve"]
  /\ seen' = [a \in Admins |-> "ABSENT"]
  /\ UNCHANGED <<rows, book>>

\* Deposits, credits, compensations and closed trades.
OtherFunds ==
  /\ moves < MaxMoves
  /\ moves' = moves + 1
  /\ \E m \in Moves : others' = others + m /\ balance' = balance + m
  /\ UNCHANGED <<status, amount, entry, book, locked, faults, local>>

\* Prices move, orders open and close positions.
TradingMoves ==
  /\ locked' \in Locked
  /\ UNCHANGED <<rows, book, others, moves, faults, local>>

AdminStep(a) ==
  \/ Decide(a)
  \/ Guard(a) \/ Margin(a) \/ Recheck(a) \/ Funds(a) \/ Debit(a)
  \/ Open(a) \/ Reject(a)
  \/ CheckSend(a) \/ Send(a)
  \/ Sync(a)

Next ==
  \/ \E r \in Requests, m \in Amounts : RequestWithdrawal(r, m)
  \/ \E a \in Admins, o \in Ops, r \in Existing : Call(a, o, r)
  \/ \E a \in Admins : AdminStep(a) \/ CallFails(a)
  \/ Crash \/ OtherFunds \/ TradingMoves

Spec == Init /\ [][Next]_vars

-----------------------------------------------------------------------------
TypeOK ==
  /\ status \in [Requests -> Statuses]
  /\ amount \in [Requests -> Amounts \cup {0}]
  /\ entry \in [Requests -> Entries]
  /\ balance \in Int
  /\ others \in Int
  /\ locked \in Locked
  /\ debits \in [Requests -> Nat]
  /\ refunds \in [Requests -> Nat]
  /\ moves \in 0 .. MaxMoves
  /\ faults \in 0 .. MaxFaults
  /\ pc \in [Admins -> PCs]
  /\ op \in [Admins -> Ops]
  /\ on \in [Admins -> Requests \cup {None}]
  /\ seen \in [Admins -> Statuses]

(***************************************************************************)
(* What holds whatever administrators do at once and whatever fails.       *)
(***************************************************************************)

\* A pending request has not moved the account: approvals and refunds belong
\* to decided requests only, whichever call is half-way through its decision.
PendingIsUncharged ==
  \A r \in Requests :
    status[r] \in {"ABSENT", "PENDING"} => debits[r] = 0 /\ refunds[r] = 0

\* Nothing is given back, and nothing leaves the platform, that was never
\* charged, even when a rejection or a payment overtakes another decision.
MovedOnlyIfCharged ==
  \A r \in Requests : refunds[r] > 0 \/ status[r] \in {"APPROVED", "SENT"} => debits[r] > 0

\* No movement of the balance is lost: it is what it started with, what other
\* services added, and every charge and refund that was committed.
BalanceIsConserved ==
  balance = Opening + others
            + MapThenSumSet(LAMBDA r : (refunds[r] - debits[r]) * amount[r], Requests)

(***************************************************************************)
(* What holds when one administrator decides at a time.                    *)
(***************************************************************************)

\* The requests and the account behave as WithdrawalLifecycle promises, with
\* crashes and failing calls at any point.
Lifecycle == INSTANCE WithdrawalLifecycle WITH
  Requests <- Requests, Amounts <- Amounts,
  status <- status, amount <- amount, balance <- balance, others <- others
ImplementsLifecycle == Lifecycle!Spec

\* Without a fault, the linked transaction the client sees tells the state of
\* the request once the call that decided it has answered.
EntryTellsStatus ==
  faults = 0 /\ (\A a \in Admins : pc[a] = "idle") =>
    \A r \in Existing :
      entry[r] = CASE status[r] = "SENT" -> "COMPLETED" [] OTHER -> status[r]

(***************************************************************************)
(* What the documents and the code promise of concurrent decisions.        *)
(***************************************************************************)

\* docs/idempotency-review.md: duplicate decisions do not move money twice.
ChargedAtMostOnce == \A r \in Requests : debits[r] <= 1

\* "Insufficient funds at time of approval": an approval never overdraws.
BalanceNonNegative == balance >= 0

\* A withdrawal that was sent has been paid for: it was not also refunded.
SentIsPaidFor == \A r \in Requests : status[r] = "SENT" => debits[r] > refunds[r]
=============================================================================
