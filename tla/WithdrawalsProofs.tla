-------------------------- MODULE WithdrawalsProofs --------------------------
(***************************************************************************)
(* Theorems of Withdrawals, proved for every number of administrators,     *)
(* requests, movements and faults.                                         *)
(*                                                                         *)
(* The first part is about concurrent administrators: a call that is past  *)
(* its last read holds on to what it has read, so the inductive invariant  *)
(* says what that reading still implies although the row may have changed. *)
(* The second part is about the balance, which is summed over requests     *)
(* whatever overlaps. The third part is about one administrator at a time: *)
(* then the reading is still true when it is used, every step is one of    *)
(* the abstract specification or a stutter, and the linked transaction     *)
(* ends up telling what the request does.                                  *)
(***************************************************************************)
EXTENDS Withdrawals, SumProofs

LEMMA TypeInit == Init => TypeOK
BY AmountsAssumption, LimitsAssumption
DEF Init, TypeOK, Statuses, Entries, Ops, PCs, Requests, None

LEMMA AmountNat == TypeOK => \A r \in Requests : amount[r] \in Nat
<1>1. Amounts \cup {0} \subseteq Nat
  BY AmountsAssumption
<1> QED BY <1>1 DEF TypeOK

\* Return only touches what is local to the call.
LEMMA ReturnType ==
  ASSUME TypeOK, NEW a \in Admins, Return(a)
  PROVE  /\ pc' \in [Admins -> PCs]
         /\ op' \in [Admins -> Ops]
         /\ on' \in [Admins -> Requests \cup {None}]
         /\ seen' \in [Admins -> Statuses]
BY DEF Return, Goto, TypeOK, PCs, Ops, Statuses

LEMMA CheckType ==
  ASSUME TypeOK, NEW a \in Admins, NEW label, NEW holds, NEW next \in PCs,
         Check(a, label, holds, next)
  PROVE  TypeOK'
<1>1. UNCHANGED <<rows, book, env>>
  BY DEF Check
<1>2. CASE Goto(a, next) /\ UNCHANGED <<op, on, seen>>
  BY <1>1, <1>2 DEF Goto, rows, book, env, TypeOK
<1>3. CASE Return(a)
  BY <1>1, <1>3, ReturnType DEF rows, book, env, TypeOK
<1> QED BY <1>2, <1>3 DEF Check

LEMMA AdminType ==
  ASSUME TypeOK, NEW a \in Admins, AdminStep(a),
         pc[a] # "idle" => on[a] \in Requests
  PROVE  TypeOK'
<1>1. CASE Decide(a)
  BY <1>1, CheckType DEF Decide, PCs
<1>2. CASE Guard(a) \/ Margin(a) \/ Recheck(a) \/ Funds(a) \/ CheckSend(a)
  BY <1>2, CheckType DEF Guard, Margin, Recheck, Funds, CheckSend, PCs
<1>3. CASE Debit(a)
  <2>1. on[a] \in Requests /\ amount[on[a]] \in Int
    BY <1>3, AmountNat DEF Debit
  <2> QED BY <1>3, <2>1 DEF Debit, Goto, env, TypeOK, PCs, Statuses
<1>4. CASE Open(a)
  <2>1. on[a] \in Requests /\ UNCHANGED <<rows, book, env>>
    BY <1>4 DEF Open
  <2>2. CASE seen' = [seen EXCEPT ![a] = status[on[a]]] /\ Goto(a, "reject") /\ UNCHANGED <<op, on>>
    BY <2>1, <2>2 DEF Goto, rows, book, env, TypeOK, PCs
  <2>3. CASE Return(a)
    BY <2>1, <2>3, ReturnType DEF rows, book, env, TypeOK
  <2> QED BY <1>4, <2>2, <2>3 DEF Open
<1>5. CASE Reject(a)
  <2>1. on[a] \in Requests /\ amount[on[a]] \in Int /\ GivesBack(a) \in {0, 1}
    BY <1>5, AmountNat DEF Reject, GivesBack
  <2>2. balance' \in Int
    BY <1>5, <2>1 DEF Reject, TypeOK
  <2>3. refunds' \in [Requests -> Nat]
    BY <1>5, <2>1 DEF Reject, TypeOK
  <2> QED BY <1>5, <2>1, <2>2, <2>3 DEF Reject, Goto, env, TypeOK, PCs, Statuses
<1>6. CASE Send(a)
  BY <1>6 DEF Send, Goto, book, env, TypeOK, PCs, Statuses
<1>7. CASE Sync(a)
  <2>1. entry' \in [Requests -> Entries]
    BY <1>7 DEF Sync, EntryFor, TypeOK, Entries
  <2> QED BY <1>7, <2>1, ReturnType DEF Sync, book, env, TypeOK
<1> QED BY <1>1, <1>2, <1>3, <1>4, <1>5, <1>6, <1>7 DEF AdminStep

\* A call that is running is about a request that exists.
Handles == \A a \in Admins : pc[a] # "idle" => on[a] \in Existing

LEMMA TypeNext == TypeOK /\ Handles /\ [Next]_vars => TypeOK'
<1> SUFFICES ASSUME TypeOK, Handles, [Next]_vars PROVE TypeOK'
  OBVIOUS
<1>1. ASSUME NEW r \in Requests, NEW m \in Amounts, RequestWithdrawal(r, m)
      PROVE  TypeOK'
  BY <1>1 DEF RequestWithdrawal, book, env, local, TypeOK, Statuses, Entries
<1>2. ASSUME NEW a \in Admins, NEW o \in Ops, NEW r \in Existing, Call(a, o, r)
      PROVE  TypeOK'
  BY <1>2 DEF Call, Goto, rows, book, env, TypeOK, PCs, Existing
<1>3. ASSUME NEW a \in Admins, AdminStep(a)
      PROVE  TypeOK'
  BY <1>3, AdminType DEF Handles, Existing
<1>4. ASSUME NEW a \in Admins, CallFails(a)
      PROVE  TypeOK'
  BY <1>4, ReturnType, LimitsAssumption DEF CallFails, OneFault, rows, book, TypeOK
<1>5. CASE Crash
  BY <1>5, LimitsAssumption DEF Crash, OneFault, rows, book, TypeOK, PCs, Ops, Statuses
<1>6. CASE OtherFunds
  BY <1>6, LimitsAssumption, AmountsAssumption DEF OtherFunds, book, local, TypeOK
<1>7. CASE TradingMoves
  BY <1>7 DEF TradingMoves, rows, book, local, TypeOK
<1>8. CASE UNCHANGED vars
  BY <1>8 DEF vars, rows, book, env, local, TypeOK
<1> QED BY <1>1, <1>2, <1>3, <1>4, <1>5, <1>6, <1>7, <1>8 DEF Next

-----------------------------------------------------------------------------
(***************************************************************************)
(* Concurrent administrators                                               *)
(***************************************************************************)

\* What a call has read: a request once seen APPROVED has been charged, even
\* if its row says something else by now.
ReadingImpliesCharge ==
  \A a \in Admins :
    \/ pc[a] = "reject" /\ seen[a] = "APPROVED"
    \/ pc[a] = "send"
    => debits[on[a]] > 0

IInv ==
  /\ TypeOK
  /\ Handles
  /\ PendingIsUncharged
  /\ MovedOnlyIfCharged
  /\ ReadingImpliesCharge

LEMMA InitIInv == Init => IInv
<1> SUFFICES ASSUME Init PROVE IInv
  OBVIOUS
<1> QED BY TypeInit DEF Init, IInv, Handles, PendingIsUncharged, MovedOnlyIfCharged,
        ReadingImpliesCharge

\* A step that leaves the rows and the book alone and puts no call at a write
\* unless the row it is about has been charged.
Quiet ==
  /\ UNCHANGED <<status, debits, refunds>>
  /\ \A a \in Admins :
       \/ pc'[a] = "idle"
       \/ /\ on'[a] \in Existing
          /\ \/ pc'[a] = pc[a] /\ on'[a] = on[a] /\ seen'[a] = seen[a]
             \/ pc'[a] \notin {"reject", "send"}
             \/ pc'[a] = "reject" /\ seen'[a] = status[on'[a]]
             \/ pc'[a] = "send" /\ status[on'[a]] = "APPROVED"

LEMMA QuietKeeps ==
  ASSUME IInv, TypeOK', Quiet
  PROVE  IInv'
<1>1. Handles' /\ PendingIsUncharged' /\ MovedOnlyIfCharged'
  BY DEF IInv, Quiet, Handles, Existing, PendingIsUncharged, MovedOnlyIfCharged
<1>2. ReadingImpliesCharge'
  BY DEF IInv, Quiet, Existing, MovedOnlyIfCharged, ReadingImpliesCharge
<1> QED BY <1>1, <1>2 DEF IInv

LEMMA ReturnQuiet ==
  ASSUME IInv, NEW a \in Admins, Return(a), UNCHANGED <<status, debits, refunds>>
  PROVE  Quiet
BY DEF IInv, TypeOK, Handles, Existing, Return, Goto, Quiet

LEMMA CheckQuiet ==
  ASSUME IInv, NEW a \in Admins, NEW label, label # "idle", NEW holds, NEW next,
         next = "send" => (holds => status[on[a]] = "APPROVED"), next # "reject",
         Check(a, label, holds, next)
  PROVE  Quiet
<1>1. UNCHANGED <<status, debits, refunds>>
  BY DEF Check, rows, book
<1>2. CASE holds /\ Goto(a, next) /\ UNCHANGED <<op, on, seen>>
  BY <1>1, <1>2 DEF Check, Goto, IInv, TypeOK, Handles, Existing, Quiet
<1>3. CASE Return(a)
  BY <1>1, <1>3, ReturnQuiet
<1> QED BY <1>2, <1>3 DEF Check

\* The three writes: a status that is decided, a book that only grows.
LEMMA WriteKeeps ==
  ASSUME IInv, TypeOK', NEW a \in Admins, NEW s \in {"APPROVED", "REJECTED", "SENT"},
         on[a] \in Existing,
         status' = [status EXCEPT ![on[a]] = s],
         \A r \in Requests : debits'[r] >= debits[r],
         \A r \in Requests \ {on[a]} : debits'[r] = debits[r] /\ refunds'[r] = refunds[r],
         refunds'[on[a]] > 0 \/ s # "REJECTED" => debits'[on[a]] > 0,
         Goto(a, "sync"), UNCHANGED <<on, seen>>
  PROVE  IInv'
<1>1. on[a] \in Requests
  BY DEF Existing
<1>2. Handles'
  BY <1>1 DEF IInv, TypeOK, Handles, Existing, Goto
<1>3. PendingIsUncharged'
  BY <1>1 DEF IInv, TypeOK, PendingIsUncharged
<1>4. MovedOnlyIfCharged'
  BY <1>1 DEF IInv, TypeOK, MovedOnlyIfCharged
<1>5. ReadingImpliesCharge'
  <2> SUFFICES ASSUME NEW b \in Admins,
                      (pc'[b] = "reject" /\ seen'[b] = "APPROVED") \/ pc'[b] = "send"
               PROVE  debits'[on'[b]] > 0
    BY DEF ReadingImpliesCharge
  <2>1. pc[b] = pc'[b] /\ on[b] \in Requests
    BY DEF IInv, TypeOK, Handles, Existing, Goto
  <2>2. debits[on[b]] > 0
    BY <2>1 DEF IInv, ReadingImpliesCharge
  <2>3. debits[on[b]] \in Nat /\ debits'[on[b]] \in Nat
    BY <2>1 DEF IInv, TypeOK
  <2> QED BY <2>1, <2>2, <2>3
<1> QED BY <1>2, <1>3, <1>4, <1>5 DEF IInv

LEMMA AdminKeeps ==
  ASSUME IInv, TypeOK', NEW a \in Admins, AdminStep(a)
  PROVE  IInv'
<1> USE DEF IInv
<1>1. CASE Decide(a) \/ Guard(a) \/ Margin(a) \/ Recheck(a) \/ Funds(a) \/ CheckSend(a)
  <2>1. CASE Decide(a)
    <3>1. Quiet
      BY <2>1, CheckQuiet DEF Decide
    <3> QED BY <3>1, QuietKeeps
  <2>2. CASE Guard(a)
    <3>1. Quiet
      BY <2>2, CheckQuiet DEF Guard
    <3> QED BY <3>1, QuietKeeps
  <2>3. CASE Margin(a)
    <3>1. Quiet
      BY <2>3, CheckQuiet DEF Margin
    <3> QED BY <3>1, QuietKeeps
  <2>4. CASE Recheck(a)
    <3>1. Quiet
      BY <2>4, CheckQuiet DEF Recheck
    <3> QED BY <3>1, QuietKeeps
  <2>5. CASE Funds(a)
    <3>1. Quiet
      BY <2>5, CheckQuiet DEF Funds
    <3> QED BY <3>1, QuietKeeps
  <2>6. CASE CheckSend(a)
    <3>1. Quiet
      BY <2>6, CheckQuiet DEF CheckSend, Sendable
    <3> QED BY <3>1, QuietKeeps
  <2> QED BY <1>1, <2>1, <2>2, <2>3, <2>4, <2>5, <2>6
<1>2. CASE Open(a)
  <2>1. UNCHANGED <<status, debits, refunds>> /\ pc[a] = "open"
    BY <1>2 DEF Open, rows, book
  <2>2. CASE Return(a)
    BY <2>1, <2>2, ReturnQuiet, QuietKeeps
  <2>3. CASE seen' = [seen EXCEPT ![a] = status[on[a]]] /\ Goto(a, "reject") /\ UNCHANGED <<op, on>>
    <3>1. Quiet
      BY <2>1, <2>3 DEF Goto, TypeOK, Handles, Existing, Quiet
    <3> QED BY <3>1, QuietKeeps
  <2> QED BY <1>2, <2>2, <2>3 DEF Open
<1>3. CASE Debit(a)
  <2>1. on[a] \in Existing /\ on[a] \in Requests
    BY <1>3 DEF Debit, Handles, Existing
  <2>2. debits' = [debits EXCEPT ![on[a]] = debits[on[a]] + 1] /\ refunds' = refunds
        /\ status' = [status EXCEPT ![on[a]] = "APPROVED"]
        /\ Goto(a, "sync") /\ UNCHANGED <<on, seen>>
    BY <1>3 DEF Debit
  <2>3. \A r \in Requests : debits[r] \in Nat
    BY DEF TypeOK
  <2>4. \A r \in Requests : debits'[r] >= debits[r]
    BY <2>1, <2>2, <2>3 DEF TypeOK
  <2>5. \A r \in Requests \ {on[a]} : debits'[r] = debits[r] /\ refunds'[r] = refunds[r]
    BY <2>1, <2>2 DEF TypeOK
  <2>6. debits'[on[a]] > 0
    BY <2>1, <2>2, <2>3 DEF TypeOK
  <2> QED BY <2>1, <2>2, <2>4, <2>5, <2>6, WriteKeeps
<1>4. CASE Reject(a)
  <2>1. on[a] \in Existing /\ on[a] \in Requests /\ pc[a] = "reject"
    BY <1>4 DEF Reject, Handles, Existing
  <2>2. refunds' = [refunds EXCEPT ![on[a]] = refunds[on[a]] + GivesBack(a)]
        /\ debits' = debits
        /\ status' = [status EXCEPT ![on[a]] = "REJECTED"]
        /\ Goto(a, "sync") /\ UNCHANGED <<on, seen>>
    BY <1>4 DEF Reject
  <2>3. \A r \in Requests : debits[r] \in Nat /\ refunds[r] \in Nat
    BY DEF TypeOK
  <2>4. \A r \in Requests : debits'[r] >= debits[r]
    BY <2>2, <2>3
  <2>5. \A r \in Requests \ {on[a]} : debits'[r] = debits[r] /\ refunds'[r] = refunds[r]
    BY <2>1, <2>2 DEF TypeOK
  <2>6. refunds'[on[a]] > 0 => debits'[on[a]] > 0
    <3>1. CASE seen[a] = "APPROVED"
      BY <2>1, <2>2, <3>1 DEF ReadingImpliesCharge
    <3>2. CASE seen[a] # "APPROVED"
      BY <2>1, <2>2, <2>3, <3>2 DEF GivesBack, MovedOnlyIfCharged, TypeOK
    <3> QED BY <3>1, <3>2
  <2> QED BY <2>1, <2>2, <2>4, <2>5, <2>6, WriteKeeps
<1>5. CASE Send(a)
  <2>1. on[a] \in Existing /\ on[a] \in Requests /\ pc[a] = "send"
    BY <1>5 DEF Send, Handles, Existing
  <2>2. UNCHANGED <<debits, refunds, on, seen>> /\ Goto(a, "sync")
        /\ status' = [status EXCEPT ![on[a]] = "SENT"]
    BY <1>5 DEF Send, book
  <2>3. \A r \in Requests : debits'[r] >= debits[r]
    BY <2>2 DEF TypeOK
  <2>4. debits'[on[a]] > 0
    BY <2>1, <2>2 DEF ReadingImpliesCharge
  <2> QED BY <2>1, <2>2, <2>3, <2>4, WriteKeeps
<1>6. CASE Sync(a)
  <2>1. UNCHANGED <<status, debits, refunds>> /\ Return(a)
    BY <1>6 DEF Sync, book
  <2> QED BY <2>1, ReturnQuiet, QuietKeeps
<1> QED BY <1>1, <1>2, <1>3, <1>4, <1>5, <1>6 DEF AdminStep

LEMMA NextIInv == IInv /\ [Next]_vars => IInv'
<1> SUFFICES ASSUME IInv, [Next]_vars PROVE IInv'
  OBVIOUS
<1>1. TypeOK'
  BY TypeNext DEF IInv
<1>2. ASSUME NEW r \in Requests, NEW m \in Amounts, RequestWithdrawal(r, m)
      PROVE  IInv'
  <2>1. status[r] = "ABSENT" /\ status' = [status EXCEPT ![r] = "PENDING"]
        /\ UNCHANGED <<debits, refunds, pc, on, seen>>
    BY <1>2 DEF RequestWithdrawal, Existing, book, local
  <2>2. Handles'
    BY <2>1 DEF IInv, TypeOK, Handles, Existing
  <2>3. PendingIsUncharged' /\ MovedOnlyIfCharged'
    BY <2>1 DEF IInv, TypeOK, PendingIsUncharged, MovedOnlyIfCharged
  <2>4. ReadingImpliesCharge'
    BY <2>1 DEF IInv, ReadingImpliesCharge
  <2> QED BY <1>1, <2>2, <2>3, <2>4 DEF IInv
<1>3. ASSUME NEW a \in Admins, NEW o \in Ops, NEW r \in Existing, Call(a, o, r)
      PROVE  IInv'
  <2>1. Quiet
    BY <1>3 DEF Call, Goto, rows, book, IInv, TypeOK, Handles, Existing, Quiet
  <2> QED BY <1>1, <2>1, QuietKeeps
<1>4. ASSUME NEW a \in Admins, AdminStep(a)
      PROVE  IInv'
  BY <1>1, <1>4, AdminKeeps
<1>5. ASSUME NEW a \in Admins, CallFails(a)
      PROVE  IInv'
  BY <1>1, <1>5, ReturnQuiet, QuietKeeps DEF CallFails, rows, book
<1>6. CASE Crash
  <2>1. Quiet
    BY <1>6 DEF Crash, rows, book, Quiet
  <2> QED BY <1>1, <2>1, QuietKeeps
<1>7. CASE OtherFunds \/ TradingMoves \/ UNCHANGED vars
  <2>1. UNCHANGED <<status, debits, refunds, pc, on, seen>>
    BY <1>7 DEF OtherFunds, TradingMoves, vars, rows, book, local
  <2>2. Quiet
    BY <2>1 DEF IInv, Handles, Quiet
  <2> QED BY <1>1, <2>2, QuietKeeps
<1> QED BY <1>2, <1>3, <1>4, <1>5, <1>6, <1>7 DEF Next

\* The inductive invariant holds in every reachable state.
THEOREM Invariance == Spec => []IInv
<1> QED BY InitIInv, NextIInv, PTL DEF Spec

\* Type correctness.
THEOREM TypeCorrect == Spec => []TypeOK
<1>1. IInv => TypeOK
  BY DEF IInv
<1> QED BY <1>1, Invariance, PTL

\* A pending request has not moved the account, however many administrators
\* work on it and wherever they fail.
THEOREM PendingUncharged == Spec => []PendingIsUncharged
<1>1. IInv => PendingIsUncharged
  BY DEF IInv
<1> QED BY <1>1, Invariance, PTL

\* Whatever was refunded, approved or sent has been charged.
THEOREM MovedCharged == Spec => []MovedOnlyIfCharged
<1>1. IInv => MovedOnlyIfCharged
  BY DEF IInv
<1> QED BY <1>1, Invariance, PTL

-----------------------------------------------------------------------------
(***************************************************************************)
(* The balance. What a request has moved is one term of a sum, which a     *)
(* commit changes by what it changes the balance by.                       *)
(***************************************************************************)
Net(r)   == (refunds[r] - debits[r]) * amount[r]
NetTable == [r \in Requests |-> Net(r)]
NetSum   == SumOver(NetTable, Requests)

Explained == balance = Opening + others + NetSum

LEMMA NetSumIs ==
  MapThenSumSet(LAMBDA r : (refunds[r] - debits[r]) * amount[r], Requests) = NetSum
BY DEF MapThenSumSet, MapThenFoldSet, SumOver, TableOf, Tabulates, PickOf, NetSum, NetTable, Net

LEMMA Conserved == BalanceIsConserved <=> Explained
BY NetSumIs DEF BalanceIsConserved, Explained

LEMMA ConservedNext == BalanceIsConserved' <=> Explained'
BY Conserved, PTL

LEMMA RequestsFinite == IsFiniteSet(Requests)
BY FS_Interval, LimitsAssumption DEF Requests

LEMMA NetType ==
  TypeOK => \A r \in Requests : Net(r) \in Int /\ NetTable[r] = Net(r)
<1> SUFFICES ASSUME TypeOK, NEW r \in Requests PROVE Net(r) \in Int /\ NetTable[r] = Net(r)
  OBVIOUS
<1>1. refunds[r] \in Int /\ debits[r] \in Int /\ amount[r] \in Int
  BY AmountNat DEF TypeOK
<1> QED BY <1>1 DEF Net, NetTable

\* No request's share moves, or one's.
LEMMA NetSumSame ==
  ASSUME TypeOK, \A r \in Requests : Net(r)' = Net(r)
  PROVE  NetSum' = NetSum
<1>1. \A r \in Requests : NetTable'[r] = NetTable[r]
  BY DEF NetTable
<1> QED BY <1>1, SumSame, RequestsFinite DEF NetSum

LEMMA NetSumMoves ==
  ASSUME TypeOK, TypeOK', NEW r \in Requests, \A x \in Requests \ {r} : Net(x)' = Net(x)
  PROVE  NetSum' = NetSum + (Net(r)' - Net(r))
<1>1. \A x \in Requests : NetTable[x] \in Int /\ NetTable[x] = Net(x)
  BY NetType
<1>2. \A x \in Requests : NetTable'[x] \in Int /\ NetTable'[x] = Net(x)'
  <2>1. Amounts \cup {0} \subseteq Nat
    BY AmountsAssumption
  <2> TAKE x \in Requests
  <2>2. amount'[x] \in Int /\ refunds'[x] \in Int /\ debits'[x] \in Int
    BY <2>1 DEF TypeOK
  <2>3. NetTable'[x] = Net(x)'
    BY DEF NetTable
  <2> QED BY <2>2, <2>3 DEF Net
<1>3. \A x \in Requests \ {r} : NetTable'[x] = NetTable[x]
  BY <1>1, <1>2
<1> QED BY <1>1, <1>2, <1>3, SumChange, RequestsFinite DEF NetSum

\* The arithmetic of a charge.
LEMMA OneMoreDebit ==
  ASSUME NEW f \in Int, NEW d \in Int, NEW a \in Int
  PROVE  (f - (d + 1)) * a - (f - d) * a = -a
OBVIOUS

\* Who moves the balance, or what it is explained by.
LEMMA WhoMoves ==
  ASSUME [Next]_vars
  PROVE  \/ UNCHANGED <<amount, balance, others, debits, refunds>>
         \/ \E r \in Requests, m \in Amounts : RequestWithdrawal(r, m)
         \/ \E a \in Admins : Debit(a) \/ Reject(a)
         \/ OtherFunds
<1>1. ASSUME NEW a \in Admins, AdminStep(a)
      PROVE  UNCHANGED <<amount, balance, others, debits, refunds>> \/ Debit(a) \/ Reject(a)
  <2>1. CASE Decide(a) \/ Guard(a) \/ Margin(a) \/ Recheck(a) \/ Funds(a) \/ Open(a) \/ CheckSend(a)
    BY <2>1 DEF Decide, Guard, Margin, Recheck, Funds, Open, CheckSend, Check, rows, book, env
  <2>2. CASE Send(a) \/ Sync(a)
    BY <2>2 DEF Send, Sync, book, env
  <2> QED BY <1>1, <2>1, <2>2 DEF AdminStep
<1>2. ASSUME NEW a \in Admins, NEW o \in Ops, NEW r \in Existing, Call(a, o, r)
      PROVE  UNCHANGED <<amount, balance, others, debits, refunds>>
  BY <1>2 DEF Call, rows, book, env
<1>3. ASSUME NEW a \in Admins, CallFails(a)
      PROVE  UNCHANGED <<amount, balance, others, debits, refunds>>
  BY <1>3 DEF CallFails, OneFault, rows, book
<1>4. CASE Crash \/ TradingMoves \/ UNCHANGED vars
  BY <1>4 DEF Crash, OneFault, TradingMoves, vars, rows, book, env
<1> QED BY <1>1, <1>2, <1>3, <1>4 DEF Next

LEMMA ConservedKept ==
  ASSUME IInv, TypeOK', BalanceIsConserved, [Next]_vars
  PROVE  BalanceIsConserved'
<1> USE DEF IInv
<1>1. balance = Opening + others + NetSum
  BY Conserved DEF Explained
<1>2. balance \in Int /\ others \in Int /\ Opening \in Int /\ NetSum \in Int
  <2>1. NetSum \in Int
    BY NetType, SumType, RequestsFinite DEF NetSum
  <2> QED BY <2>1, AmountsAssumption DEF TypeOK
<1> SUFFICES balance' = Opening + others' + NetSum'
  BY ConservedNext DEF Explained
<1>3. CASE UNCHANGED <<amount, balance, others, debits, refunds>>
  <2>1. NetSum' = NetSum
    BY <1>3, NetSumSame DEF Net
  <2> QED BY <1>1, <1>3, <2>1
<1>4. ASSUME NEW r \in Requests, NEW m \in Amounts, RequestWithdrawal(r, m)
      PROVE  balance' = Opening + others' + NetSum'
  <2>1. /\ amount' = [amount EXCEPT ![r] = m]
        /\ UNCHANGED <<balance, others, debits, refunds>>
        /\ status[r] = "ABSENT"
    BY <1>4 DEF RequestWithdrawal, Existing, book, env
  <2>2. debits[r] = 0 /\ refunds[r] = 0 /\ m \in Int /\ amount[r] \in Int
    BY <2>1, AmountsAssumption, AmountNat DEF PendingIsUncharged
  <2>3. Net(r) = 0 /\ Net(r)' = 0
    BY <2>1, <2>2 DEF Net, TypeOK
  <2>4. \A x \in Requests : Net(x)' = Net(x)
    BY <2>1, <2>3 DEF Net, TypeOK
  <2> QED BY <1>1, <2>1, <2>4, NetSumSame
<1>5. ASSUME NEW a \in Admins, Debit(a)
      PROVE  balance' = Opening + others' + NetSum'
  <2> PICK r \in Requests : r = on[a]
    BY <1>5 DEF Debit, Handles, Existing, TypeOK
  <2>1. r \in Requests /\ amount[r] \in Int /\ debits[r] \in Int /\ refunds[r] \in Int
    BY <1>5, AmountNat DEF Debit, Handles, Existing, TypeOK
  <2>2. /\ balance' = balance - amount[r]
        /\ debits' = [debits EXCEPT ![r] = debits[r] + 1]
        /\ UNCHANGED <<amount, refunds, others>>
    BY <1>5 DEF Debit, env
  <2>3. /\ debits'[r] = debits[r] + 1
        /\ \A x \in Requests \ {r} : debits'[x] = debits[x]
    BY <2>1, <2>2 DEF TypeOK
  <2>4. \A x \in Requests \ {r} : Net(x)' = Net(x)
    BY <2>2, <2>3 DEF Net
  <2>5. Net(r)' - Net(r) = -amount[r]
    <3>1. Net(r)' = (refunds[r] - (debits[r] + 1)) * amount[r]
      BY <2>2, <2>3 DEF Net
    <3> QED BY <2>1, <3>1, OneMoreDebit DEF Net
  <2>6. NetSum' = NetSum + (Net(r)' - Net(r))
    BY <2>1, <2>4, NetSumMoves
  <2> QED BY <1>1, <1>2, <2>1, <2>2, <2>5, <2>6
<1>6. ASSUME NEW a \in Admins, Reject(a)
      PROVE  balance' = Opening + others' + NetSum'
  <2> PICK r \in Requests : r = on[a]
    BY <1>6 DEF Reject, Handles, Existing, TypeOK
  <2> PICK g \in {0, 1} : g = GivesBack(a)
    BY DEF GivesBack
  <2>1. r \in Requests /\ amount[r] \in Int /\ debits[r] \in Int /\ refunds[r] \in Int
    BY <1>6, AmountNat DEF Reject, Handles, Existing, TypeOK
  <2>2. /\ balance' = balance + g * amount[r]
        /\ refunds' = [refunds EXCEPT ![r] = refunds[r] + g]
        /\ UNCHANGED <<amount, debits, others>>
    BY <1>6 DEF Reject, env
  <2>3. /\ refunds'[r] = refunds[r] + g
        /\ \A x \in Requests \ {r} : refunds'[x] = refunds[x]
    BY <2>1, <2>2 DEF TypeOK
  <2>4. \A x \in Requests \ {r} : Net(x)' = Net(x)
    BY <2>2, <2>3 DEF Net
  <2>5. Net(r)' - Net(r) = g * amount[r] /\ g * amount[r] \in Int
    <3>1. Net(r)' = ((refunds[r] + g) - debits[r]) * amount[r]
      BY <2>2, <2>3 DEF Net
    <3>2. Net(r) = (refunds[r] - debits[r]) * amount[r]
      BY DEF Net
    <3>3. /\ ((refunds[r] + g) - debits[r]) * amount[r] - (refunds[r] - debits[r]) * amount[r]
               = g * amount[r]
          /\ g * amount[r] \in Int
      <4>1. CASE g = 0
        BY <2>1, <4>1
      <4>2. CASE g = 1
        BY <2>1, <4>2
      <4> QED BY <4>1, <4>2
    <3> QED BY <3>1, <3>2, <3>3, Zenon
  <2>6. NetSum' = NetSum + (Net(r)' - Net(r))
    BY <2>1, <2>4, NetSumMoves
  <2> PICK k \in Int : k = g * amount[r]
    BY <2>5, Zenon
  <2>7. NetSum' = NetSum + k
    BY <2>5, <2>6
  <2>8. balance' = balance + k /\ others' = others
    BY <2>2
  <2> QED BY <1>1, <1>2, <2>7, <2>8
<1>7. CASE OtherFunds
  <2>1. PICK m \in Moves : others' = others + m /\ balance' = balance + m
    BY <1>7 DEF OtherFunds
  <2>2. NetSum' = NetSum
    BY <1>7, NetSumSame DEF OtherFunds, Net, book
  <2>3. m \in Int
    BY AmountsAssumption
  <2> QED BY <1>1, <1>2, <2>1, <2>2, <2>3
<1> QED BY <1>3, <1>4, <1>5, <1>6, <1>7, WhoMoves

\* No movement of the balance is lost: it is what it started with, what other
\* services added, and every charge and refund committed, however administrators
\* overlap, and whatever crashes or fails.
THEOREM BalanceConserved == Spec => []BalanceIsConserved
<1>1. Init => BalanceIsConserved
  <2> SUFFICES ASSUME Init PROVE balance = Opening + others + NetSum
    BY Conserved DEF Explained
  <2>1. balance = Opening /\ others = 0 /\ Opening \in Int
    BY AmountsAssumption DEF Init
  <2>2. \A r \in Requests : NetTable[r] = 0
    BY DEF Init, NetTable, Net
  <2>3. NetSum = 0
    BY <2>2, SumZero, RequestsFinite DEF NetSum
  <2> QED BY <2>1, <2>3
<1>2. IInv /\ IInv' /\ BalanceIsConserved /\ [Next]_vars => BalanceIsConserved'
  BY ConservedKept DEF IInv
<1> QED BY <1>1, <1>2, Invariance, PTL DEF Spec

-----------------------------------------------------------------------------
(***************************************************************************)
(* One administrator at a time                                             *)
(***************************************************************************)

\* What the only call has read is still so.
Serial(a) ==
  /\ pc[a] \in {"funds", "debit"} => status[on[a]] = "PENDING"
  /\ pc[a] = "debit" => amount[on[a]] <= balance
  /\ pc[a] = "reject" => status[on[a]] = seen[a] /\ Rejectable(seen[a])
  /\ pc[a] = "send" => status[on[a]] = "APPROVED"

LEMMA SerialNext ==
  ASSUME NEW a, Admins = {a}, Moves \subseteq Nat, IInv, TypeOK', Serial(a), [Next]_vars
  PROVE  Serial(a)' /\ [Lifecycle!Next]_<<status, amount, balance, others>>
<1> USE DEF IInv, TypeOK
<1> DEFINE Same == UNCHANGED <<status, amount, balance, others>>
<1>1. on[a] \in Requests \cup {None} /\ (pc[a] # "idle" => on[a] \in Existing)
  BY DEF Handles
<1>2. CASE UNCHANGED vars
  BY <1>2 DEF vars, rows, env, local, Serial
<1>3. ASSUME NEW r \in Requests, NEW m \in Amounts, RequestWithdrawal(r, m)
      PROVE  Serial(a)' /\ Lifecycle!Next
  <2>1. status[r] = "ABSENT" /\ (pc[a] # "idle" => on[a] # r)
    BY <1>1, <1>3 DEF RequestWithdrawal, Existing
  <2>2. Serial(a)'
    BY <1>1, <1>3, <2>1 DEF RequestWithdrawal, book, env, local, Serial, Rejectable
  <2>3. Lifecycle!RequestIt(r)
    BY <1>3, <2>1 DEF RequestWithdrawal, env, Lifecycle!RequestIt
  <2> QED BY <2>2, <2>3 DEF Lifecycle!Next
<1>4. ASSUME NEW o \in Ops, NEW r \in Existing, Call(a, o, r)
      PROVE  Serial(a)' /\ Same
  BY <1>4 DEF Call, Goto, rows, env, Serial
<1>5. ASSUME Return(a), Same
      PROVE  Serial(a)' /\ Same
  BY <1>5 DEF Return, Goto, Serial
<1>6. ASSUME NEW label, NEW holds, NEW next, Check(a, label, holds, next),
             next \notin {"funds", "debit", "reject", "send"}
      PROVE  Serial(a)' /\ Same
  <2>1. Same
    BY <1>6 DEF Check, rows, env
  <2>2. CASE Goto(a, next)
    <3>1. pc'[a] = next
      BY <2>2 DEF Goto
    <3> QED BY <1>6, <2>1, <3>1 DEF Serial
  <2> QED BY <1>5, <1>6, <2>1, <2>2 DEF Check
<1>7. CASE Decide(a) \/ Guard(a) \/ Margin(a)
  BY <1>6, <1>7 DEF Decide, Guard, Margin
<1>8. CASE Recheck(a) \/ Funds(a) \/ CheckSend(a) \/ Open(a)
  <2>1. Same
    BY <1>8 DEF Recheck, Funds, CheckSend, Open, Check, rows, env
  <2>2. CASE Return(a)
    BY <1>5, <2>1, <2>2
  <2>3. CASE Recheck(a) /\ ~Return(a)
    BY <2>1, <2>3 DEF Recheck, Check, Goto, Serial, Approvable
  <2>4. CASE Funds(a) /\ ~Return(a)
    <3>1. amount[on[a]] <= balance /\ status[on[a]] = "PENDING"
      BY <2>4, <1>1, AmountNat DEF Funds, Check, Serial, Existing
    <3> QED BY <2>1, <2>4, <3>1 DEF Funds, Check, Goto, Serial
  <2>5. CASE CheckSend(a) /\ ~Return(a)
    BY <2>1, <2>5 DEF CheckSend, Check, Goto, Serial, Sendable
  <2>6. CASE Open(a) /\ ~Return(a)
    BY <2>1, <2>6 DEF Open, Goto, Serial
  <2> QED BY <1>8, <2>2, <2>3, <2>4, <2>5, <2>6
<1>9. CASE Debit(a)
  <2>1. on[a] \in Requests /\ status[on[a]] = "PENDING" /\ amount[on[a]] <= balance
    BY <1>1, <1>9 DEF Debit, Serial, Existing
  <2>2. Lifecycle!Approve(on[a])
    BY <1>9, <2>1 DEF Debit, env, Lifecycle!Approve
  <2>3. Serial(a)'
    BY <1>9 DEF Debit, Goto, Serial
  <2> QED BY <2>1, <2>2, <2>3 DEF Lifecycle!Next
<1>10. CASE Reject(a)
  <2>1. on[a] \in Requests /\ status[on[a]] = seen[a] /\ seen[a] \in {"PENDING", "APPROVED"}
    BY <1>1, <1>10 DEF Reject, Serial, Existing, Rejectable
  <2>2. amount[on[a]] \in Int
    BY <2>1, AmountNat
  <2>3. balance' = balance + IF status[on[a]] \in {"APPROVED", "SENT"} THEN amount[on[a]] ELSE 0
    BY <1>10, <2>1, <2>2 DEF Reject, GivesBack
  <2>4. Lifecycle!Reject(on[a])
    BY <1>10, <2>1, <2>3 DEF Reject, env, Lifecycle!Reject, Lifecycle!Charged
  <2>5. Serial(a)'
    BY <1>10 DEF Reject, Goto, Serial
  <2> QED BY <2>1, <2>4, <2>5 DEF Lifecycle!Next
<1>11. CASE Send(a)
  <2>1. on[a] \in Requests /\ status[on[a]] = "APPROVED"
    BY <1>1, <1>11 DEF Send, Serial, Existing
  <2>2. Lifecycle!Send(on[a])
    BY <1>11, <2>1 DEF Send, env, Lifecycle!Send
  <2>3. Serial(a)'
    BY <1>11 DEF Send, Goto, Serial
  <2> QED BY <2>1, <2>2, <2>3 DEF Lifecycle!Next
<1>12. CASE Sync(a) \/ CallFails(a)
  <2>1. Same /\ Return(a)
    BY <1>12 DEF Sync, CallFails, OneFault, rows, env
  <2> QED BY <1>5, <2>1
<1>13. CASE Crash
  BY <1>13 DEF Crash, OneFault, rows, Serial
<1>14. CASE OtherFunds
  <2>1. PICK m \in Moves : others' = others + m /\ balance' = balance + m
    BY <1>14 DEF OtherFunds
  <2>2. m \in Nat /\ balance \in Int /\ others \in Int
    BY <2>1
  <2>3. balance' = balance + (others' - others) /\ others' \in Int /\ balance <= balance'
    BY <2>1, <2>2
  <2>4. Lifecycle!OtherFunds
    BY <1>14, <2>3 DEF OtherFunds, Lifecycle!OtherFunds
  <2>5. pc[a] = "debit" => amount[on[a]] \in Int
    BY <1>1, AmountNat DEF Existing
  <2>6. Serial(a)'
    BY <1>14, <2>2, <2>3, <2>5 DEF OtherFunds, local, Serial, Rejectable
  <2> QED BY <2>4, <2>6 DEF Lifecycle!Next
<1>15. CASE TradingMoves
  BY <1>15 DEF TradingMoves, rows, local, Serial
<1>16. CASE AdminStep(a)
  BY <1>7, <1>8, <1>9, <1>10, <1>11, <1>12, <1>16 DEF AdminStep
<1> QED BY <1>2, <1>3, <1>4, <1>12, <1>13, <1>14, <1>15, <1>16 DEF Next

\* When one administrator decides at a time, and the balance is otherwise only
\* added to, withdrawals behave as WithdrawalLifecycle says, crashes and failing
\* calls included: charged once, refunded once, never overdrawn, final when sent
\* or rejected.
THEOREM SerialImplementsLifecycle ==
  ASSUME NEW CONSTANT a, Admins = {a}, Moves \subseteq Nat
  PROVE  Spec => ImplementsLifecycle
<1>1. Init => Serial(a) /\ Lifecycle!Init
  BY AmountsAssumption DEF Init, Serial, Lifecycle!Init
<1>2. IInv /\ IInv' /\ Serial(a) /\ [Next]_vars =>
        Serial(a)' /\ [Lifecycle!Next]_<<status, amount, balance, others>>
  BY SerialNext DEF IInv
<1> QED BY <1>1, <1>2, Invariance, PTL DEF Spec, ImplementsLifecycle, Lifecycle!Spec
-----------------------------------------------------------------------------
(***************************************************************************)
(* The linked transaction. Only between the commit of a decision and the   *)
(* end of its call does it tell something else than the request.           *)
(***************************************************************************)
Told(a) ==
  /\ pc[a] \in {"guard", "margin", "recheck", "funds", "debit"} => op[a] = "approve"
  /\ pc[a] \in {"open", "reject"} => op[a] = "reject"
  /\ pc[a] \in {"check", "send"} => op[a] = "send"
  /\ pc[a] = "sync" =>
       status[on[a]] = CASE op[a] = "approve" -> "APPROVED"
                         [] op[a] = "reject" -> "REJECTED"
                         [] op[a] = "send" -> "SENT"
  /\ faults = 0 =>
       \A r \in Existing :
         \/ pc[a] = "sync" /\ r = on[a]
         \/ entry[r] = CASE status[r] = "SENT" -> "COMPLETED" [] OTHER -> status[r]

\* As long as the account has no more withdrawals than are looked through.
LEMMA AllRecent ==
  ASSUME MaxRequests <= Window, NEW r \in Requests
  PROVE  Recent(r)
<1> DEFINE Newer == {x \in Existing : x > r}
<1>1. IsFiniteSet(1 .. MaxRequests) /\ Cardinality(1 .. MaxRequests) = MaxRequests
  BY FS_Interval, LimitsAssumption
<1>2. IsFiniteSet(Requests \ {r}) /\ Cardinality(Requests \ {r}) = MaxRequests - 1
  BY <1>1, FS_RemoveElement DEF Requests
<1>3. Newer \subseteq Requests \ {r}
  BY DEF Existing, Requests
<1>4. Cardinality(Newer) <= MaxRequests - 1 /\ Cardinality(Newer) \in Nat
  BY <1>2, <1>3, FS_Subset, FS_CardinalityType
<1> QED BY <1>4, LimitsAssumption DEF Recent

LEMMA ToldNext ==
  ASSUME NEW a, Admins = {a}, MaxRequests <= Window, IInv, TypeOK', Told(a), [Next]_vars
  PROVE  Told(a)'
<1> USE DEF IInv, TypeOK
<1>1. on[a] \in Requests \cup {None} /\ (pc[a] # "idle" => on[a] \in Existing)
  BY DEF Handles
<1>2. CASE UNCHANGED vars
  BY <1>2 DEF vars, rows, env, local, Told, Existing
<1>3. ASSUME NEW r \in Requests, NEW m \in Amounts, RequestWithdrawal(r, m)
      PROVE  Told(a)'
  <2>1. status[r] = "ABSENT" /\ (pc[a] # "idle" => on[a] # r)
    BY <1>1, <1>3 DEF RequestWithdrawal, Existing
  <2>2. /\ status' = [status EXCEPT ![r] = "PENDING"]
        /\ entry' = [entry EXCEPT ![r] = "PENDING"]
        /\ UNCHANGED <<faults, local>>
    BY <1>3 DEF RequestWithdrawal, env
  <2>3. status'[r] = "PENDING" /\ entry'[r] = "PENDING"
    BY <2>2
  <2>4. \A x \in Requests \ {r} : status'[x] = status[x] /\ entry'[x] = entry[x]
    BY <2>2
  <2> QED BY <1>1, <2>1, <2>2, <2>3, <2>4 DEF local, Told, Existing
<1>4. ASSUME NEW o \in Ops, NEW r \in Existing, Call(a, o, r)
      PROVE  Told(a)'
  BY <1>4 DEF Call, Goto, rows, env, Told, Existing, Ops
<1>5. ASSUME Return(a), UNCHANGED <<status, entry>>, pc[a] # "sync", faults' = 0 => faults = 0
      PROVE  Told(a)'
  BY <1>5 DEF Return, Goto, Told, Existing
<1>6. ASSUME NEW label, NEW holds, NEW next, Check(a, label, holds, next), label # "sync",
             \/ next \in {"guard", "margin", "recheck", "funds", "debit"} /\ op[a] = "approve"
             \/ next \in {"open", "reject"} /\ op[a] = "reject"
             \/ next = "send" /\ op[a] = "send"
      PROVE  Told(a)'
  <2>1. UNCHANGED <<status, entry, faults>> /\ pc[a] = label
    BY <1>6 DEF Check, rows, env
  <2>2. CASE Goto(a, next) /\ UNCHANGED <<op, on>>
    <3>1. pc'[a] = next
      BY <2>2 DEF Goto
    <3> QED BY <1>6, <2>1, <2>2, <3>1 DEF Told, Existing
  <2> QED BY <1>5, <1>6, <2>1, <2>2 DEF Check
<1>7. CASE Decide(a) \/ Guard(a) \/ Margin(a) \/ Recheck(a) \/ Funds(a) \/ CheckSend(a)
  BY <1>6, <1>7 DEF Decide, Guard, Margin, Recheck, Funds, CheckSend, Check, Told
<1>8. CASE Open(a)
  <2>1. UNCHANGED <<status, entry, faults>> /\ pc[a] = "open"
    BY <1>8 DEF Open, rows, env
  <2>2. CASE Goto(a, "reject") /\ UNCHANGED <<op, on>>
    BY <2>1, <2>2 DEF Goto, Told, Existing
  <2> QED BY <1>5, <1>8, <2>1, <2>2 DEF Open
<1>9. ASSUME NEW s \in Statuses, status' = [status EXCEPT ![on[a]] = s],
             pc[a] # "idle", Goto(a, "sync"), UNCHANGED <<entry, faults, op, on>>,
             s = CASE op[a] = "approve" -> "APPROVED"
                   [] op[a] = "reject" -> "REJECTED"
                   [] op[a] = "send" -> "SENT",
             pc[a] # "sync"
      PROVE  Told(a)'
  <2>1. on[a] \in Requests /\ on[a] \in Existing
    BY <1>1, <1>9 DEF Existing
  <2>2. status'[on[a]] = s /\ \A x \in Requests \ {on[a]} : status'[x] = status[x]
    BY <1>9, <2>1
  <2>3. pc'[a] = "sync"
    BY <1>9 DEF Goto
  <2> QED BY <1>9, <2>1, <2>2, <2>3 DEF Told, Existing
<1>10. CASE Debit(a) \/ Reject(a) \/ Send(a)
  BY <1>9, <1>10 DEF Debit, Reject, Send, env, Told, Statuses
<1>11. CASE Sync(a)
  <2>1. on[a] \in Requests /\ pc[a] = "sync"
    BY <1>1, <1>11 DEF Sync, Existing
  <2>2. entry' = [entry EXCEPT ![on[a]] = EntryFor(op[a])]
    BY <1>11, <2>1, AllRecent DEF Sync
  <2>3. /\ entry'[on[a]] = EntryFor(op[a])
        /\ \A x \in Requests \ {on[a]} : entry'[x] = entry[x]
    BY <2>1, <2>2
  <2>4. EntryFor(op[a]) =
          CASE status[on[a]] = "SENT" -> "COMPLETED" [] OTHER -> status[on[a]]
    BY <2>1 DEF EntryFor, Told, Ops
  <2>5. UNCHANGED <<status, faults>> /\ pc'[a] = "idle"
    BY <1>11 DEF Sync, Return, Goto, env
  <2> QED BY <2>1, <2>3, <2>4, <2>5 DEF Told, Existing
<1>12. CASE CallFails(a) \/ Crash
  <2>1. faults' # 0 /\ pc'[a] = "idle"
    BY <1>12 DEF CallFails, Crash, OneFault, Return, Goto
  <2> QED BY <2>1 DEF Told
<1>13. CASE OtherFunds \/ TradingMoves
  BY <1>13 DEF OtherFunds, TradingMoves, rows, local, Told, Existing
<1>14. CASE AdminStep(a)
  BY <1>7, <1>8, <1>10, <1>11, <1>14 DEF AdminStep
<1> QED BY <1>2, <1>3, <1>4, <1>12, <1>13, <1>14 DEF Next

\* When one administrator decides at a time, the linked transaction a client
\* sees tells the state of the request once the call that decided it has
\* answered, if nothing failed and the account has no more withdrawals than
\* syncLedgerTransaction looks through.
THEOREM EntryTold ==
  ASSUME NEW CONSTANT a, Admins = {a}, MaxRequests <= Window
  PROVE  Spec => []EntryTellsStatus
<1>1. Init => Told(a)
  BY DEF Init, Told, Existing
<1>2. IInv /\ IInv' /\ Told(a) /\ [Next]_vars => Told(a)'
  BY ToldNext DEF IInv
<1>3. Told(a) => EntryTellsStatus
  BY DEF Told, EntryTellsStatus
<1> QED BY <1>1, <1>2, <1>3, Invariance, PTL DEF Spec
=============================================================================
