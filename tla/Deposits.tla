------------------------------ MODULE Deposits ------------------------------
(***************************************************************************)
(* Deposits of one account on one network: transfers on the blockchain,    *)
(* the monitor that finds them (blockchain-monitor.service.ts), the wallet *)
(* transactions it ties them to or creates, and the administrators who     *)
(* decide on these (wallet.service.ts).                                    *)
(*                                                                         *)
(* The monitor is one process, an administrator's call is another. Every   *)
(* read is a step and the writes of a database transaction are one step,   *)
(* its commit; the deposit row a transaction of the monitor has updated    *)
(* stays locked until then, so an update of it from elsewhere waits.       *)
(***************************************************************************)
EXTENDS Integers, Sequences, FiniteSets

CONSTANTS
  Transfers,  \* transfers to the account's address
  Arriving,   \* the amount of each
  Requests,   \* what clients submit: transaction hash, amount, in time or not
  Required,   \* confirmations a transfer needs
  Admins,     \* concurrent calls of administrators
  MaxRequests,\* bound on what clients submit (the newest 100 rows are searched)
  MaxFaults   \* bound on crashes and failing calls

None  == 0   \* no transfer, no row
Often == 2   \* bound on the count of credits: twice or more
Hash == [of : Transfers \cup {None}, exact : BOOLEAN]

\* A hash names a transfer, spelled as the chain has it or in other case.
Exact(t) == [of |-> t, exact |-> TRUE]
NoHash   == Exact(None)

ASSUME ChainAssumption ==
  /\ Transfers \subseteq Nat \ {0}
  /\ Arriving \in [Transfers -> Nat]
  /\ Required \in Nat \ {0}

ASSUME RequestsAssumption ==
  Requests \subseteq [hash : [of : Transfers, exact : BOOLEAN] \cup {NoHash},
                      amount : Nat, timely : BOOLEAN]

ASSUME BoundsAssumption == MaxRequests \in Nat /\ MaxFaults \in Nat

VARIABLES
  conf,      \* confirmations of each transfer, -1 before it is on the chain
  deposit,   \* deposit.status of each, NONE before the row exists
  credited,  \* whether deposit.creditedAt is set
  rows,      \* wallet transactions of type DEPOSIT, oldest first, each with how
             \* often it was added to account.balance, up to Often
  faults,    \* crashes and failing calls so far
  scan,      \* where the monitor is
  todo,      \* detections of this scan not yet processed
  fetched,   \* the confirmations this scan was told
  work,      \* the transfer it processes
  match,     \* the row it ties it to, None to create one
  read,      \* the status that row had when it was read
  pc,        \* where each call of an administrator is
  on,        \* the row it decides on
  copy       \* that row as it has read it

tables  == <<deposit, credited, rows>>
monitor == <<scan, todo, fetched, work, match, read>>
local   == <<pc, on, copy>>
vars    == <<conf, tables, faults, monitor, local>>

DepositStatuses == {"NONE", "PENDING", "CONFIRMING", "COMPLETED"}
Statuses == {"PENDING", "APPROVED", "REJECTED"}
Confs    == {-1} \cup 0 .. Required
Row      == [status : Statuses, declared : BOOLEAN, given : Hash,
             linked : Transfers \cup {None}, ref : Hash, amount : Nat, timely : BOOLEAN,
             credits : 0 .. Often]
PCs      == {"idle", "reject", "recheck", "ready", "commit", "mark"}

\* extractTransactionHash: blockchainTxId, transactionHash, then the reference
HashOf(row) ==
  IF row.linked # None THEN Exact(row.linked)
  ELSE IF row.given # NoHash THEN row.given
  ELSE row.ref

NewRow(declared, given, linked, ref, amount, timely) ==
  [status |-> "PENDING", declared |-> declared, given |-> given, linked |-> linked,
   ref |-> ref, amount |-> amount, timely |-> timely, credits |-> 0]
NoRow == NewRow(FALSE, NoHash, None, NoHash, 0, FALSE)

Init ==
  /\ conf = [t \in Transfers |-> -1]
  /\ deposit = [t \in Transfers |-> "NONE"]
  /\ credited = [t \in Transfers |-> FALSE]
  /\ rows = <<>>
  /\ faults = 0
  /\ scan = "idle"
  /\ todo = {}
  /\ fetched = [t \in Transfers |-> -1]
  /\ work = None
  /\ match = None
  /\ read = "PENDING"
  /\ pc = [a \in Admins |-> "idle"]
  /\ on = [a \in Admins |-> None]
  /\ copy = [a \in Admins |-> NoRow]

-----------------------------------------------------------------------------
\* A transfer is mined, or gets more confirmations; past Required all are alike.
Confirm(t) ==
  /\ \E n \in conf[t] + 1 .. Required : conf' = [conf EXCEPT ![t] = n]
  /\ UNCHANGED <<tables, faults, monitor, local>>

\* The monitor creates rows too; they have no metadata of a client's.
Detected(row) == ~row.declared /\ row.given = NoHash

\* requestDeposit: without a hash the row is declaredByClient.
RequestDeposit(q) ==
  /\ Cardinality({r \in DOMAIN rows : ~Detected(rows[r])}) < MaxRequests
  /\ rows' = Append(rows, NewRow(q.hash = NoHash, q.hash, None, q.hash, q.amount, q.timely))
  /\ UNCHANGED <<conf, deposit, credited, faults, monitor, local>>

-----------------------------------------------------------------------------
(***************************************************************************)
(* The monitor. isRunning keeps scans apart; a scan asks for the transfers *)
(* to the address and processes them one after the other.                  *)
(***************************************************************************)
StartScan ==
  /\ scan = "idle"
  /\ scan' = "next"
  /\ todo' = {t \in Transfers : conf[t] >= 0}
  /\ fetched' = conf
  /\ UNCHANGED <<conf, tables, faults, work, match, read, local>>

StopScan ==
  /\ scan' = "idle"
  /\ todo' = {}
  /\ fetched' = [t \in Transfers |-> -1]
  /\ work' = None
  /\ match' = None
  /\ read' = "PENDING"

EndScan ==
  /\ scan = "next" /\ todo = {}
  /\ StopScan
  /\ UNCHANGED <<conf, tables, faults, local>>

\* Mutant: a deposit that was recorded before is passed over.
SettledOnceRecorded(t) == deposit[t] # "NONE"
Settled(t) == credited[t]

\* processDeposit looks the deposit up; one that is credited is passed over.
Look(t) ==
  /\ scan = "next" /\ t \in todo
  /\ todo' = todo \ {t}
  /\ \/ /\ Settled(t)
        /\ UNCHANGED <<scan, work>>
     \/ /\ ~Settled(t)
        /\ work' = t
        /\ scan' = "match"
  /\ UNCHANGED <<conf, tables, faults, fetched, match, read, local>>

\* isPendingDepositCandidateMatch
Candidate(row, t) ==
  /\ row.status = "PENDING"
  /\ HashOf(row).of = None
  /\ row.amount = Arriving[t]
  /\ row.timely

\* Mutant: only what is still to be decided is matched by its hash.
ByHashPending(t)  == {r \in DOMAIN rows : HashOf(rows[r]).of = t /\ rows[r].status = "PENDING"}
ByHash(t)         == {r \in DOMAIN rows : HashOf(rows[r]).of = t}
Candidates(t)     == {r \in DOMAIN rows : Candidate(rows[r], t)}

Newest(S) == {r \in S : \A x \in S : x <= r}

\* findMatchingDepositLedgerTransaction: the newest with the hash, in any
\* spelling, else the newest candidate.
Matching(t) ==
  IF ByHash(t) # {} THEN Newest(ByHash(t))
  ELSE IF Candidates(t) # {} THEN Newest(Candidates(t))
  ELSE {None}

\* In the transaction: the deposit row is written, then the rows are searched.
MatchRow ==
  /\ scan = "match"
  /\ \E m \in Matching(work) :
       /\ match' = m
       /\ read' = IF m = None THEN "PENDING" ELSE rows[m].status
  /\ scan' = "commit"
  /\ UNCHANGED <<conf, tables, faults, todo, fetched, work, local>>

\* Mutant: a deposit with all its confirmations is given the row's status.
DepositStatusOfRow(n) == IF n >= Required THEN "APPROVED" ELSE "PENDING"
DepositStatus(n) ==
  IF n >= Required THEN "COMPLETED" ELSE IF n > 0 THEN "CONFIRMING" ELSE "PENDING"

\* Mutant: the reference stays what the client gave.
TiedKeepingReference(row, t, status) == [row EXCEPT !.status = status, !.linked = t]

\* The row with the hash, and with the status that was read.
Tied(row, t, status) == [row EXCEPT !.status = status, !.linked = t, !.ref = Exact(t)]

CommitMatch ==
  /\ scan = "commit"
  /\ \/ match # None
        /\ rows' = [rows EXCEPT ![match] = Tied(rows[match], work, read)]
     \/ match = None
        /\ rows' = Append(rows, NewRow(FALSE, NoHash, work, Exact(work), Arriving[work], TRUE))
  /\ deposit' = [deposit EXCEPT ![work] = DepositStatus(fetched[work])]
  /\ credited' = [credited EXCEPT ![work] = FALSE]
  /\ scan' = "next"
  /\ work' = None
  /\ match' = None
  /\ read' = "PENDING"
  /\ UNCHANGED <<conf, faults, todo, fetched, local>>

-----------------------------------------------------------------------------
(***************************************************************************)
(* decideTransaction                                                       *)
(***************************************************************************)
Goto(a, label) == pc' = [pc EXCEPT ![a] = label]

Return(a) ==
  /\ Goto(a, "idle")
  /\ on' = [on EXCEPT ![a] = None]
  /\ copy' = [copy EXCEPT ![a] = NoRow]

Decide(a, r, label) ==
  /\ pc[a] = "idle"
  /\ rows[r].status = "PENDING"
  /\ Goto(a, label)
  /\ on' = [on EXCEPT ![a] = r]
  /\ copy' = [copy EXCEPT ![a] = rows[r]]
  /\ UNCHANGED <<conf, tables, faults, monitor>>

\* What update writes: the status, and the metadata that was read.
Decided(a, status) == [rows[on[a]] EXCEPT !.status = status, !.linked = copy[a].linked]

\* update by id: whatever became of the row since it was read, it is rejected.
Reject(a) ==
  /\ pc[a] = "reject"
  /\ rows' = [rows EXCEPT ![on[a]] = Decided(a, "REJECTED")]
  /\ Return(a)
  /\ UNCHANGED <<conf, deposit, credited, faults, monitor>>

\* In the transaction: the row is read again, and must still be PENDING.
Recheck(a) ==
  /\ pc[a] = "recheck"
  /\ \/ /\ rows[on[a]].status = "PENDING"
        /\ copy' = [copy EXCEPT ![a] = rows[on[a]]]
        /\ Goto(a, "ready")
        /\ UNCHANGED on
     \/ /\ rows[on[a]].status # "PENDING"
        /\ Return(a)
  /\ UNCHANGED <<conf, tables, faults, monitor>>

\* Mutant: any deposit that was detected will do.
ReadyWhenDetected(row) ==
  \/ row.declared
  \/ LET t == HashOf(row).of IN t # None /\ deposit[t] # "NONE" /\ ~credited[t]

\* assertDepositReadyForApproval: what the client declared is up to the
\* administrator; anything else is a deposit that is complete and not credited.
Ready(row) ==
  \/ row.declared
  \/ LET t == HashOf(row).of
     IN  t # None /\ deposit[t] = "COMPLETED" /\ ~credited[t]

CheckReady(a) ==
  /\ pc[a] = "ready"
  /\ \/ /\ Ready(copy[a])
        /\ Goto(a, "commit")
        /\ UNCHANGED <<on, copy>>
     \/ /\ ~Ready(copy[a])
        /\ Return(a)
  /\ UNCHANGED <<conf, tables, faults, monitor>>

\* The account is credited, the row approved.
Approve(a) ==
  /\ pc[a] = "commit"
  /\ rows' = [rows EXCEPT ![on[a]] = [Decided(a, "APPROVED") EXCEPT !.credits = IF @ < Often THEN @ + 1 ELSE @]]
  /\ copy' = [copy EXCEPT ![a] = Decided(a, "APPROVED")]
  /\ Goto(a, "mark")
  /\ UNCHANGED <<conf, deposit, credited, faults, monitor, on>>

\* The monitor's transaction has written the deposit row and not committed.
Locked(t) == scan = "commit" /\ work = t /\ deposit[t] # "NONE"

\* What markDepositAsCredited leaves: it takes the hash as it is spelled.
CreditedBy(a) ==
  LET h == HashOf(copy[a])
  IN  IF h.of # None /\ h.exact /\ deposit[h.of] # "NONE"
      THEN [credited EXCEPT ![h.of] = TRUE]
      ELSE credited

MarkDepositAsCredited(a) ==
  /\ pc[a] = "mark"
  /\ ~Locked(HashOf(copy[a]).of)
  /\ credited' = CreditedBy(a)
  /\ Return(a)
  /\ UNCHANGED <<conf, deposit, rows, faults, monitor>>

-----------------------------------------------------------------------------
OneFault ==
  /\ faults < MaxFaults
  /\ faults' = faults + 1
  /\ UNCHANGED <<conf, tables>>

\* A call of an administrator fails; its open transaction is rolled back.
CallFails(a) ==
  /\ pc[a] # "idle"
  /\ OneFault
  /\ Return(a)
  /\ UNCHANGED monitor

\* So does the monitor; the rest of its scan is not processed.
ScanFails ==
  /\ scan # "idle"
  /\ OneFault
  /\ StopScan
  /\ UNCHANGED local

Crash ==
  /\ scan # "idle" \/ \E a \in Admins : pc[a] # "idle"
  /\ OneFault
  /\ StopScan
  /\ pc' = [a \in Admins |-> "idle"]
  /\ on' = [a \in Admins |-> None]
  /\ copy' = [a \in Admins |-> NoRow]

AdminStep(a) ==
  \/ \E r \in DOMAIN rows : Decide(a, r, "recheck") \/ Decide(a, r, "reject")
  \/ Reject(a) \/ Recheck(a) \/ CheckReady(a) \/ Approve(a) \/ MarkDepositAsCredited(a)

MonitorStep ==
  StartScan \/ EndScan \/ MatchRow \/ CommitMatch \/ \E t \in Transfers : Look(t)

Next ==
  \/ \E t \in Transfers : Confirm(t)
  \/ \E q \in Requests : RequestDeposit(q)
  \/ MonitorStep
  \/ \E a \in Admins : AdminStep(a) \/ CallFails(a)
  \/ ScanFails \/ Crash

Spec == Init /\ [][Next]_vars

\* The timer starts scan after scan, and what a scan awaits comes back.
FairSpec == Spec /\ WF_vars(MonitorStep)

-----------------------------------------------------------------------------
TypeOK ==
  /\ conf \in [Transfers -> Confs]
  /\ deposit \in [Transfers -> DepositStatuses]
  /\ credited \in [Transfers -> BOOLEAN]
  /\ rows \in Seq(Row)
  /\ faults \in 0 .. MaxFaults
  /\ scan \in {"idle", "next", "match", "commit"}
  /\ todo \in SUBSET Transfers
  /\ fetched \in [Transfers -> Confs]
  /\ work \in Transfers \cup {None}
  /\ match \in DOMAIN rows \cup {None}
  /\ read \in Statuses
  /\ pc \in [Admins -> PCs]
  /\ on \in [Admins -> DOMAIN rows \cup {None}]
  /\ copy \in [Admins -> Row]

(***************************************************************************)
(* What holds however the monitor and administrators interleave.           *)
(***************************************************************************)

\* Unless the client only declared it, a row is credited for a transfer that
\* is on the chain with all its confirmations.
OnChainBeforeCredit ==
  \A r \in DOMAIN rows :
    rows[r].credits > 0 =>
      \/ rows[r].declared
      \/ LET t == HashOf(rows[r]).of IN t # None /\ conf[t] = Required

\* A row once tied to a transfer stays tied to it, although the monitor and
\* the administrator overwrite each other's metadata.
HashIsKept ==
  [][\A r \in DOMAIN rows :
       HashOf(rows[r]).of # None => HashOf(rows'[r]).of = HashOf(rows[r]).of]_vars

\* The monitor creates at most one row for a transfer, however often it scans.
OneDetectedRow ==
  \A r, s \in DOMAIN rows :
    Detected(rows[r]) /\ Detected(rows[s]) /\ HashOf(rows[r]).of = HashOf(rows[s]).of => r = s

(***************************************************************************)
(* What the repository says of the code and does not hold.                 *)
(***************************************************************************)

\* docs/idempotency-review.md: "only pending requests can transition".
ApprovedIsFinal ==
  [][\A r \in DOMAIN rows : rows[r].status = "APPROVED" => rows'[r].status = "APPROVED"]_vars

\* wallet.service.ts: 'Deposit has already been credited'. A row that was not
\* just declared is credited once.
RowCreditedOnce == \A r \in DOMAIN rows : rows[r].declared \/ rows[r].credits <= 1

\* The same, across rows: a transfer is credited through one of them.
OneCreditPerTransfer ==
  \A r, s \in DOMAIN rows :
    /\ rows[r].credits > 0 /\ rows[s].credits > 0
    /\ HashOf(rows[r]).of # None
    /\ HashOf(rows[r]).of = HashOf(rows[s]).of
    => r = s

(***************************************************************************)
(* Liveness, under FairSpec                                                *)
(***************************************************************************)

\* Every transfer that gets all its confirmations has a row to decide on, and
\* a deposit that allows approving it, unless it is credited already.
FinalIsReviewable ==
  \A t \in Transfers :
    conf[t] = Required ~>
      /\ \E r \in DOMAIN rows : HashOf(rows[r]).of = t
      /\ deposit[t] = "COMPLETED" \/ credited[t]
=============================================================================
