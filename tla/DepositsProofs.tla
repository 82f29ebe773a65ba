--------------------------- MODULE DepositsProofs ---------------------------
(***************************************************************************)
(* Theorems of Deposits, proved for every set of transfers and requests,   *)
(* any number of administrators, scans and faults.                         *)
(*                                                                         *)
(* The monitor and administrators write back metadata they have read       *)
(* before, so a row may lose the link the monitor gave it. The argument is *)
(* that its reference is never written back: it always names the transfer  *)
(* that whatever else the row holds names, and so does any copy of it.     *)
(***************************************************************************)
EXTENDS Deposits, TLAPS

-----------------------------------------------------------------------------
(***************************************************************************)
(* The hash of a row                                                       *)
(***************************************************************************)

\* The link and what the client gave name the transfer the reference names.
Coherent(row) ==
  /\ row.linked # None => row.ref = Exact(row.linked)
  /\ row.given # NoHash => row.given.of # None /\ row.given.of = row.ref.of

LEMMA HashIsReference ==
  ASSUME NEW row \in Row, Coherent(row)
  PROVE  HashOf(row).of = row.ref.of
BY DEF HashOf, Coherent, Exact

LEMMA NewRowType ==
  ASSUME NEW d \in BOOLEAN, NEW g \in Hash, NEW l \in Transfers \cup {None},
         NEW f \in Hash, NEW m \in Nat, NEW y \in BOOLEAN
  PROVE  NewRow(d, g, l, f, m, y) \in Row
BY DEF NewRow, Row, Statuses, Often

LEMMA NoRowType == NoRow \in Row
BY NewRowType DEF NoRow, NoHash, Exact, Hash

LEMMA ExactType == \A t \in Transfers \cup {None} : Exact(t) \in Hash
BY DEF Exact, Hash

LEMMA RequestType ==
  ASSUME NEW q \in Requests
  PROVE  /\ q.hash \in Hash /\ q.amount \in Nat /\ q.timely \in BOOLEAN
         /\ q.hash # NoHash => q.hash.of # None
<1> DEFINE Named == [of : Transfers, exact : BOOLEAN]
<1>1. q \in [hash : Named \cup {NoHash}, amount : Nat, timely : BOOLEAN]
  BY RequestsAssumption
<1>2. q.hash \in Named \cup {NoHash} /\ q.amount \in Nat /\ q.timely \in BOOLEAN
  <2> HIDE DEF Named
  <2> QED BY <1>1
<1>3. NoHash \in Hash /\ \A h \in Named : h \in Hash /\ h.of # None
  BY ChainAssumption DEF Hash, NoHash, Exact, None
<1> QED BY <1>2, <1>3

LEMMA TiedRow ==
  ASSUME NEW row \in Row, Coherent(row), NEW t \in Transfers, NEW status \in Statuses,
         row.ref.of \in {None, t}
  PROVE  /\ Tied(row, t, status) \in Row
         /\ Coherent(Tied(row, t, status))
         /\ Tied(row, t, status).ref = Exact(t)
<1>1. Tied(row, t, status) \in Row
  BY ExactType DEF Tied, Row
<1>2. t # None /\ row.linked \in Transfers \cup {None}
  BY ChainAssumption DEF None, Row
<1>3. row.given # NoHash => row.given.of = t
  BY DEF Coherent
<1> QED BY <1>1, <1>2, <1>3 DEF Tied, Coherent, Exact, Row

-----------------------------------------------------------------------------
(***************************************************************************)
(* Types                                                                   *)
(***************************************************************************)

\* Who is at work knows what it works on.
Engaged ==
  /\ scan \in {"match", "commit"} => work \in Transfers
  /\ \A a \in Admins : pc[a] # "idle" => on[a] \in DOMAIN rows

LEMMA InitType == Init => TypeOK /\ Engaged
<1> SUFFICES ASSUME Init PROVE TypeOK /\ Engaged
  OBVIOUS
<1>1. copy \in [Admins -> Row]
  BY NoRowType DEF Init
<1>2. rows \in Seq(Row)
  BY DEF Init
<1>3. conf \in [Transfers -> Confs] /\ fetched \in [Transfers -> Confs]
  BY DEF Init, Confs
<1> QED BY <1>1, <1>2, <1>3, BoundsAssumption
        DEF Init, TypeOK, Engaged, DepositStatuses, Statuses, PCs

\* Rows are added and updated, never removed.
LEMMA RowsGrow ==
  ASSUME rows \in Seq(Row), NEW row \in Row, rows' = Append(rows, row)
  PROVE  /\ rows' \in Seq(Row)
         /\ DOMAIN rows' = 1 .. Len(rows) + 1
         /\ DOMAIN rows = 1 .. Len(rows)
         /\ DOMAIN rows \subseteq DOMAIN rows'
         /\ \A r \in DOMAIN rows : rows'[r] = rows[r]
         /\ rows'[Len(rows) + 1] = row
OBVIOUS

LEMMA RowsUpdated ==
  ASSUME rows \in Seq(Row), NEW r \in DOMAIN rows, NEW row \in Row,
         rows' = [rows EXCEPT ![r] = row]
  PROVE  /\ rows' \in Seq(Row)
         /\ DOMAIN rows' = DOMAIN rows
         /\ rows'[r] = row
         /\ \A x \in DOMAIN rows : x # r => rows'[x] = rows[x]
OBVIOUS

LEMMA RowOf == TypeOK => \A r \in DOMAIN rows : rows[r] \in Row
BY DEF TypeOK

LEMMA DecidedType ==
  ASSUME TypeOK, NEW a \in Admins, on[a] \in DOMAIN rows, NEW status \in Statuses
  PROVE  Decided(a, status) \in Row
<1>1. rows[on[a]] \in Row /\ copy[a] \in Row
  BY RowOf DEF TypeOK
<1> QED BY <1>1 DEF Decided, Row

\* Return only touches what is local to the call.
LEMMA ReturnType ==
  ASSUME TypeOK, Engaged, NEW a \in Admins, Return(a)
  PROVE  /\ pc' \in [Admins -> PCs]
         /\ on' \in [Admins -> DOMAIN rows \cup {None}]
         /\ copy' \in [Admins -> Row]
         /\ \A x \in Admins : pc'[x] # "idle" =>
               x # a /\ pc'[x] = pc[x] /\ on'[x] = on[x] /\ copy'[x] = copy[x]
BY NoRowType DEF Return, Goto, TypeOK, PCs

LEMMA StopScanType ==
  ASSUME TypeOK, StopScan, UNCHANGED rows
  PROVE  /\ scan' \in {"idle", "next", "match", "commit"}
         /\ todo' \in SUBSET Transfers
         /\ fetched' \in [Transfers -> Confs]
         /\ work' \in Transfers \cup {None}
         /\ match' \in DOMAIN rows' \cup {None}
         /\ read' \in Statuses
         /\ scan' \notin {"match", "commit"}
BY DEF StopScan, Confs, Statuses

LEMMA MatchingType ==
  ASSUME TypeOK, NEW m \in Matching(work)
  PROVE  m \in DOMAIN rows \cup {None}
BY DEF Matching, Newest, ByHash, Candidates

\* No row has index None.
LEMMA NoRowIsNone == TypeOK => None \notin DOMAIN rows
BY DEF TypeOK, None

LEMMA MonitorType ==
  ASSUME TypeOK, Engaged, MonitorStep
  PROVE  TypeOK' /\ Engaged'
<1>1. CASE StartScan
  <2>1. {t \in Transfers : conf[t] >= 0} \in SUBSET Transfers
    OBVIOUS
  <2> QED BY <1>1, <2>1 DEF StartScan, tables, local, TypeOK, Engaged
<1>2. CASE EndScan
  <2>1. UNCHANGED <<conf, deposit, credited, rows, faults, pc, on, copy>> /\ StopScan
    BY <1>2 DEF EndScan, tables, local
  <2> QED BY <2>1, StopScanType DEF TypeOK, Engaged
<1>3. ASSUME NEW t \in Transfers, Look(t)
      PROVE  TypeOK' /\ Engaged'
  BY <1>3 DEF Look, tables, local, TypeOK, Engaged
<1>4. CASE MatchRow
  <2>1. PICK m \in Matching(work) :
          match' = m /\ read' = IF m = None THEN "PENDING" ELSE rows[m].status
    BY <1>4 DEF MatchRow
  <2>2. m \in DOMAIN rows \cup {None}
    BY MatchingType
  <2>3. match' \in DOMAIN rows \cup {None} /\ read' \in Statuses
    BY <2>1, <2>2, RowOf DEF Row, Statuses
  <2> QED BY <1>4, <2>3 DEF MatchRow, tables, local, TypeOK, Engaged
<1>5. CASE CommitMatch
  <2> USE <1>5 DEF CommitMatch
  <2>1. work \in Transfers
    BY DEF Engaged
  <2>2. deposit' \in [Transfers -> DepositStatuses] /\ credited' \in [Transfers -> BOOLEAN]
    BY <2>1 DEF TypeOK, DepositStatus, DepositStatuses
  <2>3. rows' \in Seq(Row) /\ DOMAIN rows \subseteq DOMAIN rows'
    <3>1. CASE match # None /\ rows' = [rows EXCEPT ![match] = Tied(rows[match], work, read)]
      <4>1. match \in DOMAIN rows /\ rows[match] \in Row
        BY <3>1, RowOf DEF TypeOK
      <4>2. Tied(rows[match], work, read) \in Row
        BY <4>1, <2>1, ExactType DEF Tied, Row, TypeOK
      <4> QED BY <3>1, <4>1, <4>2, RowsUpdated DEF TypeOK
    <3>2. CASE rows' = Append(rows, NewRow(FALSE, NoHash, work, Exact(work), Arriving[work], TRUE))
      <4>1. NewRow(FALSE, NoHash, work, Exact(work), Arriving[work], TRUE) \in Row
        BY <2>1, ExactType, NewRowType, ChainAssumption DEF NoHash
      <4> QED BY <3>2, <4>1, RowsGrow DEF TypeOK
    <3> QED BY <3>1, <3>2
  <2>4. scan' = "next" /\ work' = None /\ match' = None /\ read' = "PENDING"
        /\ UNCHANGED <<conf, faults, todo, fetched, pc, on, copy>>
    BY DEF local
  <2> QED BY <2>2, <2>3, <2>4 DEF TypeOK, Engaged, Statuses
<1> QED BY <1>1, <1>2, <1>3, <1>4, <1>5 DEF MonitorStep

LEMMA AdminType ==
  ASSUME TypeOK, Engaged, NEW a \in Admins, AdminStep(a)
  PROVE  TypeOK' /\ Engaged'
<1>1. ASSUME NEW r \in DOMAIN rows, NEW label \in {"recheck", "reject"}, Decide(a, r, label)
      PROVE  TypeOK' /\ Engaged'
  BY <1>1, RowOf DEF Decide, Goto, tables, monitor, TypeOK, Engaged, PCs
<1>2. CASE Reject(a)
  <2>1. Decided(a, "REJECTED") \in Row /\ on[a] \in DOMAIN rows
    BY <1>2, DecidedType DEF Reject, Engaged, Statuses
  <2>2. rows' \in Seq(Row) /\ DOMAIN rows' = DOMAIN rows
    BY <1>2, <2>1, RowsUpdated DEF Reject, TypeOK
  <2>3. Return(a) /\ UNCHANGED <<conf, deposit, credited, faults, scan, todo, fetched, work, match, read>>
    BY <1>2 DEF Reject, monitor
  <2> QED BY <2>2, <2>3, ReturnType DEF TypeOK, Engaged
<1>3. CASE Recheck(a)
  <2>1. UNCHANGED <<conf, deposit, credited, rows, faults, scan, todo, fetched, work, match, read>>
        /\ on[a] \in DOMAIN rows
    BY <1>3 DEF Recheck, tables, monitor, Engaged
  <2>2. CASE copy' = [copy EXCEPT ![a] = rows[on[a]]] /\ Goto(a, "ready") /\ UNCHANGED on
    BY <2>1, <2>2, RowOf DEF Goto, TypeOK, Engaged, PCs
  <2>3. CASE Return(a)
    BY <2>1, <2>3, ReturnType DEF TypeOK, Engaged
  <2> QED BY <1>3, <2>2, <2>3 DEF Recheck
<1>4. CASE CheckReady(a)
  <2>1. UNCHANGED <<conf, deposit, credited, rows, faults, scan, todo, fetched, work, match, read>>
        /\ on[a] \in DOMAIN rows
    BY <1>4 DEF CheckReady, tables, monitor, Engaged
  <2>2. CASE Goto(a, "commit") /\ UNCHANGED <<on, copy>>
    BY <2>1, <2>2 DEF Goto, TypeOK, Engaged, PCs
  <2>3. CASE Return(a)
    BY <2>1, <2>3, ReturnType DEF TypeOK, Engaged
  <2> QED BY <1>4, <2>2, <2>3 DEF CheckReady
<1>5. CASE Approve(a)
  <2> DEFINE paid == [Decided(a, "APPROVED") EXCEPT !.credits = IF @ < Often THEN @ + 1 ELSE @]
  <2>1. Decided(a, "APPROVED") \in Row /\ on[a] \in DOMAIN rows
    BY <1>5, DecidedType DEF Approve, Engaged, Statuses
  <2>2. paid \in Row
    BY <2>1 DEF Row, Often
  <2>3. rows' = [rows EXCEPT ![on[a]] = paid]
    BY <1>5 DEF Approve
  <2>4. rows' \in Seq(Row) /\ DOMAIN rows' = DOMAIN rows
    <3> HIDE DEF paid
    <3> QED BY <2>1, <2>2, <2>3, RowsUpdated DEF TypeOK
  <2> QED BY <1>5, <2>1, <2>4 DEF Approve, Goto, monitor, TypeOK, Engaged, PCs
<1>6. CASE MarkDepositAsCredited(a)
  <2>1. credited' \in [Transfers -> BOOLEAN]
    BY <1>6 DEF MarkDepositAsCredited, CreditedBy, TypeOK
  <2>2. Return(a) /\ UNCHANGED <<conf, deposit, rows, faults, scan, todo, fetched, work, match, read>>
    BY <1>6 DEF MarkDepositAsCredited, monitor
  <2> QED BY <2>1, <2>2, ReturnType DEF TypeOK, Engaged
<1> QED BY <1>1, <1>2, <1>3, <1>4, <1>5, <1>6 DEF AdminStep

LEMMA TypeNext == TypeOK /\ Engaged /\ [Next]_vars => TypeOK' /\ Engaged'
<1> SUFFICES ASSUME TypeOK, Engaged, [Next]_vars PROVE TypeOK' /\ Engaged'
  OBVIOUS
<1>1. ASSUME NEW t \in Transfers, Confirm(t)
      PROVE  TypeOK' /\ Engaged'
  <2>1. conf' \in [Transfers -> Confs]
    <3>1. PICK n \in conf[t] + 1 .. Required : conf' = [conf EXCEPT ![t] = n]
      BY <1>1 DEF Confirm
    <3>2. n \in Confs
      BY ChainAssumption DEF TypeOK, Confs
    <3> QED BY <3>1, <3>2 DEF TypeOK
  <2> QED BY <1>1, <2>1 DEF Confirm, tables, monitor, local, TypeOK, Engaged
<1>2. ASSUME NEW q \in Requests, RequestDeposit(q)
      PROVE  TypeOK' /\ Engaged'
  <2> DEFINE new == NewRow(q.hash = NoHash, q.hash, None, q.hash, q.amount, q.timely)
  <2>1. new \in Row
    BY RequestType, NewRowType
  <2>2. rows' = Append(rows, new)
    BY <1>2 DEF RequestDeposit
  <2>3. rows' \in Seq(Row) /\ DOMAIN rows \subseteq DOMAIN rows'
    <3> HIDE DEF new
    <3> QED BY <2>1, <2>2, RowsGrow DEF TypeOK
  <2> QED BY <1>2, <2>3 DEF RequestDeposit, monitor, local, TypeOK, Engaged
<1>3. CASE MonitorStep
  BY <1>3, MonitorType
<1>4. ASSUME NEW a \in Admins, AdminStep(a)
      PROVE  TypeOK' /\ Engaged'
  BY <1>4, AdminType
<1>5. ASSUME NEW a \in Admins, CallFails(a)
      PROVE  TypeOK' /\ Engaged'
  <2>1. Return(a) /\ UNCHANGED <<conf, deposit, credited, rows, scan, todo, fetched, work, match, read>>
        /\ faults' \in 0 .. MaxFaults
    BY <1>5, BoundsAssumption DEF CallFails, OneFault, tables, monitor, TypeOK
  <2> QED BY <2>1, ReturnType DEF TypeOK, Engaged
<1>6. CASE ScanFails
  <2>1. StopScan /\ UNCHANGED <<conf, deposit, credited, rows, pc, on, copy>>
        /\ faults' \in 0 .. MaxFaults
    BY <1>6, BoundsAssumption DEF ScanFails, OneFault, tables, local, TypeOK
  <2> QED BY <2>1, StopScanType DEF TypeOK, Engaged
<1>7. CASE Crash
  <2>1. StopScan /\ UNCHANGED <<conf, deposit, credited, rows>> /\ faults' \in 0 .. MaxFaults
    BY <1>7, BoundsAssumption DEF Crash, OneFault, tables, TypeOK
  <2>2. pc' = [a \in Admins |-> "idle"] /\ on' = [a \in Admins |-> None]
        /\ copy' = [a \in Admins |-> NoRow]
    BY <1>7 DEF Crash
  <2>3. pc' \in [Admins -> PCs] /\ copy' \in [Admins -> Row]
    BY <2>2, NoRowType DEF PCs
  <2> QED BY <2>1, <2>2, <2>3, StopScanType DEF TypeOK, Engaged
<1>8. CASE UNCHANGED vars
  BY <1>8 DEF vars, tables, monitor, local, TypeOK, Engaged
<1> QED BY <1>1, <1>2, <1>3, <1>4, <1>5, <1>6, <1>7, <1>8 DEF Next

\* Every state the service reaches is well typed.
THEOREM TypeCorrect == Spec => []TypeOK
<1>1. Spec => [](TypeOK /\ Engaged)
  BY InitType, TypeNext, PTL DEF Spec
<1> QED BY <1>1, PTL

-----------------------------------------------------------------------------
(***************************************************************************)
(* What rows, copies of them and the monitor's match have in common        *)
(***************************************************************************)

AllCoherent == \A r \in DOMAIN rows : Coherent(rows[r])

\* What a call has read of a row is still true of the row, but for its status
\* and for a transfer it was tied to since.
Resembles(old, row) ==
  /\ Coherent(old)
  /\ old.declared = row.declared
  /\ old.ref.of # None => row.ref.of = old.ref.of
  /\ old.linked # None => row.ref = Exact(old.linked)

CopiesResemble ==
  \A a \in Admins : pc[a] \notin {"idle", "mark"} => Resembles(copy[a], rows[on[a]])

\* The monitor has matched a row no transfer but its own is tied to, or none.
MatchFits ==
  scan = "commit" =>
    /\ match # None => rows[match].ref.of \in {None, work}
    /\ match = None => \A r \in DOMAIN rows : Detected(rows[r]) => rows[r].ref.of # work

Links == AllCoherent /\ CopiesResemble /\ MatchFits

\* How a row may change: not what the client said, and its reference only by
\* being tied, for good.
Evolves(row, new) ==
  /\ new \in Row
  /\ new.declared = row.declared /\ new.given = row.given
  /\ \/ new.ref = row.ref
     \/ \E t \in Transfers : row.ref.of \in {None, t} /\ new.ref = Exact(t)
  /\ Coherent(row) => Coherent(new)

RowsEvolve ==
  \A r \in DOMAIN rows : r \in DOMAIN rows' /\ Evolves(rows[r], rows'[r])

LEMMA SameRows ==
  ASSUME TypeOK, UNCHANGED rows
  PROVE  RowsEvolve
BY RowOf DEF RowsEvolve, Evolves

LEMMA AddedRow ==
  ASSUME TypeOK, NEW row \in Row, rows' = Append(rows, row)
  PROVE  RowsEvolve
BY RowOf, RowsGrow DEF RowsEvolve, Evolves, TypeOK

LEMMA ChangedRow ==
  ASSUME TypeOK, NEW r \in DOMAIN rows, NEW row, Evolves(rows[r], row),
         rows' = [rows EXCEPT ![r] = row]
  PROVE  RowsEvolve
<1>1. row \in Row
  BY DEF Evolves
<1>2. /\ DOMAIN rows' = DOMAIN rows
      /\ rows'[r] = row
      /\ \A x \in DOMAIN rows : x # r => rows'[x] = rows[x]
  BY <1>1, RowsUpdated DEF TypeOK
<1> QED BY <1>2, RowOf DEF RowsEvolve, Evolves

LEMMA DecidedEvolves ==
  ASSUME TypeOK, Engaged, Links, NEW a \in Admins, pc[a] \in {"reject", "commit"},
         NEW status \in Statuses
  PROVE  Evolves(rows[on[a]], Decided(a, status))
<1>1. on[a] \in DOMAIN rows /\ rows[on[a]] \in Row /\ copy[a] \in Row
  BY RowOf DEF Engaged, TypeOK
<1>2. Decided(a, status) \in Row
  BY <1>1, DecidedType
<1>3. copy[a].linked # None => rows[on[a]].ref = Exact(copy[a].linked)
  BY DEF Links, CopiesResemble, Resembles
<1> QED BY <1>1, <1>2, <1>3 DEF Decided, Evolves, Coherent, Row

LEMMA StepEvolves ==
  ASSUME TypeOK, Engaged, Links, [Next]_vars
  PROVE  RowsEvolve
<1>1. CASE UNCHANGED rows
  BY <1>1, SameRows
<1>2. ASSUME NEW q \in Requests, RequestDeposit(q)
      PROVE  RowsEvolve
  <2> DEFINE new == NewRow(q.hash = NoHash, q.hash, None, q.hash, q.amount, q.timely)
  <2>1. new \in Row /\ rows' = Append(rows, new)
    BY <1>2, RequestType, NewRowType DEF RequestDeposit
  <2> HIDE DEF new
  <2> QED BY <2>1, AddedRow
<1>3. CASE CommitMatch
  <2>1. work \in Transfers
    BY <1>3 DEF CommitMatch, Engaged
  <2>2. CASE match # None /\ rows' = [rows EXCEPT ![match] = Tied(rows[match], work, read)]
    <3>1. match \in DOMAIN rows /\ rows[match] \in Row /\ rows[match].ref.of \in {None, work}
      BY <1>3, <2>2, RowOf DEF TypeOK, CommitMatch, Links, MatchFits
    <3>2. Coherent(rows[match])
      BY <3>1 DEF Links, AllCoherent
    <3> DEFINE new == Tied(rows[match], work, read)
    <3>3. new \in Row /\ Coherent(new) /\ new.ref = Exact(work)
      BY <2>1, <3>1, <3>2, TiedRow DEF TypeOK
    <3>4. new.declared = rows[match].declared /\ new.given = rows[match].given
      BY <3>1 DEF Tied, Row
    <3> HIDE DEF new
    <3>5. Evolves(rows[match], new)
      BY <2>1, <3>1, <3>3, <3>4 DEF Evolves
    <3> QED BY <2>2, <3>1, <3>5, ChangedRow DEF new
  <2>3. CASE rows' = Append(rows, NewRow(FALSE, NoHash, work, Exact(work), Arriving[work], TRUE))
    <3>1. NewRow(FALSE, NoHash, work, Exact(work), Arriving[work], TRUE) \in Row
      BY <2>1, ExactType, NewRowType, ChainAssumption DEF NoHash
    <3> QED BY <2>3, <3>1, AddedRow
  <2> QED BY <1>3, <2>2, <2>3 DEF CommitMatch
<1>4. ASSUME NEW a \in Admins, Reject(a)
      PROVE  RowsEvolve
  <2>1. on[a] \in DOMAIN rows /\ Evolves(rows[on[a]], Decided(a, "REJECTED"))
    BY <1>4, DecidedEvolves DEF Reject, Engaged, Statuses
  <2> QED BY <1>4, <2>1, ChangedRow DEF Reject
<1>5. ASSUME NEW a \in Admins, Approve(a)
      PROVE  RowsEvolve
  <2> DEFINE paid == [Decided(a, "APPROVED") EXCEPT !.credits = IF @ < Often THEN @ + 1 ELSE @]
  <2>1. on[a] \in DOMAIN rows /\ Evolves(rows[on[a]], Decided(a, "APPROVED"))
    BY <1>5, DecidedEvolves DEF Approve, Engaged, Statuses
  <2>2. Decided(a, "APPROVED") \in Row
    BY <2>1 DEF Evolves
  <2>3. paid \in Row /\ \A f \in {"declared", "given", "linked", "ref"} : paid[f] = Decided(a, "APPROVED")[f]
    BY <2>2 DEF Row, Often
  <2>4. rows' = [rows EXCEPT ![on[a]] = paid]
    BY <1>5 DEF Approve
  <2> HIDE DEF paid
  <2>5. Evolves(rows[on[a]], paid)
    BY <2>1, <2>3 DEF Evolves, Coherent
  <2> QED BY <2>1, <2>4, <2>5, ChangedRow
<1>6. UNCHANGED rows \/ CommitMatch \/ (\E q \in Requests : RequestDeposit(q))
      \/ (\E a \in Admins : Reject(a) \/ Approve(a))
  BY DEF Next, MonitorStep, AdminStep, vars, tables, Confirm, StartScan, EndScan, MatchRow,
         Look, Decide, Recheck, CheckReady, MarkDepositAsCredited, CallFails, OneFault,
         ScanFails, Crash
<1> QED BY <1>1, <1>2, <1>3, <1>4, <1>5, <1>6

\* While the monitor holds a match, references stand still and what is added
\* is a client's.
LEMMA MatchedStandsStill ==
  ASSUME TypeOK, Engaged, Links, [Next]_vars, scan' = "commit"
  PROVE  /\ \A r \in DOMAIN rows : rows'[r].ref = rows[r].ref
         /\ \A r \in DOMAIN rows' \ DOMAIN rows : ~Detected(rows'[r])
<1>1. CASE UNCHANGED rows
  BY <1>1
<1>2. ASSUME NEW q \in Requests, RequestDeposit(q)
      PROVE  /\ \A r \in DOMAIN rows : rows'[r].ref = rows[r].ref
             /\ \A r \in DOMAIN rows' \ DOMAIN rows : ~Detected(rows'[r])
  <2> DEFINE new == NewRow(q.hash = NoHash, q.hash, None, q.hash, q.amount, q.timely)
  <2>1. new \in Row /\ rows' = Append(rows, new)
    BY <1>2, RequestType, NewRowType DEF RequestDeposit
  <2>2. ~Detected(new)
    BY DEF Detected, NewRow
  <2> HIDE DEF new
  <2>3. DOMAIN rows' \ DOMAIN rows = {Len(rows) + 1}
    BY <2>1, RowsGrow DEF TypeOK
  <2> QED BY <2>1, <2>2, <2>3, RowsGrow DEF TypeOK
<1>3. ASSUME NEW a \in Admins, NEW row,
             on[a] \in DOMAIN rows, rows' = [rows EXCEPT ![on[a]] = row], row \in Row,
             row.ref = rows[on[a]].ref
      PROVE  /\ \A r \in DOMAIN rows : rows'[r].ref = rows[r].ref
             /\ \A r \in DOMAIN rows' \ DOMAIN rows : ~Detected(rows'[r])
  BY <1>3, RowsUpdated DEF TypeOK
<1>4. ASSUME NEW a \in Admins, Reject(a)
      PROVE  /\ \A r \in DOMAIN rows : rows'[r].ref = rows[r].ref
             /\ \A r \in DOMAIN rows' \ DOMAIN rows : ~Detected(rows'[r])
  <2>1. on[a] \in DOMAIN rows /\ Decided(a, "REJECTED") \in Row
    BY <1>4, DecidedType DEF Reject, Engaged, Statuses
  <2>2. Decided(a, "REJECTED").ref = rows[on[a]].ref
    BY <2>1, RowOf DEF Decided, Row
  <2> QED BY <1>3, <1>4, <2>1, <2>2 DEF Reject
<1>5. ASSUME NEW a \in Admins, Approve(a)
      PROVE  /\ \A r \in DOMAIN rows : rows'[r].ref = rows[r].ref
             /\ \A r \in DOMAIN rows' \ DOMAIN rows : ~Detected(rows'[r])
  <2> DEFINE paid == [Decided(a, "APPROVED") EXCEPT !.credits = IF @ < Often THEN @ + 1 ELSE @]
  <2>1. on[a] \in DOMAIN rows /\ Decided(a, "APPROVED") \in Row
    BY <1>5, DecidedType DEF Approve, Engaged, Statuses
  <2>2. paid \in Row /\ paid.ref = Decided(a, "APPROVED").ref
    BY <2>1 DEF Row, Often
  <2>3. Decided(a, "APPROVED").ref = rows[on[a]].ref
    BY <2>1, RowOf DEF Decided, Row
  <2>4. rows' = [rows EXCEPT ![on[a]] = paid]
    BY <1>5 DEF Approve
  <2> HIDE DEF paid
  <2> QED BY <1>3, <2>1, <2>2, <2>3, <2>4
<1>6. UNCHANGED rows \/ (\E q \in Requests : RequestDeposit(q))
      \/ (\E a \in Admins : Reject(a) \/ Approve(a))
  BY DEF Next, MonitorStep, AdminStep, vars, tables, Confirm, StartScan, EndScan, MatchRow,
         Look, Decide, Recheck, CheckReady, MarkDepositAsCredited, CallFails, OneFault,
         ScanFails, Crash, CommitMatch
<1> QED BY <1>1, <1>2, <1>4, <1>5, <1>6

LEMMA ReferenceKept ==
  ASSUME NEW row, NEW new, Evolves(row, new), row.ref.of # None
  PROVE  new.ref.of = row.ref.of
<1>1. ASSUME NEW t \in Transfers, row.ref.of \in {None, t}, new.ref = Exact(t)
      PROVE  new.ref.of = row.ref.of
  <2>1. new.ref.of = t
    BY <1>1 DEF Exact
  <2> QED BY <1>1, <2>1
<1> QED BY <1>1 DEF Evolves

LEMMA StillResembles ==
  ASSUME NEW old \in Row, NEW row \in Row, NEW new, Resembles(old, row), Evolves(row, new)
  PROVE  Resembles(old, new)
<1>1. old.linked # None => old.ref.of # None
  BY DEF Resembles, Coherent, Exact, Row
<1>2. old.ref.of # None => new.ref.of = old.ref.of
  BY ReferenceKept DEF Resembles
<1>3. old.linked # None => new.ref = Exact(old.linked)
  BY <1>1 DEF Resembles, Evolves, Exact, Row
<1> QED BY <1>2, <1>3 DEF Resembles, Evolves

\* A row resembles a copy made of it now.
LEMMA FreshCopy ==
  ASSUME NEW row \in Row, Coherent(row)
  PROVE  Resembles(row, row)
BY DEF Resembles, Coherent

\* A call that goes on has its old copy, or makes one.
LEMMA CopyOfCall ==
  ASSUME TypeOK, Engaged, [Next]_vars, NEW a \in Admins, pc'[a] \notin {"idle", "mark"}
  PROVE  \/ /\ pc[a] \notin {"idle", "mark"}
            /\ copy'[a] = copy[a] /\ on'[a] = on[a]
         \/ /\ UNCHANGED rows
            /\ on'[a] \in DOMAIN rows /\ copy'[a] = rows[on'[a]]
<1> DEFINE Goal == \/ /\ pc[a] \notin {"idle", "mark"}
                      /\ copy'[a] = copy[a] /\ on'[a] = on[a]
                   \/ /\ UNCHANGED rows
                      /\ on'[a] \in DOMAIN rows /\ copy'[a] = rows[on'[a]]
<1>1. CASE UNCHANGED local
  BY <1>1 DEF local
<1>2. ASSUME NEW x \in Admins, Return(x) PROVE Goal
  BY <1>2, ReturnType
<1>3. ASSUME NEW x \in Admins, NEW r \in DOMAIN rows, NEW label \in {"recheck", "reject"},
             Decide(x, r, label)
      PROVE  Goal
  BY <1>3 DEF Decide, Goto, tables, TypeOK
<1>4. ASSUME NEW x \in Admins, Recheck(x), ~Return(x) PROVE Goal
  BY <1>4 DEF Recheck, Goto, tables, TypeOK, Engaged
<1>5. ASSUME NEW x \in Admins, CheckReady(x), ~Return(x) PROVE Goal
  BY <1>5 DEF CheckReady, Goto, TypeOK
<1>6. ASSUME NEW x \in Admins, Approve(x) PROVE Goal
  BY <1>6 DEF Approve, Goto, TypeOK
<1>7. CASE Crash
  BY <1>7 DEF Crash
<1>8. ASSUME NEW x \in Admins, AdminStep(x) PROVE Goal
  BY <1>2, <1>3, <1>4, <1>5, <1>6, <1>8 DEF AdminStep, Reject, MarkDepositAsCredited
<1>9. UNCHANGED local \/ Crash \/ (\E x \in Admins : AdminStep(x) \/ Return(x))
  <2>1. CASE MonitorStep
    BY <2>1 DEF MonitorStep, StartScan, EndScan, MatchRow, Look, CommitMatch
  <2>2. ASSUME NEW t \in Transfers, Confirm(t) PROVE UNCHANGED local
    BY <2>2 DEF Confirm
  <2>3. ASSUME NEW q \in Requests, RequestDeposit(q) PROVE UNCHANGED local
    BY <2>3 DEF RequestDeposit
  <2>4. CASE UNCHANGED vars
    BY <2>4 DEF vars
  <2>5. ASSUME NEW x \in Admins, CallFails(x) PROVE Return(x)
    BY <2>5 DEF CallFails
  <2>6. CASE ScanFails
    BY <2>6 DEF ScanFails
  <2> QED BY <2>1, <2>2, <2>3, <2>4, <2>5, <2>6 DEF Next
<1> QED BY <1>1, <1>2, <1>7, <1>8, <1>9

LEMMA LinksNext ==
  ASSUME TypeOK, Engaged, Links, [Next]_vars
  PROVE  Links'
<1>1. TypeOK' /\ Engaged'
  BY TypeNext
<1>2. RowsEvolve
  BY StepEvolves
<1>3. AllCoherent'
  <2>1. \A r \in DOMAIN rows : Coherent(rows'[r])
    BY <1>2 DEF RowsEvolve, Evolves, Links, AllCoherent
  <2>2. \A r \in DOMAIN rows' \ DOMAIN rows : Coherent(rows'[r])
    <3>1. CASE DOMAIN rows' = DOMAIN rows
      BY <3>1
    <3>2. ASSUME NEW row \in Row, Coherent(row), rows' = Append(rows, row)
          PROVE  \A r \in DOMAIN rows' \ DOMAIN rows : Coherent(rows'[r])
      <4>1. DOMAIN rows' \ DOMAIN rows = {Len(rows) + 1} /\ rows'[Len(rows) + 1] = row
        BY <3>2, RowsGrow DEF TypeOK
      <4> QED BY <3>2, <4>1
    <3>3. ASSUME NEW q \in Requests, RequestDeposit(q)
          PROVE  \A r \in DOMAIN rows' \ DOMAIN rows : Coherent(rows'[r])
      <4> DEFINE new == NewRow(q.hash = NoHash, q.hash, None, q.hash, q.amount, q.timely)
      <4>1. new \in Row /\ rows' = Append(rows, new)
        BY <3>3, RequestType, NewRowType DEF RequestDeposit
      <4>2. Coherent(new)
        BY RequestType DEF Coherent, NewRow
      <4> HIDE DEF new
      <4> QED BY <3>2, <4>1, <4>2
    <3>4. CASE CommitMatch /\ ~(DOMAIN rows' = DOMAIN rows)
      <4> DEFINE new == NewRow(FALSE, NoHash, work, Exact(work), Arriving[work], TRUE)
      <4>1. work \in Transfers
        BY <3>4 DEF CommitMatch, Engaged
      <4>2. rows' = Append(rows, new)
        BY <3>4 DEF CommitMatch
      <4>3. new \in Row
        BY <4>1, ExactType, NewRowType, ChainAssumption DEF NoHash
      <4>4. Coherent(new)
        BY DEF Coherent, NewRow
      <4> HIDE DEF new
      <4> QED BY <3>2, <4>2, <4>3, <4>4
    <3>5. \/ DOMAIN rows' = DOMAIN rows
          \/ CommitMatch
          \/ \E q \in Requests : RequestDeposit(q)
      <4>1. ASSUME NEW a \in Admins, Reject(a) \/ Approve(a)
            PROVE  DOMAIN rows' = DOMAIN rows
        BY <4>1 DEF Reject, Approve
      <4> QED BY <4>1
        DEF Next, MonitorStep, AdminStep, vars, tables, Confirm, StartScan, EndScan, MatchRow,
            Look, Decide, Recheck, CheckReady, MarkDepositAsCredited, CallFails, OneFault,
            ScanFails, Crash
    <3> QED BY <3>1, <3>3, <3>4, <3>5
  <2> QED BY <2>1, <2>2 DEF AllCoherent
<1>4. CopiesResemble'
  <2> SUFFICES ASSUME NEW a \in Admins, pc'[a] \notin {"idle", "mark"}
               PROVE  Resembles(copy'[a], rows'[on'[a]])
    BY DEF CopiesResemble
  <2>1. CASE pc[a] \notin {"idle", "mark"} /\ copy'[a] = copy[a] /\ on'[a] = on[a]
    <3>1. on[a] \in DOMAIN rows /\ rows[on[a]] \in Row /\ copy[a] \in Row
      BY <2>1, RowOf DEF Engaged, TypeOK
    <3>2. Resembles(copy[a], rows[on[a]]) /\ Evolves(rows[on[a]], rows'[on[a]])
      BY <1>2, <2>1, <3>1 DEF Links, CopiesResemble, RowsEvolve
    <3> QED BY <2>1, <3>1, <3>2, StillResembles
  <2>2. CASE UNCHANGED rows /\ on'[a] \in DOMAIN rows /\ copy'[a] = rows[on'[a]]
    BY <2>2, FreshCopy, RowOf DEF Links, AllCoherent
  <2> QED BY <2>1, <2>2, CopyOfCall
<1>5. MatchFits'
  <2> SUFFICES ASSUME scan' = "commit"
               PROVE  /\ match' # None => rows'[match'].ref.of \in {None, work'}
                      /\ match' = None => \A r \in DOMAIN rows' :
                           Detected(rows'[r]) => rows'[r].ref.of # work'
    BY DEF MatchFits
  <2>1. CASE MatchRow
    <3>1. UNCHANGED <<rows, work>> /\ match' \in Matching(work)
      BY <2>1 DEF MatchRow, tables
    <3>2. \A r \in DOMAIN rows : HashOf(rows[r]).of = rows[r].ref.of
      BY RowOf, HashIsReference DEF Links, AllCoherent
    <3>3. ASSUME match' # None
          PROVE  rows[match'].ref.of \in {None, work}
      BY <3>1, <3>2, <3>3 DEF Matching, Newest, ByHash, Candidates, Candidate
    <3>4. ASSUME match' = None, NEW r \in DOMAIN rows
          PROVE  rows[r].ref.of # work
      BY <3>1, <3>2, <3>4, NoRowIsNone DEF Matching, Newest, ByHash, Candidates
    <3> QED BY <3>1, <3>3, <3>4
  <2>2. CASE scan = "commit" /\ UNCHANGED <<match, work>>
    <3>1. /\ \A r \in DOMAIN rows : rows'[r].ref = rows[r].ref
          /\ \A r \in DOMAIN rows' \ DOMAIN rows : ~Detected(rows'[r])
      BY MatchedStandsStill
    <3>2. \A r \in DOMAIN rows : Detected(rows'[r]) => Detected(rows[r])
      BY <1>2 DEF RowsEvolve, Evolves, Detected
    <3>3. match # None => match \in DOMAIN rows
      BY DEF TypeOK
    <3> QED BY <2>2, <3>1, <3>2, <3>3 DEF Links, MatchFits
  <2>3. MatchRow \/ (scan = "commit" /\ UNCHANGED <<match, work>>)
    <3>1. ASSUME NEW t \in Transfers, Look(t) PROVE FALSE
      BY <3>1 DEF Look
    <3>2. ASSUME NEW a \in Admins, AdminStep(a) \/ CallFails(a)
          PROVE  UNCHANGED monitor
      BY <3>2 DEF AdminStep, Decide, Reject, Recheck, CheckReady, Approve,
                  MarkDepositAsCredited, CallFails
    <3>3. CASE UNCHANGED monitor
      BY <3>3 DEF monitor
    <3> QED BY <3>1, <3>2, <3>3
      DEF Next, MonitorStep, vars, Confirm, RequestDeposit, StartScan, EndScan, CommitMatch,
          StopScan, ScanFails, Crash
  <2> QED BY <2>1, <2>2, <2>3
<1> QED BY <1>3, <1>4, <1>5 DEF Links

LEMMA InitLinks == Init => Links
BY DEF Init, Links, AllCoherent, CopiesResemble, MatchFits

\* The invariant the properties below rest on: what the monitor and the
\* administrators hold of a row agrees with the row about the transfer the row
\* is tied to, so a write of what was read earlier never ties it to another.
THEOREM LinksInvariant == Spec => [](TypeOK /\ Engaged /\ Links)
<1>1. Init => TypeOK /\ Engaged /\ Links
  BY InitType, InitLinks
<1>2. TypeOK /\ Engaged /\ Links /\ [Next]_vars => (TypeOK /\ Engaged /\ Links)'
  BY TypeNext, LinksNext
<1> QED BY <1>1, <1>2, PTL DEF Spec

\* A row once tied to a transfer stays tied to it.
THEOREM HashKept == Spec => HashIsKept
<1>1. TypeOK /\ Engaged /\ Links /\ [Next]_vars
      => [\A r \in DOMAIN rows :
            HashOf(rows[r]).of # None => HashOf(rows'[r]).of = HashOf(rows[r]).of]_vars
  <2> SUFFICES ASSUME TypeOK, Engaged, Links, [Next]_vars, NEW r \in DOMAIN rows,
                      HashOf(rows[r]).of # None
               PROVE  HashOf(rows'[r]).of = HashOf(rows[r]).of
    OBVIOUS
  <2>1. Links' /\ Evolves(rows[r], rows'[r]) /\ r \in DOMAIN rows'
    BY LinksNext, StepEvolves DEF RowsEvolve
  <2>2. HashOf(rows[r]).of = rows[r].ref.of
    BY RowOf, HashIsReference DEF Links, AllCoherent
  <2>3. HashOf(rows'[r]).of = rows'[r].ref.of
    BY <2>1, HashIsReference DEF Links, AllCoherent, Evolves
  <2>4. rows'[r].ref.of = rows[r].ref.of
    BY <2>1, <2>2, ReferenceKept
  <2> QED BY <2>2, <2>3, <2>4
<1> QED BY <1>1, LinksInvariant, PTL DEF Spec, HashIsKept

-----------------------------------------------------------------------------
(***************************************************************************)
(* The monitor's own rows                                                  *)
(***************************************************************************)

\* A step adds at most one row. It is the client's, or the monitor's for the
\* transfer it has found no row for.
LEMMA NewRows ==
  ASSUME TypeOK, Engaged, Links, [Next]_vars, NEW r \in DOMAIN rows' \ DOMAIN rows
  PROVE  /\ r = Len(rows) + 1
         /\ rows'[r].credits = 0
         /\ \/ ~Detected(rows'[r])
            \/ /\ rows'[r].ref.of = work /\ work # None
               /\ \A x \in DOMAIN rows : Detected(rows[x]) => rows[x].ref.of # work
<1>1. ASSUME NEW row \in Row, rows' = Append(rows, row)
      PROVE  r = Len(rows) + 1 /\ rows'[r] = row
  BY <1>1, RowsGrow DEF TypeOK
<1>2. ASSUME NEW q \in Requests, RequestDeposit(q)
      PROVE  r = Len(rows) + 1 /\ rows'[r].credits = 0 /\ ~Detected(rows'[r])
  <2> DEFINE new == NewRow(q.hash = NoHash, q.hash, None, q.hash, q.amount, q.timely)
  <2>1. new \in Row /\ rows' = Append(rows, new)
    BY <1>2, RequestType, NewRowType DEF RequestDeposit
  <2>2. ~Detected(new) /\ new.credits = 0
    BY DEF Detected, NewRow
  <2> HIDE DEF new
  <2> QED BY <1>1, <2>1, <2>2
<1>3. ASSUME CommitMatch
      PROVE  /\ r = Len(rows) + 1
             /\ rows'[r].credits = 0
             /\ rows'[r].ref.of = work /\ work # None
             /\ \A x \in DOMAIN rows : Detected(rows[x]) => rows[x].ref.of # work
  <2> DEFINE new == NewRow(FALSE, NoHash, work, Exact(work), Arriving[work], TRUE)
  <2>1. work \in Transfers /\ work # None
    BY <1>3, ChainAssumption DEF CommitMatch, Engaged, None
  <2>2. match = None /\ rows' = Append(rows, new)
    BY <1>3 DEF CommitMatch
  <2>3. new \in Row
    BY <2>1, ExactType, NewRowType, ChainAssumption DEF NoHash
  <2>4. new.credits = 0 /\ new.ref.of = work
    BY DEF NewRow, Exact
  <2> HIDE DEF new
  <2>5. r = Len(rows) + 1 /\ rows'[r] = new
    BY <1>1, <2>2, <2>3
  <2> QED BY <1>3, <2>1, <2>2, <2>4, <2>5 DEF CommitMatch, Links, MatchFits
<1>4. CommitMatch \/ \E q \in Requests : RequestDeposit(q)
  <2>1. ASSUME NEW a \in Admins, Reject(a) \/ Approve(a)
        PROVE  DOMAIN rows' = DOMAIN rows
    BY <2>1 DEF Reject, Approve
  <2> QED BY <2>1
    DEF Next, MonitorStep, AdminStep, vars, tables, Confirm, StartScan, EndScan, MatchRow,
        Look, Decide, Recheck, CheckReady, MarkDepositAsCredited, CallFails, OneFault,
        ScanFails, Crash
<1> QED BY <1>2, <1>3, <1>4

\* The monitor's rows name transfers, and each another one.
OwnRows ==
  /\ \A r \in DOMAIN rows : Detected(rows[r]) => rows[r].ref.of # None
  /\ \A r, s \in DOMAIN rows :
       Detected(rows[r]) /\ Detected(rows[s]) /\ rows[r].ref.of = rows[s].ref.of => r = s

LEMMA OwnRowsNext ==
  ASSUME TypeOK, Engaged, Links, OwnRows, [Next]_vars
  PROVE  OwnRows'
<1>1. ASSUME NEW r \in DOMAIN rows, Detected(rows'[r])
      PROVE  Detected(rows[r]) /\ rows[r].ref.of # None /\ rows'[r].ref.of = rows[r].ref.of
  <2>1. Evolves(rows[r], rows'[r])
    BY StepEvolves DEF RowsEvolve
  <2>2. Detected(rows[r])
    BY <1>1, <2>1 DEF Detected, Evolves
  <2> QED BY <2>1, <2>2, ReferenceKept DEF OwnRows
<1>2. \A r \in DOMAIN rows' : Detected(rows'[r]) => rows'[r].ref.of # None
  BY <1>1, NewRows
<1>3. ASSUME NEW r \in DOMAIN rows', NEW s \in DOMAIN rows',
             Detected(rows'[r]), Detected(rows'[s]), rows'[r].ref.of = rows'[s].ref.of
      PROVE  r = s
  <2>1. CASE r \in DOMAIN rows /\ s \in DOMAIN rows
    BY <1>1, <1>3, <2>1 DEF OwnRows
  <2>2. CASE r \notin DOMAIN rows /\ s \notin DOMAIN rows
    BY <2>2, NewRows
  <2>3. CASE r \notin DOMAIN rows /\ s \in DOMAIN rows
    BY <1>1, <1>3, <2>3, NewRows
  <2>4. CASE r \in DOMAIN rows /\ s \notin DOMAIN rows
    BY <1>1, <1>3, <2>4, NewRows
  <2> QED BY <2>1, <2>2, <2>3, <2>4
<1> QED BY <1>2, <1>3 DEF OwnRows

\* The monitor creates at most one row for a transfer.
THEOREM DetectedOnce == Spec => []OneDetectedRow
<1>1. Init => OwnRows
  BY DEF Init, OwnRows
<1>2. TypeOK /\ Engaged /\ Links /\ OwnRows /\ [Next]_vars => OwnRows'
  BY OwnRowsNext
<1>3. TypeOK /\ Links /\ OwnRows => OneDetectedRow
  BY RowOf, HashIsReference DEF Links, AllCoherent, OwnRows, OneDetectedRow
<1> QED BY <1>1, <1>2, <1>3, LinksInvariant, PTL DEF Spec

-----------------------------------------------------------------------------
(***************************************************************************)
(* No credit before the confirmations                                      *)
(***************************************************************************)

\* What the monitor was told and wrote down is on the chain.
Recorded ==
  \A t \in Transfers :
    /\ fetched[t] <= conf[t]
    /\ deposit[t] = "COMPLETED" => conf[t] = Required

Final(row) == row.declared \/ (row.ref.of # None /\ conf[row.ref.of] = Required)

Backed ==
  /\ Recorded
  /\ \A r \in DOMAIN rows : rows[r].credits > 0 => Final(rows[r])
  /\ \A a \in Admins : pc[a] = "commit" => Final(copy[a])

LEMMA ConfGrows ==
  ASSUME TypeOK, [Next]_vars, NEW t \in Transfers
  PROVE  conf'[t] >= conf[t] /\ (conf[t] = Required => conf'[t] = Required)
<1>1. ASSUME NEW x \in Transfers, Confirm(x)
      PROVE  conf'[t] >= conf[t] /\ (conf[t] = Required => conf'[t] = Required)
  <2>1. PICK n \in conf[x] + 1 .. Required : conf' = [conf EXCEPT ![x] = n]
    BY <1>1 DEF Confirm
  <2>2. conf[t] \in Int /\ conf[x] \in Int /\ Required \in Nat
    BY ChainAssumption DEF TypeOK, Confs
  <2> QED BY <2>1, <2>2 DEF TypeOK
<1>2. CASE UNCHANGED conf
  <2>1. conf[t] \in Int
    BY ChainAssumption DEF TypeOK, Confs
  <2> QED BY <1>2, <2>1
<1> QED BY <1>1, <1>2
  DEF Next, MonitorStep, AdminStep, vars, RequestDeposit, StartScan, EndScan, MatchRow,
      Look, CommitMatch, Decide, Reject, Recheck, CheckReady, Approve, MarkDepositAsCredited,
      CallFails, OneFault, ScanFails, Crash

LEMMA RecordedNext ==
  ASSUME TypeOK, Engaged, Recorded, [Next]_vars
  PROVE  Recorded'
<1> SUFFICES ASSUME NEW t \in Transfers
             PROVE  /\ fetched'[t] <= conf'[t]
                    /\ deposit'[t] = "COMPLETED" => conf'[t] = Required
  BY DEF Recorded
<1>1. TypeOK'
  BY TypeNext
<1>2. conf'[t] >= conf[t] /\ (conf[t] = Required => conf'[t] = Required)
  BY ConfGrows
<1>3. conf[t] \in Confs /\ conf'[t] \in Confs /\ fetched[t] \in Confs /\ fetched'[t] \in Confs
  BY <1>1 DEF TypeOK
<1>4. fetched'[t] <= conf'[t]
  <2>1. CASE UNCHANGED fetched
    BY <1>2, <1>3, <2>1, ChainAssumption DEF Recorded, Confs
  <2>2. CASE fetched' = conf
    BY <1>2, <1>3, <2>2, ChainAssumption DEF Confs
  <2>3. CASE fetched'[t] = -1
    BY <1>3, <2>3, ChainAssumption DEF Confs
  <2>4. ASSUME NEW a \in Admins, AdminStep(a) \/ CallFails(a)
        PROVE  UNCHANGED fetched
    BY <2>4 DEF AdminStep, Decide, Reject, Recheck, CheckReady, Approve,
                MarkDepositAsCredited, CallFails, monitor
  <2> QED BY <2>1, <2>2, <2>3, <2>4
    DEF Next, MonitorStep, vars, monitor, Confirm, RequestDeposit, StartScan, EndScan,
        MatchRow, Look, CommitMatch, StopScan, ScanFails, Crash
<1>5. ASSUME deposit'[t] = "COMPLETED"
      PROVE  conf'[t] = Required
  <2>1. CASE deposit'[t] = deposit[t]
    BY <1>2, <1>5, <2>1 DEF Recorded
  <2>2. CASE CommitMatch /\ t = work
    <3>1. fetched[t] >= Required
      BY <1>5, <2>2 DEF CommitMatch, DepositStatus, TypeOK
    <3>2. fetched[t] <= conf[t]
      BY DEF Recorded
    <3> QED BY <1>2, <1>3, <3>1, <3>2, ChainAssumption DEF Confs
  <2>3. ASSUME CommitMatch, t # work
        PROVE  deposit'[t] = deposit[t]
    BY <2>3 DEF CommitMatch, TypeOK
  <2>4. CommitMatch \/ UNCHANGED deposit
    BY DEF Next, MonitorStep, AdminStep, vars, tables, Confirm, RequestDeposit, StartScan,
           EndScan, MatchRow, Look, Decide, Reject, Recheck, CheckReady, Approve,
           MarkDepositAsCredited, CallFails, OneFault, ScanFails, Crash
  <2> QED BY <2>1, <2>2, <2>3, <2>4
<1> QED BY <1>4, <1>5

LEMMA FinalStays ==
  ASSUME TypeOK, [Next]_vars, NEW row \in Row, NEW new, Final(row),
         new.declared = row.declared, row.ref.of # None => new.ref.of = row.ref.of
  PROVE  new.declared \/ (new.ref.of # None /\ conf'[new.ref.of] = Required)
<1>1. row.ref.of \in Transfers \cup {None}
  BY DEF Row, Hash
<1> QED BY <1>1, ConfGrows DEF Final

\* Only an approval past its checks adds to the credits of a row.
LEMMA CreditedByApproval ==
  ASSUME TypeOK, Engaged, [Next]_vars, NEW r \in DOMAIN rows
  PROVE  \/ rows'[r].credits = rows[r].credits
         \/ \E a \in Admins : pc[a] = "commit" /\ on[a] = r
<1> DEFINE Goal == \/ rows'[r].credits = rows[r].credits
                   \/ \E a \in Admins : pc[a] = "commit" /\ on[a] = r
<1>1. CASE UNCHANGED rows
  BY <1>1
<1>2. ASSUME NEW row \in Row, rows' = Append(rows, row) PROVE Goal
  BY <1>2, RowsGrow DEF TypeOK
<1>3. ASSUME NEW x \in DOMAIN rows, NEW row \in Row, rows' = [rows EXCEPT ![x] = row],
             row.credits = rows[x].credits
      PROVE  Goal
  BY <1>3, RowsUpdated DEF TypeOK
<1>4. ASSUME NEW q \in Requests, RequestDeposit(q) PROVE Goal
  <2>1. NewRow(q.hash = NoHash, q.hash, None, q.hash, q.amount, q.timely) \in Row
    BY RequestType, NewRowType
  <2> QED BY <1>2, <1>4, <2>1 DEF RequestDeposit
<1>5. CASE CommitMatch
  <2>1. work \in Transfers
    BY <1>5 DEF CommitMatch, Engaged
  <2>2. NewRow(FALSE, NoHash, work, Exact(work), Arriving[work], TRUE) \in Row
    BY <2>1, ExactType, NewRowType, ChainAssumption DEF NoHash
  <2>3. ASSUME match # None
        PROVE  /\ match \in DOMAIN rows
               /\ Tied(rows[match], work, read) \in Row
               /\ Tied(rows[match], work, read).credits = rows[match].credits
    BY <2>1, <2>3, RowOf, ExactType DEF Tied, Row, TypeOK
  <2> QED BY <1>2, <1>3, <1>5, <2>2, <2>3 DEF CommitMatch
<1>6. ASSUME NEW a \in Admins, Reject(a) PROVE Goal
  <2>1. on[a] \in DOMAIN rows /\ Decided(a, "REJECTED") \in Row
    BY <1>6, DecidedType DEF Reject, Engaged, Statuses
  <2>2. Decided(a, "REJECTED").credits = rows[on[a]].credits
    BY <2>1, RowOf DEF Decided, Row
  <2> QED BY <1>3, <1>6, <2>1, <2>2 DEF Reject
<1>7. ASSUME NEW a \in Admins, Approve(a) PROVE Goal
  <2>1. CASE on[a] = r
    BY <1>7, <2>1 DEF Approve
  <2>2. CASE on[a] # r
    BY <1>7, <2>2 DEF Approve, TypeOK
  <2> QED BY <2>1, <2>2
<1>8. UNCHANGED rows \/ CommitMatch \/ (\E q \in Requests : RequestDeposit(q))
      \/ (\E a \in Admins : Reject(a) \/ Approve(a))
  BY DEF Next, MonitorStep, AdminStep, vars, tables, Confirm, StartScan, EndScan, MatchRow,
         Look, Decide, Recheck, CheckReady, MarkDepositAsCredited, CallFails, OneFault,
         ScanFails, Crash
<1> QED BY <1>1, <1>4, <1>5, <1>6, <1>7, <1>8

\* A call gets past its last check with what it has read, and only if that
\* is ready.
LEMMA CommitsWhenReady ==
  ASSUME TypeOK, Engaged, [Next]_vars, NEW a \in Admins, pc'[a] = "commit"
  PROVE  /\ copy'[a] = copy[a]
         /\ \/ pc[a] = "commit"
            \/ pc[a] = "ready" /\ Ready(copy[a])
<1> DEFINE Goal == /\ copy'[a] = copy[a]
                   /\ \/ pc[a] = "commit"
                      \/ pc[a] = "ready" /\ Ready(copy[a])
<1>1. CASE UNCHANGED local
  BY <1>1 DEF local
<1>2. ASSUME NEW x \in Admins, Return(x) PROVE Goal
  BY <1>2, ReturnType
<1>3. ASSUME NEW x \in Admins, NEW r \in DOMAIN rows, NEW label \in {"recheck", "reject"},
             Decide(x, r, label)
      PROVE  Goal
  BY <1>3 DEF Decide, Goto, TypeOK
<1>4. ASSUME NEW x \in Admins, Recheck(x), ~Return(x) PROVE Goal
  BY <1>4 DEF Recheck, Goto, TypeOK
<1>5. ASSUME NEW x \in Admins, CheckReady(x), ~Return(x) PROVE Goal
  BY <1>5 DEF CheckReady, Goto, TypeOK
<1>6. ASSUME NEW x \in Admins, Approve(x) PROVE Goal
  BY <1>6 DEF Approve, Goto, TypeOK
<1>7. CASE Crash
  BY <1>7 DEF Crash
<1>8. ASSUME NEW x \in Admins, AdminStep(x) PROVE Goal
  BY <1>2, <1>3, <1>4, <1>5, <1>6, <1>8 DEF AdminStep, Reject, MarkDepositAsCredited
<1>9. UNCHANGED local \/ Crash \/ (\E x \in Admins : AdminStep(x) \/ Return(x))
  <2>1. CASE MonitorStep
    BY <2>1 DEF MonitorStep, StartScan, EndScan, MatchRow, Look, CommitMatch
  <2>2. ASSUME NEW t \in Transfers, Confirm(t) PROVE UNCHANGED local
    BY <2>2 DEF Confirm
  <2>3. ASSUME NEW q \in Requests, RequestDeposit(q) PROVE UNCHANGED local
    BY <2>3 DEF RequestDeposit
  <2>4. CASE UNCHANGED vars
    BY <2>4 DEF vars
  <2>5. ASSUME NEW x \in Admins, CallFails(x) PROVE Return(x)
    BY <2>5 DEF CallFails
  <2>6. CASE ScanFails
    BY <2>6 DEF ScanFails
  <2> QED BY <2>1, <2>2, <2>3, <2>4, <2>5, <2>6 DEF Next
<1> QED BY <1>1, <1>2, <1>7, <1>8, <1>9

LEMMA BackedNext ==
  ASSUME TypeOK, Engaged, Links, Backed, [Next]_vars
  PROVE  Backed'
<1>1. Recorded'
  BY RecordedNext DEF Backed
<1>2. ASSUME NEW r \in DOMAIN rows', rows'[r].credits > 0
      PROVE  Final(rows[r])'
  <2>1. r \in DOMAIN rows
    BY <1>2, NewRows
  <2>2. rows[r] \in Row /\ Evolves(rows[r], rows'[r])
    BY <2>1, RowOf, StepEvolves DEF RowsEvolve
  <2>3. Final(rows[r])
    <3>1. CASE rows'[r].credits = rows[r].credits
      BY <1>2, <2>1, <3>1 DEF Backed
    <3>2. ASSUME NEW a \in Admins, pc[a] = "commit", on[a] = r
          PROVE  Final(rows[r])
      <4>1. Final(copy[a]) /\ Resembles(copy[a], rows[r])
        BY <3>2 DEF Backed, Links, CopiesResemble
      <4> QED BY <4>1 DEF Final, Resembles
    <3> QED BY <2>1, <3>1, <3>2, CreditedByApproval
  <2>4. rows[r].ref.of # None => rows'[r].ref.of = rows[r].ref.of
    BY <2>2, ReferenceKept
  <2>5. rows'[r].declared = rows[r].declared
    BY <2>2 DEF Evolves
  <2> QED BY <2>2, <2>3, <2>4, <2>5, FinalStays DEF Final
<1>3. ASSUME NEW a \in Admins, pc'[a] = "commit"
      PROVE  Final(copy[a])'
  <2>1. copy'[a] = copy[a] /\ copy[a] \in Row
    BY <1>3, CommitsWhenReady DEF TypeOK
  <2>2. Final(copy[a])
    <3>1. CASE pc[a] = "commit"
      BY <3>1 DEF Backed
    <3>2. CASE pc[a] = "ready" /\ Ready(copy[a])
      <4>1. HashOf(copy[a]).of = copy[a].ref.of
        BY <2>1, <3>2, HashIsReference DEF Links, CopiesResemble, Resembles
      <4>2. copy[a].ref.of \in Transfers \cup {None}
        BY <2>1 DEF Row, Hash
      <4> QED BY <3>2, <4>1, <4>2 DEF Ready, Final, Backed, Recorded
    <3> QED BY <1>3, <3>1, <3>2, CommitsWhenReady
  <2> QED BY <2>1, <2>2, FinalStays DEF Final
<1> QED BY <1>1, <1>2, <1>3 DEF Backed

\* No row is credited before its transfer has its confirmations, unless the
\* client only declared it.
THEOREM CreditedOnChain == Spec => []OnChainBeforeCredit
<1>1. Init => Backed
  BY DEF Init, Backed, Recorded
<1>2. TypeOK /\ Engaged /\ Links /\ Backed /\ [Next]_vars => Backed'
  BY BackedNext
<1>3. TypeOK /\ Links /\ Backed => OnChainBeforeCredit
  <2> SUFFICES ASSUME TypeOK, Links, Backed, NEW r \in DOMAIN rows, rows[r].credits > 0
               PROVE  \/ rows[r].declared
                      \/ LET t == HashOf(rows[r]).of IN t # None /\ conf[t] = Required
    BY DEF OnChainBeforeCredit
  <2>1. HashOf(rows[r]).of = rows[r].ref.of
    BY RowOf, HashIsReference DEF Links, AllCoherent
  <2> QED BY <2>1 DEF Backed, Final
<1> QED BY <1>1, <1>2, <1>3, LinksInvariant, PTL DEF Spec
=============================================================================
