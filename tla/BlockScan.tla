------------------------------- MODULE BlockScan -------------------------------
(***************************************************************************)
(* The scan of the ERC20 transfers to one address by way of the RPC nodes  *)
(* (blockchain-monitor.service.ts): each cycle lists the blocks from some  *)
(* way before the last one scanned up to the head, moves the cursor, and   *)
(* only then records what it found.                                        *)
(***************************************************************************)
EXTENDS Integers

CONSTANTS
  Confirmed, \* confirmations a deposit needs
  MaxHeight, \* bound: blocks
  MaxFaults  \* bound: recordings that fail, reorganisations, cursors that expire

VARIABLES
  height,  \* the head of the chain
  block,   \* that holds the transfer, 0 for none
  cursor,  \* lastScannedBlock, 0 for none
  scan,    \* a cycle: idle, or the confirmations to record
  row,     \* confirmations recorded, 0 for no row
  dropped, \* whether a recording has failed
  faults

vars == <<height, block, cursor, scan, row, dropped, faults>>

Idle == [pc |-> "idle"]
Smallest(a, b) == IF a < b THEN a ELSE b
Largest(a, b) == IF a < b THEN b ELSE a

Init ==
  /\ height = 1 /\ block = 0 /\ cursor = 0 /\ scan = Idle /\ row = 0
  /\ dropped = FALSE /\ faults = 0

Mined ==
  /\ height < MaxHeight
  /\ height' = height + 1
  /\ UNCHANGED <<block, cursor, scan, row, dropped, faults>>

Transferred ==
  /\ block = 0 /\ block' = height
  /\ UNCHANGED <<height, cursor, scan, row, dropped, faults>>

\* The chain drops its last blocks, with the transfer in them, which comes back
\* in a later one; less deep than confirmations go.
Reorganised ==
  /\ faults < MaxFaults /\ faults' = faults + 1
  /\ block > 0 /\ height - block + 1 < Confirmed
  /\ block' = height
  /\ UNCHANGED <<height, cursor, scan, row, dropped>>

\* resolveEthereumScanStartBlock, one block after the cursor
NextBlock(latest) == IF cursor > 0 /\ cursor <= latest THEN cursor + 1 ELSE 0

\* resolveEthereumScanStartBlock: without a cursor, or with one ahead of the
\* node that answers, from the blocks in which the address was created.
ScanStart(latest) ==
  IF cursor > 0 /\ cursor <= latest THEN Largest(cursor - Confirmed, 0) ELSE 0

\* fetchERC20DetectionsFromRpc, from a node that may lag by a block. A query
\* that fails ends the scan of the address before anything is changed.
Fetch ==
  /\ scan = Idle
  /\ \E latest \in {Largest(height - 1, 1), height} :
       /\ cursor' = latest
       /\ scan' = IF block > 0 /\ ScanStart(latest) <= block /\ block <= latest
                  THEN [pc |-> "record", confirmations |-> latest - block + 1]
                  ELSE Idle
  /\ UNCHANGED <<height, block, row, dropped, faults>>

\* processDeposit: a row is created, or its confirmations updated.
Record ==
  /\ scan.pc = "record"
  /\ row' = Smallest(scan.confirmations, Confirmed)
  /\ scan' = Idle
  /\ UNCHANGED <<height, block, cursor, dropped, faults>>

\* processDeposit throws, or the process dies.
Dropped ==
  /\ scan.pc = "record" /\ faults < MaxFaults /\ faults' = faults + 1
  /\ scan' = Idle /\ dropped' = TRUE
  /\ UNCHANGED <<height, block, cursor, row>>

\* The cursor is cached for a week, in Redis.
Forgotten ==
  /\ cursor > 0 /\ faults < MaxFaults /\ faults' = faults + 1
  /\ cursor' = 0
  /\ UNCHANGED <<height, block, scan, row, dropped>>

Next ==
  \/ Mined \/ Transferred \/ Reorganised \/ Fetch \/ Record \/ Dropped \/ Forgotten

Spec == Init /\ [][Next]_vars /\ WF_vars(Mined) /\ WF_vars(Fetch) /\ WF_vars(Record)

-----------------------------------------------------------------------------
TypeOK ==
  /\ height \in 1 .. MaxHeight /\ block \in 0 .. MaxHeight /\ cursor \in 0 .. MaxHeight
  /\ scan = Idle \/ scan.confirmations \in 1 .. MaxHeight
  /\ row \in 0 .. Confirmed
  /\ dropped \in BOOLEAN /\ faults \in 0 .. MaxFaults

\* A transfer that the next scan would not list any more has been recorded with all of its
\* confirmations, however the nodes lagged and the chain was reorganised;
\* except when a recording has failed, as the cursor had moved by then.
NothingSlipsThrough ==
  ~dropped /\ scan = Idle /\ 0 < block /\ block < ScanStart(height) => row = Confirmed
=============================================================================
