---------------------------- MODULE PositionClose ----------------------------
(***************************************************************************)
(* Closing the positions of one account (positions.service.ts), the        *)
(* account's balance and its ledger (balance-ledger.service.ts).           *)
(*                                                                         *)
(* A closer is a call of closeOpenPosition in flight, whoever made it: the *)
(* client, a copied provider, or the PnL engine, which PnlEngine adds. It  *)
(* reads a quote, then runs a database transaction that reads the position *)
(* and the account and writes back a balance computed from what it read.   *)
(* Transactions run at READ COMMITTED and lock nothing they read: every    *)
(* read is a step, and the writes of a transaction are one, its commit.    *)
(***************************************************************************)
EXTENDS Integers, Sequences, FiniteSets, FiniteSetsExt

CONSTANTS
  Positions,  \* positions of the account
  Symbols,    \* what they are in
  Terms,      \* of each: symbol, side, entry, margin, stop loss and take profit
  Quotes,     \* market snapshots: bid, ask and health
  Closers,    \* calls of closeOpenPosition in flight at once
  Callers,    \* the reasons calls from outside the engine give
  Opening,    \* balance of the account when the positions are opened
  Moves,      \* what deposits, withdrawals and credits add to it
  MaxMoves,   \* bound on these
  MaxTicks,   \* bound on changes of a quote
  MaxFaults   \* bound on crashes and failing calls

None    == 0                                       \* no stop loss, no take profit
Reasons == {"MANUAL", "COPY_MASTER_CLOSE", "LIQUIDATION", "PROTECTIVE"}

ASSUME TermsAssumption ==
  /\ Positions # {} /\ IsFiniteSet(Positions)
  /\ Terms \in [Positions -> [symbol : Symbols, side : {"BUY", "SELL"}, entry : Nat,
                              margin : Nat, stop : Nat, take : Nat]]
  /\ Quotes \subseteq [bid : Nat, ask : Nat, healthy : BOOLEAN]
  /\ Quotes # {}
  /\ Callers \subseteq {"MANUAL", "COPY_MASTER_CLOSE"}

ASSUME FundsAssumption ==
  /\ Opening \in Nat
  /\ Moves \subseteq Int
  /\ MaxMoves \in Nat
  /\ MaxTicks \in Nat
  /\ MaxFaults \in Nat

VARIABLES
  state,    \* position.status
  pnl,      \* position.pnl
  balance,  \* account.balance
  others,   \* what other services added to it
  ledger,   \* the account's ledger entries, oldest first
  copied,   \* positions whose close was handed to copy trading
  quote,    \* the latest quote of each symbol
  moves,    \* other movements of the balance so far
  ticks,    \* changes of a quote so far
  faults,   \* crashes and failing calls so far
  pc,       \* where each call is
  target,   \* the position it closes
  reason,   \* why
  priced,   \* the quote it has read
  held      \* the balance it has read

rows  == <<state, pnl, balance, ledger, copied>>
env   == <<others, quote, moves, ticks, faults>>
local == <<pc, target, reason, priced, held>>
vars  == <<rows, env, local>>

Outcomes == {"closed", "null", "thrown"}
PCs      == {"idle", "quote", "live", "account", "commit", "after"} \cup Outcomes
Kinds    == {"TRADE_CLOSE_GAIN", "TRADE_CLOSE_LOSS", "CORRECTION"}
Entry    == [kind : Kinds, position : Positions, change : Int, after : Int]

NoPosition == CHOOSE p \in Positions : TRUE   \* stand where there is none
NoQuote    == CHOOSE q \in Quotes : TRUE

OpenOnes == {p \in Positions : state[p] = "OPEN"}

-----------------------------------------------------------------------------
\* calculatePositionPnl, for positions of volume 1
Pnl(p, q) ==
  IF Terms[p].side = "BUY" THEN q.bid - Terms[p].entry ELSE Terms[p].entry - q.ask

Healthy(p) == quote[Terms[p].symbol].healthy

Init ==
  /\ state = [p \in Positions |-> "OPEN"]
  /\ pnl = [p \in Positions |-> 0]
  /\ balance = Opening
  /\ others = 0
  /\ ledger = <<>>
  /\ copied = {}
  /\ quote \in [Symbols -> Quotes]
  /\ moves = 0
  /\ ticks = 0
  /\ faults = 0
  /\ pc = [c \in Closers |-> "idle"]
  /\ target = [c \in Closers |-> NoPosition]
  /\ reason = [c \in Closers |-> "MANUAL"]
  /\ priced = [c \in Closers |-> NoQuote]
  /\ held = [c \in Closers |-> 0]

Goto(c, label) == pc' = [pc EXCEPT ![c] = label]

\* The call has its outcome; what it read is of no more use, but for the
\* quote, which tells the caller the realized PnL.
Leave(c, outcome) ==
  /\ Goto(c, outcome)
  /\ held' = [held EXCEPT ![c] = 0]
  /\ UNCHANGED <<target, reason, priced>>

-----------------------------------------------------------------------------
(***************************************************************************)
(* closePosition, liquidatePosition, closePositionBySystem: the position   *)
(* is looked up; one that is not open is not closed.                       *)
(***************************************************************************)
Begin(c, p, why) ==
  /\ pc[c] = "idle"
  /\ state[p] = "OPEN"
  /\ target' = [target EXCEPT ![c] = p]
  /\ reason' = [reason EXCEPT ![c] = why]
  /\ Goto(c, "quote")
  /\ UNCHANGED <<priced, held>>

Call(c, p, why) ==
  /\ Begin(c, p, why)
  /\ UNCHANGED <<rows, env>>

\* Without a healthy quote the client gets an error and the system null.
ReadQuote(c) ==
  /\ pc[c] = "quote"
  /\ \/ /\ Healthy(target[c])
        /\ priced' = [priced EXCEPT ![c] = quote[Terms[target[c]].symbol]]
        /\ Goto(c, "live")
        /\ UNCHANGED <<target, reason, held>>
     \/ /\ ~Healthy(target[c])
        /\ Leave(c, IF reason[c] = "MANUAL" THEN "thrown" ELSE "null")
  /\ UNCHANGED <<rows, env>>

StillOpen(p) == state[p] = "OPEN"

ReadPosition(c) ==
  /\ pc[c] = "live"
  /\ \/ /\ StillOpen(target[c])
        /\ Goto(c, "account")
        /\ UNCHANGED <<target, reason, priced, held>>
     \/ /\ ~StillOpen(target[c])
        /\ Leave(c, IF reason[c] \in {"LIQUIDATION", "COPY_MASTER_CLOSE"}
                    THEN "null" ELSE "thrown")
  /\ UNCHANGED <<rows, env>>

ReadAccount(c) ==
  /\ pc[c] = "account"
  /\ held' = [held EXCEPT ![c] = balance]
  /\ Goto(c, "commit")
  /\ UNCHANGED <<rows, env, target, reason, priced>>

\* Mutants: a negative balance is written; the forgiven shortfall is not entered.
Unprotected(b) == b
NoCorrection(p, raw) == <<>>

\* Negative balance protection: what is written instead of a negative balance,
\* and the entry that writes the shortfall off.
Protected(b) == IF b > 0 THEN b ELSE 0
Correction(p, raw) ==
  IF raw < 0
  THEN <<[kind |-> "CORRECTION", position |-> p, change |-> -raw, after |-> 0]>>
  ELSE <<>>

\* The entries a close appends, when it has read the balance b.
CloseEntries(p, gain, b) ==
  <<[kind |-> IF gain >= 0 THEN "TRADE_CLOSE_GAIN" ELSE "TRADE_CLOSE_LOSS",
     position |-> p, change |-> gain, after |-> Protected(b + gain)]>>
  \o Correction(p, b + gain)

\* Mutant: a close by the system gets a status of its own.
ClosedStatusNamed(why) == IF why = "MANUAL" THEN "CLOSED" ELSE "LIQUIDATED"
ClosedStatus(why) == "CLOSED"

\* Mutants: the balance is left to a later settlement; the row stays open.
CommitUnsettled(c) ==
  LET p == target[c]
      gain == Pnl(p, priced[c])
  IN  /\ pc[c] = "commit"
      /\ state' = [state EXCEPT ![p] = ClosedStatus(reason[c])]
      /\ pnl' = [pnl EXCEPT ![p] = gain]
      /\ Goto(c, "after")
      /\ UNCHANGED <<balance, ledger, copied, env, target, reason, priced, held>>

CommitLeavesOpen(c) ==
  LET p == target[c]
      gain == Pnl(p, priced[c])
  IN  /\ pc[c] = "commit"
      /\ balance' = Protected(held[c] + gain)
      /\ ledger' = ledger \o CloseEntries(p, gain, held[c])
      /\ pnl' = [pnl EXCEPT ![p] = gain]
      /\ Goto(c, "after")
      /\ UNCHANGED <<state, copied, env, target, reason, priced, held>>

Commit(c) ==
  LET p == target[c]
      gain == Pnl(p, priced[c])
  IN  /\ pc[c] = "commit"
      /\ state' = [state EXCEPT ![p] = ClosedStatus(reason[c])]
      /\ pnl' = [pnl EXCEPT ![p] = gain]
      /\ balance' = Protected(held[c] + gain)
      /\ ledger' = ledger \o CloseEntries(p, gain, held[c])
      /\ Goto(c, "after")
      /\ UNCHANGED <<copied, env, target, reason, priced, held>>

\* Mutant: copy trading is told of the client's own closes only.
AfterManual(c) ==
  /\ pc[c] = "after"
  /\ copied' = IF reason[c] = "MANUAL" THEN copied \cup {target[c]} ELSE copied
  /\ Leave(c, "closed")
  /\ UNCHANGED <<state, pnl, balance, ledger, env>>

\* Audit log, surveillance, events, wallet mirror, then copy trading.
After(c) ==
  /\ pc[c] = "after"
  /\ copied' = copied \cup {target[c]}
  /\ Leave(c, "closed")
  /\ UNCHANGED <<state, pnl, balance, ledger, env>>

\* The caller takes the outcome.
Collect(c) ==
  /\ pc[c] \in Outcomes
  /\ Goto(c, "idle")
  /\ target' = [target EXCEPT ![c] = NoPosition]
  /\ reason' = [reason EXCEPT ![c] = "MANUAL"]
  /\ priced' = [priced EXCEPT ![c] = NoQuote]
  /\ UNCHANGED <<rows, env, held>>

-----------------------------------------------------------------------------
OneFault ==
  /\ faults < MaxFaults
  /\ faults' = faults + 1
  /\ UNCHANGED <<others, quote, moves, ticks>>

\* A read or the transaction fails and rolls back; after the commit, the audit
\* log or the surveillance rule throws.
CallFails(c) ==
  /\ pc[c] \in {"quote", "live", "account", "commit", "after"}
  /\ OneFault
  /\ Leave(c, "thrown")
  /\ UNCHANGED rows

\* The process dies with every call in flight.
Crash ==
  /\ \E c \in Closers : pc[c] # "idle"
  /\ OneFault
  /\ pc' = [c \in Closers |-> "idle"]
  /\ target' = [c \in Closers |-> NoPosition]
  /\ reason' = [c \in Closers |-> "MANUAL"]
  /\ priced' = [c \in Closers |-> NoQuote]
  /\ held' = [c \in Closers |-> 0]
  /\ UNCHANGED rows

\* The administrator's credit, deposits and withdrawals: a relative update.
OtherFunds ==
  /\ moves < MaxMoves
  /\ moves' = moves + 1
  /\ \E m \in Moves : balance' = balance + m /\ others' = others + m
  /\ UNCHANGED <<state, pnl, ledger, copied, quote, ticks, faults, local>>

MarketTick ==
  /\ ticks < MaxTicks
  /\ ticks' = ticks + 1
  /\ \E s \in Symbols, q \in Quotes : quote' = [quote EXCEPT ![s] = q]
  /\ UNCHANGED <<rows, others, moves, faults, local>>

CloserStep(c) ==
  \/ ReadQuote(c) \/ ReadPosition(c) \/ ReadAccount(c) \/ Commit(c) \/ After(c)

Next ==
  \/ \E c \in Closers, p \in Positions, why \in Callers : Call(c, p, why)
  \/ \E c \in Closers : CloserStep(c) \/ Collect(c) \/ CallFails(c)
  \/ Crash \/ OtherFunds \/ MarketTick

Spec == Init /\ [][Next]_vars

-----------------------------------------------------------------------------
TypeOK ==
  /\ state \in [Positions -> {"OPEN", "CLOSED"}]
  /\ pnl \in [Positions -> Int]
  /\ balance \in Int
  /\ others \in Int
  /\ ledger \in Seq(Entry)
  /\ copied \in SUBSET Positions
  /\ quote \in [Symbols -> Quotes]
  /\ moves \in 0 .. MaxMoves
  /\ ticks \in 0 .. MaxTicks
  /\ faults \in 0 .. MaxFaults
  /\ pc \in [Closers -> PCs]
  /\ target \in [Closers -> Positions]
  /\ reason \in [Closers -> Reasons]
  /\ priced \in [Closers -> Quotes]
  /\ held \in [Closers -> Int]

Trades(p) == {i \in DOMAIN ledger : ledger[i].position = p /\ ledger[i].kind # "CORRECTION"}
LedgerSum == MapThenSumSet(LAMBDA i : ledger[i].change, DOMAIN ledger)

(***************************************************************************)
(* What holds whatever is in flight.                                       *)
(***************************************************************************)

\* A position is closed if, and only if, its result is in the ledger: no close
\* is half done, whichever call failed, lost the race or died.
ClosedIffEntered ==
  \A p \in Positions : state[p] = "CLOSED" <=> Trades(p) # {}

\* "Client can never owe the broker money": however closes overlap each other
\* and credits, the balance is never negative.
NeverOwes == balance >= 0

\* Without a fault, copy trading hears of every close, once its call is over.
EveryCloseIsCopied ==
  faults = 0 =>
    \A p \in Positions \ OpenOnes :
      p \in copied \/ \E c \in Closers : target[c] = p /\ pc[c] = "after"

(***************************************************************************)
(* What holds when closes do not overlap each other or other movements.    *)
(***************************************************************************)

\* Every position is settled once.
SettledOnce == \A p \in Positions : Cardinality(Trades(p)) <= 1

\* balance-ledger.service.ts: the last entry's balanceAfter always matches the
\* account's balance.
LastEntryMatchesBalance == ledger # <<>> => ledger[Len(ledger)].after = balance
=============================================================================
