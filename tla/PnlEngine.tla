------------------------------ MODULE PnlEngine ------------------------------
(***************************************************************************)
(* The PnL engine (pnl-engine.service.ts): once a second, unless the last  *)
(* round is still running, it marks every open position to market, closes  *)
(* those whose stop loss or take profit is met, and liquidates the account *)
(* position by position while its margin level is at or below 50.          *)
(*                                                                         *)
(* It closes through PositionClose, where it is one more caller. All the   *)
(* positions of a round are handled at once (Promise.all), so its own      *)
(* protective closes overlap; liquidations are awaited one by one.         *)
(***************************************************************************)
EXTENDS PositionClose

VARIABLES
  loop,      \* where the engine is in processLoop
  listed,    \* open positions of this round not yet handled
  stored,    \* position.pnl of each when they were read
  marked,    \* positions of this round marked to market
  seen,      \* the quotes of this round
  awaited,   \* its calls of closeOpenPosition it has not heard of
  queue,     \* positions handleLiquidationIfNeeded has not tried
  account    \* its own book of the account: balance, PnL and margin left

engine  == <<loop, listed, stored, marked, seen, awaited, queue, account>>
allVars == <<vars, engine>>

NoBook == [balance |-> 0, pnl |-> 0, margin |-> 0]
Unread == [p \in Positions |-> 0]

EngineInit ==
  /\ Init
  /\ loop = "idle"
  /\ listed = {}
  /\ stored = Unread
  /\ marked = {}
  /\ seen = quote
  /\ awaited = {}
  /\ queue = {}
  /\ account = NoBook

-----------------------------------------------------------------------------
PnlOf(S, quotes) == MapThenSumSet(LAMBDA p : Pnl(p, quotes[Terms[p].symbol]), S)
MarginOf(S)      == MapThenSumSet(LAMBDA p : Terms[p].margin, S)

\* calculateMarginLevel is a level, and at most 50
StopOut(equity, margin) == margin > 0 /\ 2 * equity <= margin

\* resolveProtectiveTrigger
Triggered(p, q) ==
  LET t == Terms[p]
  IN  \/ t.side = "BUY" /\ t.stop # None /\ q.bid <= t.stop
      \/ t.side = "BUY" /\ t.take # None /\ q.bid >= t.take
      \/ t.side = "SELL" /\ t.stop # None /\ q.ask >= t.stop
      \/ t.side = "SELL" /\ t.take # None /\ q.ask <= t.take

\* The round is over: isProcessing is false again. Calls it has not heard of,
\* if another of them threw, run on.
EndRound ==
  /\ loop' = "idle"
  /\ listed' = {}
  /\ stored' = Unread
  /\ marked' = {}
  /\ awaited' = {}
  /\ queue' = {}
  /\ account' = NoBook
  /\ UNCHANGED seen

\* The timer fires: open positions and their quotes are read.
StartRound ==
  /\ loop = "idle"
  /\ OpenOnes # {}
  /\ loop' = "mark"
  /\ listed' = OpenOnes
  /\ stored' = pnl
  /\ seen' = quote
  /\ UNCHANGED <<vars, marked, awaited, queue, account>>

\* A position without a healthy quote takes no part in the round.
Skip(p) ==
  /\ loop = "mark" /\ p \in listed
  /\ ~seen[Terms[p].symbol].healthy
  /\ listed' = listed \ {p}
  /\ UNCHANGED <<vars, loop, stored, marked, seen, awaited, queue, account>>

\* closePositionBySystem on a stop loss or a take profit
Trigger(p) ==
  /\ loop = "mark" /\ p \in listed
  /\ seen[Terms[p].symbol].healthy
  /\ Triggered(p, seen[Terms[p].symbol])
  /\ listed' = listed \ {p}
  /\ \/ /\ state[p] # "OPEN"
        /\ UNCHANGED <<local, awaited>>
     \/ \E c \in Closers :
          /\ Begin(c, p, "PROTECTIVE")
          /\ awaited' = awaited \cup {c}
  /\ UNCHANGED <<rows, env, loop, stored, marked, seen, queue, account>>

\* The PnL, if it is another than the one read, is written by id: the row may
\* have been closed since.
Mark(p) ==
  /\ loop = "mark" /\ p \in listed
  /\ seen[Terms[p].symbol].healthy
  /\ ~Triggered(p, seen[Terms[p].symbol])
  /\ LET value == Pnl(p, seen[Terms[p].symbol])
     IN  pnl' = IF stored[p] # value THEN [pnl EXCEPT ![p] = value] ELSE pnl
  /\ listed' = listed \ {p}
  /\ marked' = marked \cup {p}
  /\ UNCHANGED <<state, balance, ledger, copied, env, local, loop, stored, seen, awaited, queue, account>>

\* A call the engine awaits has an outcome, and the engine goes on with it.
HearsOf(c, outcomes) ==
  /\ c \in awaited
  /\ pc[c] \in outcomes
  /\ Collect(c)

\* Mutant: the position is not left out, but marked at the quotes of the round.
ProtectsAndMarks(c) ==
  /\ loop = "mark"
  /\ c \in awaited /\ pc[c] \in {"closed", "null"}
  /\ pnl' = [pnl EXCEPT ![target[c]] = Pnl(target[c], seen[Terms[target[c]].symbol])]
  /\ marked' = marked \cup {target[c]}
  /\ Goto(c, "idle")
  /\ target' = [target EXCEPT ![c] = NoPosition]
  /\ reason' = [reason EXCEPT ![c] = "MANUAL"]
  /\ priced' = [priced EXCEPT ![c] = NoQuote]
  /\ awaited' = awaited \ {c}
  /\ UNCHANGED <<state, balance, ledger, copied, env, held, loop, listed, stored, seen, queue, account>>

\* A protective close is done; null or not, its position is left out.
Protects(c) ==
  /\ loop = "mark"
  /\ HearsOf(c, {"closed", "null"})
  /\ awaited' = awaited \ {c}
  /\ UNCHANGED <<loop, listed, stored, marked, seen, queue, account>>

\* All are handled: the account is read, its equity computed, and if its margin
\* level is at or below 50 liquidation starts.
Assess ==
  /\ loop = "mark" /\ listed = {} /\ awaited = {}
  /\ LET up   == PnlOf(marked, seen)
         used == MarginOf(marked)
     IN  \/ /\ StopOut(balance + up, used)
            /\ loop' = "liquidate"
            /\ queue' = marked
            /\ account' = [balance |-> balance, pnl |-> up, margin |-> used]
            /\ UNCHANGED <<listed, stored, marked, seen, awaited>>
         \/ /\ ~StopOut(balance + up, used)
            /\ EndRound
  /\ UNCHANGED vars

Worst(S) == {p \in S : \A x \in S : Pnl(p, seen[Terms[p].symbol]) <= Pnl(x, seen[Terms[x].symbol])}

\* Mutant: liquidation stops while the account is still worth something.
Level0   == account.margin > 0 /\ account.balance + account.pnl <= 0
Level50  == StopOut(account.balance + account.pnl, account.margin)

\* liquidatePosition of the worst of the queue; one that is not open is null.
Liquidate ==
  /\ loop = "liquidate"
  /\ queue # {}
  /\ Level50
  /\ \E p \in Worst(queue) :
       /\ queue' = queue \ {p}
       /\ \/ /\ state[p] # "OPEN"
             /\ UNCHANGED <<local, loop, awaited>>
          \/ \E c \in Closers :
               /\ Begin(c, p, "LIQUIDATION")
               /\ awaited' = {c}
               /\ loop' = "await"
  /\ UNCHANGED <<rows, env, listed, stored, marked, seen, account>>

\* Mutant: the margin of the liquidated position stays in use.
AfterLiquidationKeeping(p, gain) ==
  [account EXCEPT !.balance = @ + gain, !.pnl = @ - Pnl(p, seen[Terms[p].symbol])]

\* The engine adds the result to its own copy of the balance.
AfterLiquidation(p, gain) ==
  [balance |-> account.balance + gain,
   pnl     |-> account.pnl - Pnl(p, seen[Terms[p].symbol]),
   margin  |-> account.margin - Terms[p].margin]

\* A null result leaves the book as it is, and the level with it.
Liquidated(c) ==
  /\ loop = "await"
  /\ HearsOf(c, {"closed", "null"})
  /\ account' = IF pc[c] = "closed"
                THEN AfterLiquidation(target[c], Pnl(target[c], priced[c]))
                ELSE account
  /\ awaited' = {}
  /\ loop' = "liquidate"
  /\ UNCHANGED <<listed, stored, marked, seen, queue>>

LiquidationEnds ==
  /\ loop = "liquidate"
  /\ queue = {} \/ ~Level50
  /\ EndRound
  /\ UNCHANGED vars

\* Mutant: there is no finally, so a throw leaves isProcessing set.
AbortsForGood(c) ==
  /\ loop \in {"mark", "await"}
  /\ HearsOf(c, {"thrown"})
  /\ loop' = "stuck"
  /\ UNCHANGED <<listed, stored, marked, seen, awaited, queue, account>>

\* A close throws: the round is over, for every account.
Aborts(c) ==
  /\ loop \in {"mark", "await"}
  /\ HearsOf(c, {"thrown"})
  /\ EndRound

\* A read or a write of the engine's own fails; those made while it liquidates
\* (the audit log) are caught, but the process may restart there.
RoundFails ==
  /\ \/ loop = "mark"
     \/ loop = "liquidate" /\ \A c \in Closers : pc[c] = "idle"
  /\ OneFault
  /\ EndRound
  /\ UNCHANGED <<rows, local>>

EngineStep ==
  \/ StartRound
  \/ \E p \in Positions : Skip(p) \/ Trigger(p) \/ Mark(p)
  \/ \E c \in Closers : Protects(c) \/ Liquidated(c) \/ Aborts(c)
  \/ Assess \/ Liquidate \/ LiquidationEnds

EngineNext ==
  \/ EngineStep
  \/ RoundFails
  \/ /\ \/ \E c \in Closers, p \in Positions, why \in Callers : Call(c, p, why)
        \/ \E c \in Closers : CloserStep(c) \/ CallFails(c)
        \/ \E c \in Closers \ awaited : Collect(c)
        \/ OtherFunds \/ MarketTick
     /\ UNCHANGED engine
  \/ Crash /\ EndRound

EngineSpec == EngineInit /\ [][EngineNext]_allVars

(***************************************************************************)
(* Fairness: the timer fires every second and awaits come back, so the     *)
(* engine and every call in flight go on, and callers take their outcomes. *)
(***************************************************************************)
EngineFairness ==
  /\ WF_allVars(EngineStep)
  /\ \A c \in Closers : /\ WF_allVars(CloserStep(c) /\ UNCHANGED engine)
                        /\ WF_allVars(c \notin awaited /\ Collect(c) /\ UNCHANGED engine)

FairEngineSpec == EngineSpec /\ EngineFairness

-----------------------------------------------------------------------------
EngineTypeOK ==
  /\ TypeOK
  /\ loop \in {"idle", "mark", "liquidate", "await"}
  /\ listed \in SUBSET Positions
  /\ stored \in [Positions -> Int]
  /\ marked \in SUBSET Positions
  /\ seen \in [Symbols -> Quotes]
  /\ awaited \in SUBSET Closers
  /\ queue \in SUBSET Positions
  /\ account \in [balance : Int, pnl : Int, margin : Int]

(***************************************************************************)
(* What holds while the engine alone closes positions, and no call of its  *)
(* fails: after a failure a round may overlap closes of the one before.    *)
(***************************************************************************)

\* The row of a closed position keeps the PnL that was posted to the ledger:
\* marking to market never overwrites a realized result.
RealizedPnlIsKept ==
  faults = 0 =>
    \A p \in Positions : state[p] = "CLOSED" =>
      \E i \in Trades(p) : pnl[p] = ledger[i].change

\* Its rounds, and the protective closes it runs at once, settle a position once.
EngineSettlesOnce == faults = 0 => SettledOnce

\* Rounds, their protective closes and the next round's marks together leave
\* each position one result.
EngineKeepsResults == EngineTypeOK /\ RealizedPnlIsKept /\ EngineSettlesOnce

\* At the quotes of the round, the account is at or below the stop-out level.
AccountAtStopOut == StopOut(balance + PnlOf(OpenOnes, seen), MarginOf(OpenOnes))

Forgiven == \E i \in DOMAIN ledger : ledger[i].kind = "CORRECTION"

\* While the round counts every position that is open, none is liquidated once
\* its predecessors' liquidation brought the account above the level: the
\* engine's own book tells the truth, though prices go on moving. (Positions
\* without a healthy quote, or whose protective close came back with null, do
\* not count; and what negative balance protection forgave stays in the book.)
LiquidatesOnlyAtStopOut ==
  [][\A c \in Closers :
       /\ faults = 0 /\ ~Forgiven
       /\ OpenOnes \subseteq marked
       /\ pc[c] = "idle" /\ pc'[c] = "quote" /\ reason'[c] = "LIQUIDATION"
       => AccountAtStopOut]_allVars

(***************************************************************************)
(* What the documents promise of overlapping closes.                       *)
(***************************************************************************)

\* docs/database-review.md: "Core balance mutations are transactional." Every
\* result that was posted, and every shortfall forgiven, is in the balance.
NoResultIsLost == balance = Opening + others + LedgerSum

(***************************************************************************)
(* Liveness, under FairEngineSpec                                          *)
(***************************************************************************)
AllHealthy == \A p \in OpenOnes : Healthy(p)
LevelIsMet == StopOut(balance + PnlOf(OpenOnes, quote), MarginOf(OpenOnes))

\* An account at the stop-out level does not stay there while its quotes are
\* healthy, whichever rounds and calls failed before.
StopOutIsEnforced == []<>~(AllHealthy /\ LevelIsMet)

\* A stop loss or take profit that stays met closes its position.
ProtectionIsHonoured ==
  \A p \in Positions : Terms[p].stop # None \/ Terms[p].take # None =>
    []<>(state[p] = "CLOSED" \/ ~Healthy(p) \/ ~Triggered(p, quote[Terms[p].symbol]))
=============================================================================
