----------------------------- MODULE MCPnlEngine -----------------------------
(***************************************************************************)
(* Instances of PnlEngine for TLC: positions, quotes and balances at which *)
(* stops are met, the account falls below the level, and liquidating one   *)
(* position is or is not enough.                                           *)
(***************************************************************************)
EXTENDS PnlEngine, TLC

Pos(s, d, e, m, sl, tp) ==
  [symbol |-> s, side |-> d, entry |-> e, margin |-> m, stop |-> sl, take |-> tp]
Quote(b, h) == [bid |-> b, ask |-> b + 1, healthy |-> h]

\* Two buys with the same stop loss; and a buy with a take profit beside a
\* buy without and a sell whose stop loss secures its profit.
TwoStops == 1 :> Pos("eur", "BUY", 5, 2, 3, None) @@ 2 :> Pos("eur", "BUY", 6, 4, 3, None)
Triple   == 1 :> Pos("eur", "BUY", 1, 6, None, 2) @@ 2 :> Pos("usd", "BUY", 7, 4, None, None)
            @@ 3 :> Pos("usd", "SELL", 9, 2, 3, None)

MarketQuotes  == {Quote(2, TRUE), Quote(6, TRUE), Quote(2, FALSE)}
WideQuotes    == {Quote(0, TRUE), Quote(2, TRUE), Quote(0, FALSE)}
Nothing       == {}

CloserSymmetry == Permutations(Closers)
=============================================================================
