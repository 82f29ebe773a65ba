--------------------------- MODULE MCPositionClose ---------------------------
(***************************************************************************)
(* Instances of PositionClose for TLC: two positions of one symbol, a buy  *)
(* at 5 and a sell at 3, and quotes at which each of them gains, loses,    *)
(* and loses more than the account has.                                    *)
(***************************************************************************)
EXTENDS PositionClose, TLC

Pos(s, d, e, m, sl, tp) ==
  [symbol |-> s, side |-> d, entry |-> e, margin |-> m, stop |-> sl, take |-> tp]
Quote(b, h) == [bid |-> b, ask |-> b + 1, healthy |-> h]

TwoSides == 1 :> Pos("eur", "BUY", 5, 2, None, None) @@ 2 :> Pos("eur", "SELL", 3, 2, None, None)

MarketQuotes == {Quote(1, TRUE), Quote(6, TRUE), Quote(3, FALSE)}
Credits      == {2}
Nothing      == {}

CloserSymmetry == Permutations(Closers)
=============================================================================
