-------------------------- MODULE MCOrderExecution --------------------------
(***************************************************************************)
(* Instances of OrderExecution for TLC: the requests and quotes the runs   *)
(* use, and the symmetry of the processes.                                 *)
(***************************************************************************)
EXTENDS OrderExecution, TLC

Req(t, s, p, m) == [type |-> t, side |-> s, price |-> p, margin |-> m]
Quote(b, a, st) == [bid |-> b, ask |-> a, state |-> st]

MarketOnly    == {Req("MARKET", "BUY", 1, 1)}
MarketOrLimit == {Req("MARKET", "BUY", 1, 1), Req("LIMIT", "BUY", 2, 1)}
MarketOrSell  == {Req("MARKET", "BUY", 1, 1), Req("LIMIT", "SELL", 3, 1)}

OneQuote   == {Quote(1, 2, "LIVE")}
TwoQuotes  == {Quote(1, 2, "LIVE"), Quote(3, 4, "LIVE")}
AllStates  == TwoQuotes \cup {Quote(2, 3, "CLOSED"), Quote(2, 3, "UNHEALTHY")}

ProcSymmetry == Permutations(Callers) \cup Permutations(Workers)
=============================================================================
