----------------------------- MODULE MCDeposits -----------------------------
(***************************************************************************)
(* Instances of Deposits for TLC: up to two transfers, and requests that   *)
(* give the hash of a transfer, that give it in other case, and that give  *)
(* none, of the amount that arrives or of another.                         *)
(***************************************************************************)
EXTENDS Deposits, TLC

Same  == [t \in Transfers |-> 1]

Ask(hash, amount) == [hash |-> hash, amount |-> amount, timely |-> TRUE]
Given    == {Ask(Exact(1), 1)}
Declared == {Ask(NoHash, 1)}
Spelled  == {Ask([of |-> 1, exact |-> FALSE], 1)}
Every    == Given \cup Declared \cup Spelled
              \cup {Ask(NoHash, 2), [Ask(NoHash, 1) EXCEPT !.timely = FALSE]}

AdminSymmetry == Permutations(Admins)
=============================================================================
