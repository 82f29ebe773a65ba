---------------------------- MODULE MCWithdrawals ----------------------------
(***************************************************************************)
(* Instances of Withdrawals for TLC.                                       *)
(***************************************************************************)
EXTENDS Withdrawals, TLC

Credits == {1}
Losses  == {-2}

AdminSymmetry == Permutations(Admins)
=============================================================================
