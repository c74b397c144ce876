--------------------------- MODULE MCDepositFlow ---------------------------
(***************************************************************************)
(* An instance of DepositFlow for TLC: two users with three flows.         *)
(***************************************************************************)
EXTENDS DepositFlow, TLC

CONSTANTS f1, f2, f3

Symmetry == Permutations(Flows)
=============================================================================
