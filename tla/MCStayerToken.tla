--------------------------- MODULE MCStayerToken ---------------------------
(***************************************************************************)
(* An instance of StayerToken for TLC: two holders and the minting         *)
(* contract, amounts that meet, exceed and fall short of the balances.     *)
(***************************************************************************)
EXTENDS StayerToken, TLC

CONSTANTS alice, bob, carol

Symmetry == Permutations(Accounts)
=============================================================================
