--------------------------- MODULE MCStayerVault ---------------------------
(***************************************************************************)
(* Instances of StayerVault for TLC.  BASIS_POINTS and MOTES_PER_CSPR are  *)
(* 10, so an LTV of 50%, a threshold of 110% and a penalty of 10% are 5,   *)
(* 11 and 1.                                                               *)
(***************************************************************************)
EXTENDS StayerVault, TLC

CONSTANTS alice, bob

Symmetry == Permutations({alice, bob})
=============================================================================
