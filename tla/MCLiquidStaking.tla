-------------------------- MODULE MCLiquidStaking --------------------------
(***************************************************************************)
(* Instances of LiquidStaking for TLC.  Amounts are scaled down: BASIS_    *)
(* POINTS and MOTES_PER_CSPR are 10, so that multipliers of 0.5, 1 and 1.5 *)
(* and the flooring divisions of the code are all met with small numbers.  *)
(***************************************************************************)
EXTENDS LiquidStaking, TLC

CONSTANTS alice, bob

Symmetry == Permutations({alice, bob})
=============================================================================
