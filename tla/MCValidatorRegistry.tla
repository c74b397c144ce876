------------------------ MODULE MCValidatorRegistry ------------------------
(***************************************************************************)
(* An instance of ValidatorRegistry for TLC: batches of up to three of two *)
(* validators, so that batches are too long, name a validator twice, and   *)
(* overlap earlier ones in part; fees and averages on both sides of their  *)
(* bounds; callers up to two eras behind the network.                      *)
(***************************************************************************)
EXTENDS ValidatorRegistry, TLC

CONSTANTS v1, v2

Symmetry == Permutations({v1, v2})
=============================================================================
