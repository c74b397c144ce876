--------------------------- MODULE MCPriceOracle ---------------------------
(***************************************************************************)
(* An instance of PriceOracle for TLC: prices below, on and above the      *)
(* bounds, and a clock that passes the default and the shorter age.        *)
(***************************************************************************)
EXTENDS PriceOracle
=============================================================================
