--------------------------- MODULE MCPricedVault ---------------------------
(***************************************************************************)
(* An instance of PricedVault for TLC: one borrower, and an oracle whose   *)
(* price goes stale after two ticks.  Scaled as MCStayerVault is.          *)
(***************************************************************************)
EXTENDS PricedVault
=============================================================================
