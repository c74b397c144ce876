-------------------------- MODULE MCKeeperRegistry --------------------------
(***************************************************************************)
(* An instance of KeeperRegistry for TLC: v1 leaves the auction's active   *)
(* set as v3, which has no score in the first era, joins it, v2 scores     *)
(* beyond 100, and the average of two eras is rounded.                     *)
(***************************************************************************)
EXTENDS KeeperRegistry

CONSTANTS v1, v2, v3

MCTables ==
  LET Good(v) == [pubkey |-> v, fee |-> 5, is_active |-> TRUE]
      left == [pubkey |-> v1, fee |-> 10, is_active |-> FALSE]
      two == <<Good(v1), Good(v2)>>
      three == <<left, Good(v2), Good(v3)>>
  IN  [e \in Eras |-> IF e = 1 THEN {two} ELSE {two, three}]
MCPerformance ==
  [e \in Eras |-> [v \in IF e = 1 THEN {v1, v2} ELSE Validators |->
                    IF v = v2 THEN 120 ELSE IF e = 1 THEN 50 ELSE 52]]
=============================================================================
