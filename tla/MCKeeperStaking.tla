-------------------------- MODULE MCKeeperStaking --------------------------
(***************************************************************************)
(* An instance of KeeperStaking for TLC: the amounts of MCLiquidStaking,   *)
(* where every stake may be delegated.  The lists are one stake to         *)
(* delegate, and to undelegate a stake with its reward, which is more than *)
(* anybody asks back; overlapping handlers may both have read them.        *)
(***************************************************************************)
EXTENDS KeeperStaking

CONSTANTS j1, j2, v1

MCLists == [delegations   |-> {<<[v |-> v1, amount |-> 20]>>},
            undelegations |-> {<<[v |-> v1, amount |-> 30]>>}]

MCHandlers ==
  [j \in Jobs |->
     {<<"delegations">>, IF j = j1 THEN <<"harvest">> ELSE <<"undelegations", "deposits">>}]
=============================================================================
