---------------------------- MODULE DepositFlow ----------------------------
(***************************************************************************)
(* src/frontend: adding collateral takes two transactions that the user    *)
(* signs in a wallet.  The first lets the vault take the amount; the page  *)
(* waits for it, then has the deposit signed, and does not wait for that.  *)
(* The vault and its token are StayerVault's.                              *)
(*                                                                         *)
(* A flow is one run of the form's mutation.  A user may have several at   *)
(* once: leaving the tab unmounts the form and the flow goes on, and the   *)
(* form that is mounted on return knows nothing of it.  All of them set    *)
(* the same allowance.                                                     *)
(***************************************************************************)
EXTENDS Integers, FiniteSets, Functions

CONSTANTS
  \* the vault's, see StayerVault
  Users, DEFAULT_LTV, DEFAULT_LIQ_THRESHOLD, DEFAULT_LIQ_PENALTY,
  DEFAULT_MIN_COLLATERAL, BASIS_POINTS, MOTES_PER_CSPR, U64, Endowment,
  YSCSPRAmounts, CUSDAmounts, Prices, Rates, MaxDebt,
  \* the page's
  Flows,
  CENT                \* the unit balances are shown in, 10^7 motes

VARIABLES
  positions, total_collateral, total_debt, y_balances, y_allowances, y_supply,
  c_balances, c_supply, price, exchange_rate,    \* see StayerVault
  balance,            \* the page's copy of each user's balance
  flows,
  in_flight,          \* transactions that the network has not executed
  results             \* of the approvals that were executed

StayerVault == INSTANCE StayerVault

vaultVars == <<positions, total_collateral, total_debt, y_balances, y_allowances,
               y_supply, c_balances, c_supply, price, exchange_rate>>
vars == <<vaultVars, balance, flows, in_flight, results>>

ASSUME FlowAssumption ==
  CENT \in Nat \ {0} /\ IsFiniteSet(Flows) /\ YSCSPRAmounts \subseteq Nat

\* A flow has its user, its amount, and a stage: "sign approve", "wait",
\* "sign deposit", and then "done" or "failed".  Its transactions:
Approval(f) == [call |-> "approve", flow |-> f]
DepositOf(f) == [call |-> "deposit", flow |-> f]

Init ==
  /\ StayerVault!Init
  /\ balance = [user \in Users |-> 0]
  /\ flows = [f \in {} |-> 0]
  /\ in_flight = {}
  /\ results = [f \in {} |-> 0]

MovesTo(f, stage) == flows' = [flows EXCEPT ![f].stage = stage]

-----------------------------------------------------------------------------
(***************************************************************************)
(* The page.                                                               *)
(***************************************************************************)
\* Queries run again when a form is mounted, a window is shown, a flow ends.
Fetch(user) ==
  /\ balance' = [balance EXCEPT ![user] = y_balances[user]]
  /\ UNCHANGED <<vaultVars, flows, in_flight, results>>

\* Rounded half up, so it may be more than there is.
WalletBalance(user) == ((balance[user] + CENT \div 2) \div CENT) * CENT

IsValidAmount(user, amount) == 0 < amount /\ amount <= WalletBalance(user)

Submit(f, user, amount) ==
  /\ f \notin DOMAIN flows
  /\ IsValidAmount(user, amount)
  /\ flows' = [g \in DOMAIN flows \cup {f} |->
                 IF g # f THEN flows[g]
                 ELSE [user |-> user, amount |-> amount, stage |-> "sign approve"]]
  /\ UNCHANGED <<vaultVars, balance, in_flight, results>>

\* At either prompt the user may cancel, or the wallet give no result.
Cancel(f) ==
  /\ flows[f].stage \in {"sign approve", "sign deposit"}
  /\ MovesTo(f, "failed")
  /\ UNCHANGED <<vaultVars, balance, in_flight, results>>

\* A result without a hash skips the wait; it may be an error that the page
\* does not look at, and then no transaction was sent.
SignApprove(f) ==
  /\ flows[f].stage = "sign approve"
  /\ \/ /\ in_flight' = in_flight \cup {Approval(f)}
        /\ MovesTo(f, "wait")
     \/ /\ in_flight' \in {in_flight, in_flight \cup {Approval(f)}}
        /\ MovesTo(f, "sign deposit")
  /\ UNCHANGED <<vaultVars, balance, results>>

\* waitForDeployOrTransaction returns when the node has a result.
ApprovalSeen(f) ==
  /\ flows[f].stage = "wait"
  /\ f \in DOMAIN results
  /\ MovesTo(f, IF results[f] = "success" THEN "sign deposit" ELSE "failed")
  /\ UNCHANGED <<vaultVars, balance, in_flight, results>>

\* Five minutes have passed, or the node did not answer for as long.
WaitTimesOut(f) ==
  /\ flows[f].stage = "wait"
  /\ MovesTo(f, "failed")
  /\ UNCHANGED <<vaultVars, balance, in_flight, results>>

SignDeposit(f) ==
  /\ flows[f].stage = "sign deposit"
  /\ in_flight' \in {in_flight, in_flight \cup {DepositOf(f)}}
  /\ MovesTo(f, "done")
  /\ UNCHANGED <<vaultVars, balance, results>>

-----------------------------------------------------------------------------
(***************************************************************************)
(* The network: transactions are executed in any order, fail (a revert, or *)
(* the gas paid for runs out) or expire.                                   *)
(***************************************************************************)
Result(f, result) ==
  results' = [g \in DOMAIN results \cup {f} |-> IF g = f THEN result ELSE results[g]]

ApproveVault(f) ==
  /\ StayerVault!YSCSPR!Approve(flows[f].user, StayerVault!Vault, flows[f].amount)
  /\ Result(f, "success")
  /\ UNCHANGED <<positions, total_collateral, total_debt, c_balances, c_supply,
                 price, exchange_rate>>

Execute(tx) ==
  /\ \/ /\ tx.call = "approve"
        /\ ApproveVault(tx.flow)
     \/ /\ tx.call = "deposit"
        /\ StayerVault!Deposit(flows[tx.flow].user, flows[tx.flow].amount)
        /\ UNCHANGED results
  /\ in_flight' = in_flight \ {tx}
  /\ UNCHANGED <<balance, flows>>

Fails(tx) ==
  /\ IF tx.call = "approve" THEN Result(tx.flow, "failure") ELSE UNCHANGED results
  /\ in_flight' = in_flight \ {tx}
  /\ UNCHANGED <<vaultVars, balance, flows>>

Expires(tx) ==
  /\ in_flight' = in_flight \ {tx}
  /\ UNCHANGED <<vaultVars, balance, flows, results>>

-----------------------------------------------------------------------------
FlowSteps(f) ==
  Cancel(f) \/ SignApprove(f) \/ ApprovalSeen(f) \/ WaitTimesOut(f) \/ SignDeposit(f)

Next ==
  \/ \E user \in Users : Fetch(user)
  \/ \E f \in Flows, user \in Users, amount \in YSCSPRAmounts : Submit(f, user, amount)
  \/ \E f \in DOMAIN flows : FlowSteps(f)
  \/ \E tx \in in_flight : Execute(tx) \/ Fails(tx) \/ Expires(tx)

Spec == Init /\ [][Next]_vars

-----------------------------------------------------------------------------
(***************************************************************************)
(* Properties.                                                             *)
(***************************************************************************)
ApprovedBy(user) == {f \in DOMAIN results : results[f] = "success" /\ flows[f].user = user}

\* The vault takes no more from a user than her approvals that were executed
\* allow, each of them used once: with deposits that did not wait for theirs,
\* approvals executed after their flow gave them up and several flows that set
\* and use up one allowance, what she has locked and what the vault may still
\* take are together no more than the sum of what she approved.
CollateralIsApproved ==
  \A user \in Users :
    StayerVault!Collateral(user) + y_allowances[<<user, StayerVault!Vault>>]
      <= SumFunctionOnSet([f \in ApprovedBy(user) |-> flows[f].amount], ApprovedBy(user))
=============================================================================
