------------------------- MODULE DepositFlow_proofs -------------------------
(***************************************************************************)
(* What TLC checks of three flows of two users, for any number of both.    *)
(***************************************************************************)
EXTENDS DepositFlow, SumLemmas, TLAPS

Stages == {"sign approve", "wait", "sign deposit", "done", "failed"}
Flow == [user : Users, amount : YSCSPRAmounts, stage : Stages]
Transaction == [call : {"approve", "deposit"}, flow : Flows]

Allowed(user) == y_allowances[<<user, StayerVault!Vault>>]
Amounts(S) == [f \in S |-> flows[f].amount]
Approved(user) == SumFunctionOnSet(Amounts(ApprovedBy(user)), ApprovedBy(user))

FlowsOK == DOMAIN flows \subseteq Flows /\ flows \in [DOMAIN flows -> Flow]

LedgerOK ==
  /\ y_allowances \in [StayerVault!Holders \X StayerVault!Holders -> Nat]
  /\ \A user \in Users : StayerVault!Collateral(user) \in Nat

InFlightOK == \A tx \in in_flight : tx \in Transaction /\ tx.flow \in DOMAIN flows

\* A flow's approval is sent once, and executed once.
ResultsOK ==
  /\ DOMAIN results \subseteq DOMAIN flows
  /\ \A f \in DOMAIN flows :
       /\ flows[f].stage = "sign approve" => Approval(f) \notin in_flight
       /\ flows[f].stage = "sign approve" \/ Approval(f) \in in_flight => f \notin DOMAIN results

IInv == FlowsOK /\ LedgerOK /\ InFlightOK /\ ResultsOK /\ CollateralIsApproved

-----------------------------------------------------------------------------
LEMMA NewFlowNotInFlight ==
  ASSUME IInv, NEW f, f \notin DOMAIN flows
  PROVE  Approval(f) \notin in_flight
BY DEF IInv, InFlightOK, Approval

LEMMA ApprovedIsNat ==
  ASSUME IInv, NEW user \in Users
  PROVE  /\ IsFiniteSet(ApprovedBy(user)) /\ ApprovedBy(user) \subseteq DOMAIN flows
         /\ \A f \in ApprovedBy(user) : Amounts(ApprovedBy(user))[f] \in Nat
         /\ Approved(user) \in Nat
<1>1. ApprovedBy(user) \subseteq DOMAIN flows /\ DOMAIN flows \subseteq Flows
  BY DEF IInv, FlowsOK, ResultsOK, ApprovedBy
<1>2. IsFiniteSet(ApprovedBy(user))
  BY <1>1, FS_Subset, FlowAssumption
<1>3. \A f \in DOMAIN flows : flows[f].amount \in Nat
  BY FlowAssumption DEF IInv, FlowsOK, Flow
<1>4. \A f \in ApprovedBy(user) : Amounts(ApprovedBy(user))[f] \in Nat
  BY <1>1, <1>3 DEF Amounts
<1>5. Approved(user) \in Nat
  BY <1>2, <1>4, SumOnNat DEF Approved
<1> QED BY <1>1, <1>2, <1>4, <1>5

\* A step that leaves the ledger and the successes alone, and the users and
\* amounts of the flows they are of, leaves the property alone.
LEMMA SameBooks ==
  ASSUME IInv, UNCHANGED <<positions, y_allowances>>,
         NEW user \in Users,
         ApprovedBy(user)' = ApprovedBy(user),
         \A f \in ApprovedBy(user) : flows'[f].amount = flows[f].amount
  PROVE  /\ StayerVault!Collateral(user)' = StayerVault!Collateral(user)
         /\ Allowed(user)' = Allowed(user)
         /\ Approved(user)' = Approved(user)
<1>1. StayerVault!Collateral(user)' = StayerVault!Collateral(user)
  BY DEF StayerVault!Collateral
<1>2. Allowed(user)' = Allowed(user)
  BY DEF Allowed
<1>3. Amounts(ApprovedBy(user))' = Amounts(ApprovedBy(user))
  BY DEF Amounts
<1> QED BY <1>1, <1>2, <1>3 DEF Approved

LEMMA SameLedger ==
  ASSUME IInv, UNCHANGED <<positions, y_allowances>>,
         \A user \in Users : ApprovedBy(user)' = ApprovedBy(user),
         \A f \in DOMAIN results : flows'[f].amount = flows[f].amount
  PROVE  LedgerOK' /\ CollateralIsApproved'
<1>1. ASSUME NEW user \in Users
      PROVE  /\ StayerVault!Collateral(user)' = StayerVault!Collateral(user)
             /\ Allowed(user)' = Allowed(user)
             /\ Approved(user)' = Approved(user)
  <2>1. \A f \in ApprovedBy(user) : flows'[f].amount = flows[f].amount
    BY DEF ApprovedBy
  <2> QED BY <2>1, SameBooks
<1>2. LedgerOK'
  BY <1>1 DEF IInv, LedgerOK
<1>3. \A user \in Users : StayerVault!Collateral(user) + Allowed(user) <= Approved(user)
  BY DEF IInv, CollateralIsApproved, Allowed, Approved, Amounts
<1>4. \A user \in Users : StayerVault!Collateral(user)' + Allowed(user)' <= Approved(user)'
  BY <1>1, <1>3
<1>5. CollateralIsApproved'
  BY <1>4 DEF CollateralIsApproved, Allowed, Approved, Amounts
<1> QED BY <1>2, <1>5

LEMMA InitialInvariant == Init => IInv
<1> SUFFICES ASSUME Init PROVE IInv
  OBVIOUS
<1>1. /\ y_allowances = [p \in StayerVault!Holders \X StayerVault!Holders |-> 0]
      /\ positions = [user \in {} |-> 0]
  BY DEF Init, StayerVault!Init
<1>2. \A user \in Users : StayerVault!Collateral(user) = 0
  BY <1>1 DEF StayerVault!Collateral
<1>3. LedgerOK
  BY <1>1, <1>2 DEF LedgerOK
<1>4. FlowsOK /\ InFlightOK /\ ResultsOK
  BY DEF Init, FlowsOK, InFlightOK, ResultsOK
<1>5. ASSUME NEW user \in Users
      PROVE  StayerVault!Collateral(user) + Allowed(user) <= Approved(user)
  <2>1. ApprovedBy(user) = {}
    BY DEF Init, ApprovedBy
  <2>2. Approved(user) = 0
    BY <2>1, SumOnEmpty DEF Approved
  <2>3. Allowed(user) = 0
    BY <1>1 DEF Allowed, StayerVault!Holders
  <2> QED BY <1>2, <2>2, <2>3
<1>6. CollateralIsApproved
  BY <1>5 DEF CollateralIsApproved, Allowed, Approved, Amounts
<1> QED BY <1>3, <1>4, <1>6 DEF IInv

-----------------------------------------------------------------------------
(***************************************************************************)
(* Steps of the page touch neither the ledger nor the results.             *)
(***************************************************************************)
LEMMA SubmitStep ==
  ASSUME IInv, NEW f \in Flows, NEW user \in Users, NEW amount \in YSCSPRAmounts,
         Submit(f, user, amount)
  PROVE  IInv'
<1> DEFINE new == [user |-> user, amount |-> amount, stage |-> "sign approve"]
<1>1. /\ f \notin DOMAIN flows
      /\ flows' = [g \in DOMAIN flows \cup {f} |-> IF g # f THEN flows[g] ELSE new]
      /\ UNCHANGED <<positions, y_allowances, in_flight, results>>
  BY DEF Submit, vaultVars
<1>2. new \in Flow
  BY DEF Flow, Stages
<1>3. DOMAIN flows' = DOMAIN flows \cup {f} /\ flows'[f] = new
  BY <1>1
<1>4. \A g \in DOMAIN flows : flows'[g] = flows[g]
  BY <1>1
<1>5. FlowsOK'
  BY <1>1, <1>2 DEF IInv, FlowsOK
<1>6. InFlightOK'
  BY <1>1, <1>3 DEF IInv, InFlightOK
<1>7. DOMAIN results \subseteq DOMAIN flows
  BY DEF IInv, ResultsOK
<1>8. ResultsOK'
  <2>1. Approval(f) \notin in_flight
    BY <1>1, NewFlowNotInFlight
  <2> QED BY <2>1, <1>1, <1>3, <1>4, <1>7 DEF IInv, ResultsOK, Approval
<1>9. \A u \in Users : ApprovedBy(u)' = ApprovedBy(u)
  BY <1>1, <1>4, <1>7 DEF ApprovedBy
<1>10. LedgerOK' /\ CollateralIsApproved'
  BY <1>1, <1>4, <1>7, <1>9, SameLedger
<1> QED BY <1>5, <1>6, <1>8, <1>10 DEF IInv

\* A flow is moved on, and may send one of its transactions, the approval only
\* from its first stage.
LEMMA PageStep ==
  ASSUME IInv, NEW f \in DOMAIN flows, NEW stage \in Stages \ {"sign approve"},
         MovesTo(f, stage),
         UNCHANGED <<positions, y_allowances, results>>,
         in_flight' \subseteq in_flight \cup {Approval(f), DepositOf(f)},
         Approval(f) \in in_flight' =>
           Approval(f) \in in_flight \/ flows[f].stage = "sign approve"
  PROVE  IInv'
<1>1. flows[f] \in Flow /\ f \in Flows
  BY DEF IInv, FlowsOK
<1>2. /\ DOMAIN flows' = DOMAIN flows
      /\ \A g \in DOMAIN flows : g # f => flows'[g] = flows[g]
      /\ flows'[f] = [flows[f] EXCEPT !.stage = stage]
  BY <1>1 DEF IInv, FlowsOK, MovesTo
<1>3. /\ flows'[f] \in Flow /\ flows'[f].user = flows[f].user
      /\ flows'[f].amount = flows[f].amount /\ flows'[f].stage = stage
  BY <1>1, <1>2 DEF Flow
<1>4. \A g \in DOMAIN flows : flows'[g].user = flows[g].user /\ flows'[g].amount = flows[g].amount
  BY <1>2, <1>3
<1>5. FlowsOK'
  <2>1. flows' \in [DOMAIN flows -> Flow]
    BY <1>3 DEF IInv, FlowsOK, MovesTo
  <2> QED BY <2>1, <1>2 DEF IInv, FlowsOK
<1>6. InFlightOK'
  <2>1. Approval(f) \in Transaction /\ DepositOf(f) \in Transaction
    BY <1>1 DEF Approval, DepositOf, Transaction
  <2>2. Approval(f).flow = f /\ DepositOf(f).flow = f
    BY DEF Approval, DepositOf
  <2> QED BY <2>1, <2>2, <1>2 DEF IInv, InFlightOK
<1>7. ResultsOK'
  <2> SUFFICES ASSUME NEW g \in DOMAIN flows
               PROVE  /\ flows'[g].stage = "sign approve" => Approval(g) \notin in_flight'
                      /\ flows'[g].stage = "sign approve" \/ Approval(g) \in in_flight' =>
                           g \notin DOMAIN results
    BY <1>2 DEF IInv, ResultsOK, Approval
  <2>1. CASE g = f
    BY <2>1, <1>3 DEF IInv, ResultsOK
  <2>2. CASE g # f
    <3>1. Approval(g) \in in_flight' => Approval(g) \in in_flight
      BY <2>2 DEF Approval, DepositOf
    <3> QED BY <3>1, <2>2, <1>2 DEF IInv, ResultsOK
  <2> QED BY <2>1, <2>2
<1>8. DOMAIN results \subseteq DOMAIN flows
  BY DEF IInv, ResultsOK
<1>9. \A u \in Users : ApprovedBy(u)' = ApprovedBy(u)
  BY <1>4, <1>8 DEF ApprovedBy
<1>10. LedgerOK' /\ CollateralIsApproved'
  BY <1>4, <1>8, <1>9, SameLedger
<1> QED BY <1>5, <1>6, <1>7, <1>10 DEF IInv

LEMMA FlowStep ==
  ASSUME IInv, NEW f \in DOMAIN flows, FlowSteps(f)
  PROVE  IInv'
<1>1. CASE Cancel(f)
  BY <1>1, PageStep DEF Cancel, vaultVars, Stages
<1>2. CASE SignApprove(f)
  <2>1. UNCHANGED <<positions, y_allowances, results>>
    BY <1>2 DEF SignApprove, vaultVars
  <2>2. in_flight' \subseteq in_flight \cup {Approval(f), DepositOf(f)}
    BY <1>2 DEF SignApprove
  <2>3. PICK stage \in {"wait", "sign deposit"} : MovesTo(f, stage)
    BY <1>2 DEF SignApprove
  <2> QED BY <1>2, <2>1, <2>2, <2>3, PageStep DEF SignApprove, Stages
<1>3. CASE ApprovalSeen(f)
  <2>1. PICK stage \in {"sign deposit", "failed"} : MovesTo(f, stage)
    BY <1>3 DEF ApprovalSeen
  <2> QED BY <1>3, <2>1, PageStep DEF ApprovalSeen, vaultVars, Stages
<1>4. CASE WaitTimesOut(f)
  BY <1>4, PageStep DEF WaitTimesOut, vaultVars, Stages
<1>5. CASE SignDeposit(f)
  <2>1. Approval(f) # DepositOf(f)
    BY DEF Approval, DepositOf
  <2>2. in_flight' \subseteq in_flight \cup {DepositOf(f)}
    BY <1>5 DEF SignDeposit
  <2> QED BY <1>5, <2>1, <2>2, PageStep DEF SignDeposit, vaultVars, Stages
<1> QED BY <1>1, <1>2, <1>3, <1>4, <1>5 DEF FlowSteps

-----------------------------------------------------------------------------
(***************************************************************************)
(* Steps of the network.                                                   *)
(***************************************************************************)
\* A deposit moves what it takes from the allowance to the collateral.
LEMMA DepositStep ==
  ASSUME IInv, NEW u \in Users, NEW amount \in Nat,
         StayerVault!Deposit(u, amount),
         UNCHANGED <<flows, results>>, in_flight' \subseteq in_flight
  PROVE  IInv'
<1> DEFINE pair == <<u, StayerVault!Vault>>
<1>1. /\ amount # 0 /\ amount <= y_allowances[pair]
      /\ y_allowances' = [y_allowances EXCEPT ![pair] = @ - amount]
  BY DEF StayerVault!Deposit, StayerVault!YSCSPR!TransferFrom
<1>2. /\ DOMAIN positions' = DOMAIN positions \cup {u}
      /\ \A w \in DOMAIN positions : w # u => positions'[w] = positions[w]
      /\ positions'[u].collateral = StayerVault!Collateral(u) + amount
  <2>1. PICK debt, entry_price :
          StayerVault!SetPosition(u, StayerVault!Collateral(u) + amount, debt, entry_price)
    BY DEF StayerVault!Deposit
  <2> QED BY <2>1 DEF StayerVault!SetPosition
<1>3. /\ StayerVault!Collateral(u)' = StayerVault!Collateral(u) + amount
      /\ \A w \in Users : w # u => StayerVault!Collateral(w)' = StayerVault!Collateral(w)
  BY <1>2 DEF StayerVault!Collateral
<1>4. \A w \in Users : <<w, StayerVault!Vault>> \in StayerVault!Holders \X StayerVault!Holders
  BY DEF StayerVault!Holders
<1>5. /\ Allowed(u) \in Nat /\ amount <= Allowed(u) /\ Allowed(u)' = Allowed(u) - amount
      /\ \A w \in Users : w # u => Allowed(w)' = Allowed(w)
      /\ y_allowances' \in [StayerVault!Holders \X StayerVault!Holders -> Nat]
  <2>1. y_allowances \in [StayerVault!Holders \X StayerVault!Holders -> Nat]
    BY DEF IInv, LedgerOK
  <2>2. pair \in StayerVault!Holders \X StayerVault!Holders
    BY <1>4
  <2>3. y_allowances[pair] \in Nat /\ y_allowances[pair] - amount \in Nat
    BY <2>1, <2>2, <1>1
  <2> QED BY <2>1, <2>2, <2>3, <1>1, <1>4 DEF Allowed
<1>6. \A w \in Users : Approved(w)' = Approved(w)
  BY DEF Approved, Amounts, ApprovedBy
<1>7. \A w \in Users : /\ StayerVault!Collateral(w) \in Nat
                       /\ StayerVault!Collateral(w) + Allowed(w) <= Approved(w)
  BY DEF IInv, LedgerOK, CollateralIsApproved, Allowed, Approved, Amounts
<1>8. \A w \in Users : /\ StayerVault!Collateral(w)' \in Nat
                       /\ StayerVault!Collateral(w)' + Allowed(w)' <= Approved(w)'
  <2> SUFFICES ASSUME NEW w \in Users
               PROVE  /\ StayerVault!Collateral(w)' \in Nat
                      /\ StayerVault!Collateral(w)' + Allowed(w)' <= Approved(w)'
    OBVIOUS
  <2>1. StayerVault!Collateral(w)' + Allowed(w)' = StayerVault!Collateral(w) + Allowed(w)
    BY <1>3, <1>5, <1>7
  <2> QED BY <2>1, <1>3, <1>6, <1>7
<1>9. LedgerOK'
  BY <1>5, <1>8 DEF LedgerOK
<1>10. CollateralIsApproved'
  BY <1>8 DEF CollateralIsApproved, Allowed, Approved, Amounts
<1>11. FlowsOK' /\ InFlightOK' /\ ResultsOK'
  BY DEF IInv, FlowsOK, InFlightOK, ResultsOK, Approval
<1> QED BY <1>9, <1>10, <1>11 DEF IInv

\* An approval sets the allowance, to no more than what it adds to what was
\* approved: it has not been counted before.
LEMMA ApproveStep ==
  ASSUME IInv, NEW f \in DOMAIN flows, Approval(f) \in in_flight,
         NEW u \in Users, NEW amount \in Nat, flows[f].user = u, flows[f].amount = amount,
         ApproveVault(f), UNCHANGED flows, in_flight' = in_flight \ {Approval(f)}
  PROVE  IInv'
<1> DEFINE pair == <<u, StayerVault!Vault>>
<1>1. /\ y_allowances' = [y_allowances EXCEPT ![pair] = amount]
      /\ positions' = positions
  BY DEF ApproveVault, StayerVault!YSCSPR!Approve, StayerVault!YSCSPR!RawApprove
<1>2. f \notin DOMAIN results
  BY DEF IInv, ResultsOK
<1>3. /\ DOMAIN results' = DOMAIN results \cup {f} /\ results'[f] = "success"
      /\ \A g \in DOMAIN results : results'[g] = results[g]
  BY <1>2 DEF ApproveVault, Result
<1>4. \A w \in Users : <<w, StayerVault!Vault>> \in StayerVault!Holders \X StayerVault!Holders
  BY DEF StayerVault!Holders
<1>5. /\ Allowed(u)' = amount /\ Allowed(u) \in Nat
      /\ \A w \in Users : w # u => Allowed(w)' = Allowed(w)
      /\ y_allowances' \in [StayerVault!Holders \X StayerVault!Holders -> Nat]
  <2>1. y_allowances \in [StayerVault!Holders \X StayerVault!Holders -> Nat]
    BY DEF IInv, LedgerOK
  <2>2. pair \in StayerVault!Holders \X StayerVault!Holders
    BY <1>4
  <2> QED BY <2>1, <2>2, <1>1, <1>4 DEF Allowed
<1>6. \A w \in Users : StayerVault!Collateral(w)' = StayerVault!Collateral(w)
  BY <1>1 DEF StayerVault!Collateral
<1>7. /\ ApprovedBy(u)' = ApprovedBy(u) \cup {f}
      /\ \A w \in Users : w # u => ApprovedBy(w)' = ApprovedBy(w)
      /\ f \notin ApprovedBy(u)
  BY <1>2, <1>3 DEF ApprovedBy
<1>8. Approved(u)' = Approved(u) + amount
  <2> DEFINE S == ApprovedBy(u)
             T == S \cup {f}
             h == [g \in T |-> flows[g].amount]
  <2>1. /\ IsFiniteSet(S) /\ \A g \in S : Amounts(S)[g] \in Nat
        /\ Approved(u) \in Nat
    BY ApprovedIsNat
  <2>2. IsFiniteSet(T)
    BY <2>1, FS_AddElement
  <2>3. \A g \in T : h[g] \in Int
    BY <2>1 DEF Amounts
  <2>4. Approved(u)' = SumFunctionOnSet(h, T)
    BY <1>7 DEF Approved, Amounts
  <2>5. T \ {f} = S /\ f \in T /\ h[f] = amount
    BY <1>7
  <2>6. \A g \in S : Amounts(S)[g] = h[g]
    BY DEF Amounts
  <2>7. Approved(u) = SumFunctionOnSet(Amounts(S), S)
    BY DEF Approved
  <2> HIDE DEF S, T, h
  <2>8. SumFunctionOnSet(h, T) = h[f] + SumFunctionOnSet(h, S)
    BY <2>2, <2>3, <2>5, SumOnSplit
  <2>9. SumFunctionOnSet(h, S) = SumFunctionOnSet(Amounts(S), S)
    BY <2>1, <2>6, SumOnCong
  <2> QED BY <2>1, <2>4, <2>5, <2>7, <2>8, <2>9
<1>9. \A w \in Users : w # u => Approved(w)' = Approved(w)
  BY <1>7 DEF Approved, Amounts
<1>10. \A w \in Users : /\ StayerVault!Collateral(w) \in Nat
                        /\ StayerVault!Collateral(w) + Allowed(w) <= Approved(w)
                        /\ Approved(w) \in Nat
  BY ApprovedIsNat DEF IInv, LedgerOK, CollateralIsApproved, Allowed, Approved, Amounts
<1>11. \A w \in Users : /\ StayerVault!Collateral(w)' \in Nat
                        /\ StayerVault!Collateral(w)' + Allowed(w)' <= Approved(w)'
  <2>1. ASSUME NEW w \in Users, w # u
        PROVE  StayerVault!Collateral(w)' + Allowed(w)' <= Approved(w)'
    BY <2>1, <1>5, <1>6, <1>9, <1>10
  <2>2. StayerVault!Collateral(u)' + Allowed(u)' <= Approved(u)'
    <3>1. StayerVault!Collateral(u) <= Approved(u)
      BY <1>5, <1>10
    <3> QED BY <3>1, <1>5, <1>6, <1>8, <1>10
  <2> QED BY <2>1, <2>2, <1>6, <1>10
<1>12. LedgerOK'
  BY <1>5, <1>11 DEF LedgerOK
<1>13. CollateralIsApproved'
  BY <1>11 DEF CollateralIsApproved, Allowed, Approved, Amounts
<1>14. FlowsOK' /\ InFlightOK'
  BY DEF IInv, FlowsOK, InFlightOK
<1>15. ResultsOK'
  <2>1. flows[f].stage # "sign approve"
    BY DEF IInv, ResultsOK
  <2>2. \A g : Approval(g) = Approval(f) => g = f
    BY DEF Approval
  <2> QED BY <2>1, <2>2, <1>3 DEF IInv, ResultsOK, Approval
<1> QED BY <1>12, <1>13, <1>14, <1>15 DEF IInv

LEMMA ExecuteStep ==
  ASSUME IInv, NEW tx \in in_flight, Execute(tx)
  PROVE  IInv'
<1>1. tx \in Transaction /\ tx.flow \in DOMAIN flows
  BY DEF IInv, InFlightOK
<1>2. UNCHANGED flows /\ in_flight' = in_flight \ {tx}
  BY DEF Execute
<1> PICK u, amount : u = flows[tx.flow].user /\ amount = flows[tx.flow].amount
  OBVIOUS
<1>3. u \in Users /\ amount \in Nat
  BY <1>1, FlowAssumption DEF IInv, FlowsOK, Flow
<1>4. CASE tx.call = "approve" /\ ApproveVault(tx.flow)
  <2>1. tx = Approval(tx.flow)
    BY <1>1, <1>4 DEF Transaction, Approval
  <2> QED BY <2>1, <1>1, <1>2, <1>4, <1>3, ApproveStep
<1>5. CASE /\ StayerVault!Deposit(flows[tx.flow].user, flows[tx.flow].amount)
           /\ UNCHANGED results
  BY <1>1, <1>2, <1>5, <1>3, DepositStep
<1> QED BY <1>4, <1>5 DEF Execute

\* A failed approval has a result that counts for nothing.
LEMMA FailsStep ==
  ASSUME IInv, NEW tx \in in_flight, Fails(tx)
  PROVE  IInv'
<1>1. tx.flow \in DOMAIN flows /\ tx \in Transaction
  BY DEF IInv, InFlightOK
<1>2. UNCHANGED <<flows, positions, y_allowances>> /\ in_flight' = in_flight \ {tx}
  BY DEF Fails, vaultVars
<1>3. FlowsOK' /\ InFlightOK'
  BY <1>2 DEF IInv, FlowsOK, InFlightOK
<1>4. CASE tx.call = "approve"
  <2>1. tx = Approval(tx.flow)
    BY <1>1, <1>4 DEF Transaction, Approval
  <2>2. tx.flow \notin DOMAIN results /\ flows[tx.flow].stage # "sign approve"
    BY <2>1, <1>1 DEF IInv, ResultsOK
  <2>3. /\ DOMAIN results' = DOMAIN results \cup {tx.flow} /\ results'[tx.flow] = "failure"
        /\ \A g \in DOMAIN results : results'[g] = results[g]
    BY <2>2, <1>4 DEF Fails, Result
  <2>4. ResultsOK'
    <3>1. \A g : Approval(g) = tx => g = tx.flow
      BY DEF Approval
    <3> QED BY <2>2, <2>3, <3>1, <2>1, <1>1, <1>2 DEF IInv, ResultsOK, Approval
  <2>5. \A u \in Users : ApprovedBy(u)' = ApprovedBy(u)
    BY <2>2, <2>3, <1>2 DEF ApprovedBy
  <2>6. LedgerOK' /\ CollateralIsApproved'
    BY <2>5, <1>2, SameLedger
  <2> QED BY <2>4, <2>6, <1>3 DEF IInv
<1>5. CASE tx.call # "approve"
  <2>1. results' = results
    BY <1>5 DEF Fails
  <2>2. ResultsOK'
    BY <2>1, <1>2 DEF IInv, ResultsOK, Approval
  <2>3. LedgerOK' /\ CollateralIsApproved'
    BY <2>1, <1>2, SameLedger DEF ApprovedBy
  <2> QED BY <2>2, <2>3, <1>3 DEF IInv
<1> QED BY <1>4, <1>5

LEMMA QuietStep ==
  ASSUME IInv, UNCHANGED <<flows, positions, y_allowances, results>>, in_flight' \subseteq in_flight
  PROVE  IInv'
<1>1. FlowsOK' /\ InFlightOK' /\ ResultsOK'
  BY DEF IInv, FlowsOK, InFlightOK, ResultsOK, Approval
<1>2. LedgerOK' /\ CollateralIsApproved'
  BY SameLedger DEF ApprovedBy
<1> QED BY <1>1, <1>2 DEF IInv

LEMMA NextKeepsInvariant == IInv /\ [Next]_vars => IInv'
<1> SUFFICES ASSUME IInv, [Next]_vars PROVE IInv'
  OBVIOUS
<1>1. ASSUME NEW user \in Users, Fetch(user) PROVE IInv'
  BY <1>1, QuietStep DEF Fetch, vaultVars
<1>2. ASSUME NEW f \in Flows, NEW user \in Users, NEW amount \in YSCSPRAmounts,
             Submit(f, user, amount)
      PROVE  IInv'
  BY <1>2, SubmitStep
<1>3. ASSUME NEW f \in DOMAIN flows, FlowSteps(f) PROVE IInv'
  BY <1>3, FlowStep
<1>4. ASSUME NEW tx \in in_flight, Execute(tx) \/ Fails(tx) PROVE IInv'
  BY <1>4, ExecuteStep, FailsStep
<1>5. ASSUME NEW tx \in in_flight, Expires(tx) PROVE IInv'
  BY <1>5, QuietStep DEF Expires, vaultVars
<1>6. CASE UNCHANGED vars
  BY <1>6, QuietStep DEF vars, vaultVars
<1> QED BY <1>1, <1>2, <1>3, <1>4, <1>5, <1>6 DEF Next

-----------------------------------------------------------------------------
\* Whatever becomes of approvals, and whether or not deposits wait for them, the
\* vault takes no more from a user than her executed approvals allow, each of
\* them used once.
THEOREM DepositsApproved == Spec => []CollateralIsApproved
<1>1. Init => IInv
  BY InitialInvariant
<1>2. IInv /\ [Next]_vars => IInv'
  BY NextKeepsInvariant
<1>3. IInv => CollateralIsApproved
  BY DEF IInv
<1> QED BY <1>1, <1>2, <1>3, PTL DEF Spec
=============================================================================
