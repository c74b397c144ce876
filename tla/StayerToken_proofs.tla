------------------------- MODULE StayerToken_proofs -------------------------
(***************************************************************************)
(* Type correctness and conservation of the tokens, and what spenders move *)
(* of what they were allowed.                                              *)
(***************************************************************************)
EXTENDS StayerToken, SumLemmas

\* The part of the invariant that mints, burns and transfers touch.
Books ==
  /\ balances \in [Accounts -> Nat]
  /\ total_supply \in Nat
  /\ SupplyIsSum

\* Nobody is allowed to spend its own tokens: approving oneself reverts.
NoSelfAllowance == \A a \in Accounts : allowances[<<a, a>>] = 0

IInv == TypeOK /\ Books /\ NoSelfAllowance /\ SpendingIsAllowed

\* Each operation of Odra's CEP-18 keeps the supply equal to the sum of the
\* balances.
LEMMA MintKeepsSum ==
  ASSUME Books, IsFiniteSet(Accounts), NEW to \in Accounts, NEW amount \in Nat,
         RawMint(to, amount)
  PROVE  Books'
<1>1. balances' \in [Accounts -> Nat] /\ total_supply' \in Nat
  BY DEF Books, RawMint
<1>2. /\ balances'[to] = balances[to] + amount
      /\ \A x \in Accounts : x # to => balances'[x] = balances[x]
  BY DEF Books, RawMint
<1>3. SumFunction(balances') = SumFunction(balances) + amount
  BY <1>1, <1>2, SumCredit DEF Books
<1> QED
  BY <1>1, <1>3 DEF Books, SupplyIsSum, RawMint

LEMMA BurnKeepsSum ==
  ASSUME Books, IsFiniteSet(Accounts), NEW from \in Accounts, NEW amount \in Nat,
         RawBurn(from, amount)
  PROVE  Books'
<1>1. balances' \in [Accounts -> Nat]
  BY DEF Books, RawBurn
<1>2. /\ balances'[from] = balances[from] + (0 - amount)
      /\ \A x \in Accounts : x # from => balances'[x] = balances[x]
  BY DEF Books, RawBurn
<1>3. SumFunction(balances') = SumFunction(balances) + (0 - amount)
  BY <1>1, <1>2, SumCredit DEF Books
<1>4. total_supply' = SumFunction(balances')
  BY <1>3 DEF Books, SupplyIsSum, RawBurn
<1>5. total_supply' \in Nat
  BY <1>1, <1>4, SumLedger
<1> QED
  BY <1>1, <1>4, <1>5 DEF Books, SupplyIsSum

LEMMA TransferKeepsSum ==
  ASSUME Books, IsFiniteSet(Accounts), NEW from \in Accounts, NEW to \in Accounts,
         from # to, NEW amount \in Nat, RawTransfer(from, to, amount)
  PROVE  Books'
<1>1. balances' \in [Accounts -> Nat] /\ total_supply' = total_supply
  BY DEF Books, RawTransfer
<1>2. /\ balances'[from] = balances[from] - amount
      /\ balances'[to] = balances[to] + amount
      /\ \A x \in Accounts : x # from /\ x # to => balances'[x] = balances[x]
  BY DEF Books, RawTransfer
<1>3. SumFunction(balances') = SumFunction(balances)
  BY <1>1, <1>2, SumMove DEF Books
<1> QED
  BY <1>1, <1>3 DEF Books, SupplyIsSum

LEMMA TokenInit == Init => IInv
<1> SUFFICES ASSUME Init PROVE IInv
  OBVIOUS
<1>1. TypeOK
  BY TokenAssumption DEF Init, TypeOK, Pairs
<1>2. SumFunctionOnSet(balances, Accounts) = 0
  BY TokenAssumption, SumOnZero DEF Init
<1>3. DOMAIN balances = Accounts
  BY DEF Init
<1>4. NoSelfAllowance /\ SpendingIsAllowed
  BY DEF Init, NoSelfAllowance, SpendingIsAllowed, Pairs
<1> QED
  BY <1>1, <1>2, <1>3, <1>4 DEF IInv, Books, TypeOK, SupplyIsSum, Init, SumFunction

\* A minter's or the owner's call: the allowances and their history stay.
LEMMA GrantsKept ==
  ASSUME IInv, UNCHANGED <<allowances, grants>>
  PROVE  NoSelfAllowance' /\ SpendingIsAllowed'
BY DEF IInv, NoSelfAllowance, SpendingIsAllowed

\* A holder's own transfer lowers no balance but the holder's.
LEMMA TransferStep ==
  ASSUME IInv, NEW caller \in Accounts, NEW to \in Accounts, NEW amount \in Amounts,
         Transfer(caller, to, amount), RecordMoved(caller)
  PROVE  IInv'
<1>1. RawTransfer(caller, to, amount) /\ amount \in Nat /\ caller # to
  BY TokenAssumption DEF Transfer
<1>2. Books'
  BY <1>1, TokenAssumption, TransferKeepsSum DEF IInv
<1>3. \A a \in Accounts : a # caller => ~(balances'[a] < balances[a])
  BY <1>1 DEF RawTransfer, IInv, TypeOK
<1>4. grants' = grants
  <2>1. grants' = [p \in Pairs |-> grants[p]]
    BY <1>3 DEF RecordMoved, Pairs
  <2> QED BY <2>1 DEF IInv, TypeOK
<1>5. NoSelfAllowance' /\ SpendingIsAllowed'
  BY <1>4, GrantsKept DEF Transfer
<1> QED BY <1>2, <1>4, <1>5 DEF IInv, Books, TypeOK, SupplyIsSum, Transfer

\* A delegated transfer takes off the allowance what it takes off the balance.
LEMMA TransferFromStep ==
  ASSUME IInv, NEW caller \in Accounts, NEW holder \in Accounts, NEW to \in Accounts,
         NEW amount \in Amounts, TransferFrom(caller, holder, to, amount), RecordMoved(caller)
  PROVE  IInv'
<1> USE TokenAssumption
<1>1. CASE amount = 0
  <2>1. UNCHANGED tokenVars
    BY <1>1 DEF TransferFrom
  <2>2. grants' = [p \in Pairs |-> grants[p]]
    BY <2>1 DEF RecordMoved, tokenVars, IInv, TypeOK, Pairs
  <2>3. grants' = grants
    BY <2>2 DEF IInv, TypeOK
  <2> QED BY <2>1, <2>3, GrantsKept DEF tokenVars, IInv, Books, TypeOK, SupplyIsSum
<1>2. CASE amount # 0
  <2>1. /\ RawTransfer(holder, to, amount) /\ amount \in Nat /\ holder # to
        /\ amount <= allowances[<<holder, caller>>]
        /\ allowances' = [allowances EXCEPT ![<<holder, caller>>] = @ - amount]
        /\ UNCHANGED authorized_minters
    BY <1>2 DEF TransferFrom
  <2>2. Books'
    BY <2>1, TransferKeepsSum DEF IInv
  <2>3. allowances' \in [Accounts \X Accounts -> Nat]
    BY <2>1 DEF IInv, TypeOK
  <2>4. holder # caller
    BY <1>2, <2>1 DEF IInv, NoSelfAllowance
  <2>5. /\ balances'[holder] < balances[holder]
        /\ balances[holder] - balances'[holder] = amount
        /\ \A a \in Accounts : a # holder => ~(balances'[a] < balances[a])
    BY <1>2, <2>1 DEF RawTransfer, IInv, TypeOK
  <2> DEFINE P == <<holder, caller>>
  <2>6. P \in Pairs /\ P[1] = holder /\ P[2] = caller
    BY DEF Pairs
  <2>7. \A p \in Pairs : p # P => p[1] # holder \/ p[2] # caller
    BY DEF Pairs
  <2>8. /\ grants'[P] = [grants[P] EXCEPT !.moved = @ + amount]
        /\ \A p \in Pairs : p # P => grants'[p] = grants[p]
    <3>1. \A p \in Pairs : p[1] \in Accounts
      BY DEF Pairs
    <3> QED BY <2>4, <2>5, <2>6, <2>7, <3>1 DEF RecordMoved
  <2>9. grants' \in [Pairs -> [given : Nat, moved : Nat]]
    <3>1. DOMAIN grants' = Pairs /\ grants' = [p \in Pairs |-> grants'[p]]
      BY DEF RecordMoved
    <3>2. \A p \in Pairs : grants[p] \in [given : Nat, moved : Nat]
      BY DEF IInv, TypeOK
    <3>3. \A p \in Pairs : grants'[p] \in [given : Nat, moved : Nat]
      BY <2>1, <2>6, <2>8, <3>2
    <3> QED BY <3>1, <3>3
  <2>10. SpendingIsAllowed'
    <3> SUFFICES ASSUME NEW p \in Pairs
                 PROVE  grants'[p].moved + allowances'[p] = grants'[p].given
      BY DEF SpendingIsAllowed
    <3>1. grants[p].moved + allowances[p] = grants[p].given
      BY DEF IInv, SpendingIsAllowed
    <3>2. grants[p] \in [given : Nat, moved : Nat] /\ allowances[p] \in Nat
      BY DEF IInv, TypeOK, Pairs
    <3>3. CASE p = P
      <4>1. allowances'[p] = allowances[p] - amount
        BY <2>1, <2>6, <3>3 DEF IInv, TypeOK, Pairs
      <4>2. grants'[p].moved = grants[p].moved + amount /\ grants'[p].given = grants[p].given
        BY <2>8, <3>2, <3>3
      <4> QED BY <2>1, <3>1, <3>2, <4>1, <4>2
    <3>4. CASE p # P
      BY <2>1, <2>8, <3>1, <3>4 DEF IInv, TypeOK, Pairs
    <3> QED BY <3>3, <3>4
  <2>11. NoSelfAllowance'
    BY <2>1, <2>4 DEF IInv, NoSelfAllowance, TypeOK
  <2> QED BY <2>1, <2>2, <2>3, <2>9, <2>10, <2>11 DEF IInv, Books, TypeOK, SupplyIsSum
<1> QED BY <1>1, <1>2

\* A holder's approval, increase or decrease starts the count anew.
LEMMA ApproveStep ==
  ASSUME IInv, NEW caller \in Accounts, NEW spender \in Accounts, NEW amount \in Amounts,
         \/ Approve(caller, spender, amount)
         \/ IncreaseAllowance(caller, spender, amount)
         \/ DecreaseAllowance(caller, spender, amount),
         RecordGiven(caller, spender)
  PROVE  IInv'
<1> USE TokenAssumption
<1>1. PICK limit \in Nat : RawApprove(caller, spender, limit)
  BY DEF IInv, TypeOK, Approve, IncreaseAllowance, DecreaseAllowance
<1>2. UNCHANGED <<balances, total_supply, authorized_minters>>
  BY DEF Approve, IncreaseAllowance, DecreaseAllowance, RawApprove
<1>3. /\ allowances' = [allowances EXCEPT ![<<caller, spender>>] = limit]
      /\ caller # spender /\ <<caller, spender>> \in Pairs
  BY <1>1 DEF RawApprove, Pairs
<1>4. /\ allowances' \in [Accounts \X Accounts -> Nat]
      /\ allowances'[<<caller, spender>>] = limit
  BY <1>3 DEF IInv, TypeOK
<1>5. grants' = [grants EXCEPT ![<<caller, spender>>] = [given |-> limit, moved |-> 0]]
  BY <1>4 DEF RecordGiven
<1>6. grants' \in [Pairs -> [given : Nat, moved : Nat]]
  BY <1>3, <1>5 DEF IInv, TypeOK
<1>7. SpendingIsAllowed'
  <2> SUFFICES ASSUME NEW p \in Pairs
               PROVE  grants'[p].moved + allowances'[p] = grants'[p].given
    BY DEF SpendingIsAllowed
  <2>1. CASE p = <<caller, spender>>
    BY <1>3, <1>4, <1>5, <2>1 DEF IInv, TypeOK
  <2>2. CASE p # <<caller, spender>>
    BY <1>3, <1>5, <2>2 DEF IInv, TypeOK, Pairs, SpendingIsAllowed
  <2> QED BY <2>1, <2>2
<1>8. NoSelfAllowance'
  BY <1>3 DEF IInv, NoSelfAllowance, TypeOK
<1> QED BY <1>2, <1>4, <1>6, <1>7, <1>8 DEF IInv, Books, TypeOK, SupplyIsSum

LEMMA TokenStep == IInv /\ [Next]_vars => IInv'
<1> SUFFICES ASSUME IInv, [Next]_vars PROVE IInv'
  OBVIOUS
<1> USE TokenAssumption
<1>1. ASSUME NEW caller, NEW to \in Accounts, NEW amount \in Amounts,
             Mint(caller, to, amount), UNCHANGED grants
      PROVE  IInv'
  <2>1. RawMint(to, amount) /\ amount \in Nat
    BY <1>1 DEF Mint
  <2>2. Books'
    BY <2>1, MintKeepsSum DEF IInv
  <2> QED BY <1>1, <2>2, GrantsKept DEF IInv, Books, TypeOK, SupplyIsSum, Mint
<1>2. ASSUME NEW caller, NEW from \in Accounts, NEW amount \in Amounts,
             Burn(caller, from, amount), UNCHANGED grants
      PROVE  IInv'
  <2>1. RawBurn(from, amount) /\ amount \in Nat
    BY <1>2 DEF Burn
  <2>2. Books'
    BY <2>1, BurnKeepsSum DEF IInv
  <2> QED BY <1>2, <2>2, GrantsKept DEF IInv, Books, TypeOK, SupplyIsSum, Burn
<1>3. CASE OwnerNext /\ UNCHANGED grants
  <2>1. UNCHANGED <<balances, total_supply, allowances, grants>>
    BY <1>3 DEF OwnerNext, AddAuthorized, RemoveAuthorized
  <2>2. authorized_minters' \subseteq Minters
    BY <1>3 DEF IInv, TypeOK, OwnerNext, AddAuthorized, RemoveAuthorized
  <2> QED BY <2>1, <2>2, GrantsKept DEF IInv, Books, TypeOK, SupplyIsSum
<1>4. CASE UNCHANGED vars
  BY <1>4, GrantsKept DEF IInv, Books, TypeOK, SupplyIsSum, tokenVars, vars
<1> QED
  BY <1>1, <1>2, <1>3, <1>4, TransferStep, TransferFromStep, ApproveStep
     DEF Next, MinterNext, HolderNext

LEMMA TokenInvariant == Spec => []IInv
BY TokenInit, TokenStep, PTL DEF Spec

\* Balances and allowances stay natural numbers: no call takes a token that is
\* not there.
THEOREM TokenTypes == Spec => []TypeOK
<1>1. IInv => TypeOK
  BY DEF IInv
<1> QED BY <1>1, TokenInvariant, PTL

\* No call, by whomever, in whatever order, creates or loses a token.
THEOREM TokenConservation == Spec => []SupplyIsSum
<1>1. IInv => SupplyIsSum
  BY DEF IInv, Books
<1> QED BY <1>1, TokenInvariant, PTL

\* Spenders move what they were allowed and no more: with any number of
\* spenders and calls, what one has moved and what it may still move make up
\* what the holder last allowed it.
THEOREM TokenSpending == Spec => []SpendingIsAllowed
<1>1. IInv => SpendingIsAllowed
  BY DEF IInv
<1> QED BY <1>1, TokenInvariant, PTL
=============================================================================
