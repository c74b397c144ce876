---------------------------- MODULE StayerToken ----------------------------
(***************************************************************************)
(* The two CEP-18 tokens of the protocol, ySCSPR and cUSD: one text,       *)
(* src/contracts/{cusd,yscspr}, around the CEP-18 module of the Odra       *)
(* library.  Mint and Burn are open to the authorised minters only; the    *)
(* holders' entry points are those of the standard.                        *)
(*                                                                         *)
(* A call that reverts leaves no trace on the chain, so each action is the *)
(* call that succeeds and its guard is the conjunction of the checks.      *)
(* "caller" is the account or contract the token sees as the caller.       *)
(* Amounts are U256 in the code; no reachable amount is near 2^256, so     *)
(* they are natural numbers here.                                          *)
(***************************************************************************)
EXTENDS Integers, FiniteSets, Functions

CONSTANTS Accounts,       \* holders and spenders: users and contracts
          Owner,          \* the deployer, the only one to change the minters
          Minters,        \* contracts the owner may authorise to mint
          InitialMinter,  \* the one named at deployment
          Amounts,        \* amounts a call may carry
          MaxSupply       \* bound: no mint takes the supply beyond it

ASSUME TokenAssumption ==
  /\ IsFiniteSet(Accounts)
  /\ InitialMinter \in Minters
  /\ Amounts \subseteq Nat

VARIABLES
  balances, total_supply, allowances, authorized_minters,
  grants     \* history: what a holder last allowed a spender, and how much
             \* the spender has moved since

tokenVars == <<balances, total_supply, allowances, authorized_minters>>
vars == <<tokenVars, grants>>

Pairs == Accounts \X Accounts   \* holders with spenders

TypeOK ==
  /\ balances \in [Accounts -> Nat]
  /\ total_supply \in Nat
  /\ allowances \in [Accounts \X Accounts -> Nat]
  /\ authorized_minters \subseteq Minters
  /\ grants \in [Pairs -> [given : Nat, moved : Nat]]

Init ==
  /\ balances = [a \in Accounts |-> 0]
  /\ total_supply = 0
  /\ allowances = [p \in Accounts \X Accounts |-> 0]
  /\ authorized_minters = {InitialMinter}
  /\ grants = [p \in Pairs |-> [given |-> 0, moved |-> 0]]

(***************************************************************************)
(* Odra's CEP-18 module.                                                   *)
(***************************************************************************)
RawMint(to, amount) ==
  /\ total_supply' = total_supply + amount
  /\ balances' = [balances EXCEPT ![to] = @ + amount]

\* Mutant: the balance is not checked.
RawBurnUnchecked(from, amount) ==
  /\ total_supply' = total_supply - amount
  /\ balances' = [balances EXCEPT ![from] = @ - amount]

\* Mutant: the supply is forgotten.
RawBurnOfBalance(from, amount) ==
  /\ amount <= balances[from]
  /\ balances' = [balances EXCEPT ![from] = @ - amount]
  /\ UNCHANGED total_supply

RawBurn(from, amount) ==
  /\ amount <= balances[from]
  /\ total_supply' = total_supply - amount
  /\ balances' = [balances EXCEPT ![from] = @ - amount]

RawTransfer(from, to, amount) ==
  /\ amount <= balances[from]
  /\ balances' = [balances EXCEPT ![from] = @ - amount, ![to] = @ + amount]
  /\ UNCHANGED total_supply

RawApprove(holder, spender, amount) ==
  /\ holder # spender
  /\ allowances' = [allowances EXCEPT ![<<holder, spender>>] = amount]
  /\ UNCHANGED <<balances, total_supply>>

(***************************************************************************)
(* The tokens' entry points.                                               *)
(***************************************************************************)
Mint(caller, to, amount) ==
  /\ caller \in authorized_minters
  /\ RawMint(to, amount)
  /\ UNCHANGED <<allowances, authorized_minters>>

Burn(caller, from, amount) ==
  /\ caller \in authorized_minters
  /\ RawBurn(from, amount)
  /\ UNCHANGED <<allowances, authorized_minters>>

AddAuthorized(caller, address) ==
  /\ caller = Owner
  /\ authorized_minters' = authorized_minters \cup {address}
  /\ UNCHANGED <<balances, total_supply, allowances>>

RemoveAuthorized(caller, address) ==
  /\ caller = Owner
  /\ authorized_minters' = authorized_minters \ {address}
  /\ UNCHANGED <<balances, total_supply, allowances>>

Transfer(caller, recipient, amount) ==
  /\ caller # recipient
  /\ RawTransfer(caller, recipient, amount)
  /\ UNCHANGED <<allowances, authorized_minters>>

\* Mutant: the allowance is checked and left as it is.
TransferFromUnspent(caller, holder, recipient, amount) ==
  /\ holder # recipient
  /\ amount <= allowances[<<holder, caller>>]
  /\ RawTransfer(holder, recipient, amount)
  /\ UNCHANGED <<allowances, authorized_minters>>

\* A transfer of zero returns before the allowance is read.
TransferFrom(caller, holder, recipient, amount) ==
  /\ holder # recipient
  /\ IF amount = 0
       THEN UNCHANGED tokenVars
       ELSE /\ amount <= allowances[<<holder, caller>>]
            /\ allowances' = [allowances EXCEPT ![<<holder, caller>>] = @ - amount]
            /\ RawTransfer(holder, recipient, amount)
            /\ UNCHANGED authorized_minters

Approve(caller, spender, amount) ==
  /\ RawApprove(caller, spender, amount)
  /\ UNCHANGED authorized_minters

IncreaseAllowance(caller, spender, amount) ==
  /\ RawApprove(caller, spender, allowances[<<caller, spender>>] + amount)
  /\ UNCHANGED authorized_minters

DecreaseAllowance(caller, spender, amount) ==
  /\ amount <= allowances[<<caller, spender>>]
  /\ RawApprove(caller, spender, allowances[<<caller, spender>>] - amount)
  /\ UNCHANGED authorized_minters

(***************************************************************************)
(* The token on its own: any account makes any call.                       *)
(***************************************************************************)
MinterNext ==
  \E caller \in Minters, account \in Accounts, amount \in Amounts :
    \/ total_supply + amount <= MaxSupply /\ Mint(caller, account, amount)
    \/ Burn(caller, account, amount)

OwnerNext ==
  \E address \in Minters :
    \/ AddAuthorized(Owner, address)
    \/ RemoveAuthorized(Owner, address)

\* Whatever the caller's call took from others counts as moved by the caller.
RecordMoved(caller) ==
  grants' = [p \in Pairs |->
               IF p[2] = caller /\ p[1] # caller /\ balances'[p[1]] < balances[p[1]]
               THEN [grants[p] EXCEPT !.moved = @ + (balances[p[1]] - balances'[p[1]])]
               ELSE grants[p]]

\* The caller allows a spender anew.
RecordGiven(caller, spender) ==
  grants' = [grants EXCEPT ![<<caller, spender>>] =
               [given |-> allowances'[<<caller, spender>>], moved |-> 0]]

HolderNext ==
  \E caller, other \in Accounts, amount \in Amounts :
    \/ /\ \/ Transfer(caller, other, amount)
          \/ \E holder \in Accounts : TransferFrom(caller, holder, other, amount)
       /\ RecordMoved(caller)
    \/ /\ \/ Approve(caller, other, amount)
          \/ /\ allowances[<<caller, other>>] + amount <= MaxSupply
             /\ IncreaseAllowance(caller, other, amount)
          \/ DecreaseAllowance(caller, other, amount)
       /\ RecordGiven(caller, other)

Next ==
  \/ (MinterNext \/ OwnerNext) /\ UNCHANGED grants
  \/ HolderNext

Spec == Init /\ [][Next]_vars

(***************************************************************************)
(* Properties.                                                             *)
(***************************************************************************)

\* What the holders own is what was minted and not burnt: no sequence of
\* mints, burns and (delegated) transfers creates or loses a token.
SupplyIsSum == total_supply = SumFunction(balances)

\* An allowance is used up as it is spent: what a spender has moved out of a
\* holder's balance, to itself or to others, in however many calls and whatever
\* other spenders did in between, and what it may still move make up what the
\* holder last allowed it; and nobody who was allowed nothing has moved a thing.
SpendingIsAllowed ==
  \A p \in Pairs : grants[p].moved + allowances[p] = grants[p].given
=============================================================================
