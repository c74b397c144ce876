------------------------- MODULE WithdrawalPromise -------------------------
(***************************************************************************)
(* What liquid staking promises to those who unstake, without its pool,    *)
(* its tokens, its validators and its keeper: a request names its holder,  *)
(* its amount and its unlock era for good; a claim pays its caller all     *)
(* that is unlocked in the era it names and was not paid before, and no    *)
(* user receives CSPR but by a claim of his own.  The era is the caller's  *)
(* to name, so no waiting time of the network is promised; and what the    *)
(* contract holds is otherwise of no account here, so neither is when a    *)
(* request is paid.                                                        *)
(***************************************************************************)
EXTENDS Integers, Functions

CONSTANTS
  Users,
  EraArgs   \* eras a claim may name

VARIABLES
  requests,  \* the requests made: who asked, for what, unlocked from when
  paid,      \* those of them that were paid
  purse,     \* what the contract holds
  received   \* what each user was paid, all told

vars == <<requests, paid, purse, received>>

Init ==
  /\ DOMAIN requests = {}
  /\ paid = {}
  /\ purse \in Nat
  /\ received = [user \in Users |-> 0]

\* A user asks: a new request, and the others stay what they are.
Ask ==
  /\ \E id \in DOMAIN requests' \ DOMAIN requests :
       /\ DOMAIN requests' = DOMAIN requests \cup {id}
       /\ requests'[id] \in [user : Users, amount : Nat, unlock_era : Nat]
  /\ \A id \in DOMAIN requests : requests'[id] = requests[id]
  /\ UNCHANGED <<paid, purse, received>>

\* The requests of a user that are unlocked in an era and not paid.
Due(user, era) ==
  {id \in DOMAIN requests \ paid :
     requests[id].user = user /\ requests[id].unlock_era <= era}

Amount(ids) == SumFunctionOnSet([id \in ids |-> requests[id].amount], ids)

\* All of it is paid, or nothing.
Pay(user, era) ==
  LET due == Due(user, era)
  IN /\ Amount(due) <= purse
     /\ paid' = paid \cup due
     /\ purse' = purse - Amount(due)
     /\ received' = [received EXCEPT ![user] = @ + Amount(due)]
     /\ UNCHANGED requests

\* Stakes come in, the keeper takes and returns.
PurseMoves == purse' \in Nat /\ UNCHANGED <<requests, paid, received>>

Next ==
  \/ Ask
  \/ \E user \in Users, era \in EraArgs : Pay(user, era)
  \/ PurseMoves

Spec == Init /\ [][Next]_vars
=============================================================================
