------------------------- MODULE ValidatorRegistry -------------------------
(***************************************************************************)
(* src/contracts/validator_registry: the keeper writes the validators'     *)
(* performance in batches, stamped with the era it believes current; the   *)
(* liquid staking contract asks whether a validator is valid and for its   *)
(* score.                                                                  *)
(*                                                                         *)
(* A batch that reverts leaves no trace, so UpdateValidators is the batch  *)
(* that succeeds.  Eras are u64: is_valid subtracts them with the wrap of  *)
(* a release build (a build with overflow checks reverts there, and a      *)
(* reverted is_valid makes nobody valid either).  U64 is 2^64, or a small  *)
(* width for TLC.                                                          *)
(***************************************************************************)
EXTENDS Integers, Sequences, FiniteSets

CONSTANTS
  Validators, Owner, Keepers,
  MIN_P_AVG, MAX_P_AVG, DEFAULT_P_AVG,
  MAX_VALIDATORS_PER_UPDATE,
  STALE_DATA_ERAS,
  U64,
  Fees, DecayFactors, PAvgs,  \* what a batch may carry
  MaxBatch,                   \* longest batch the keeper sends
  MaxLag,                     \* how many eras a call's era argument may trail
  MaxEra                      \* bound on the network's era

ASSUME RegistryAssumption ==
  /\ MIN_P_AVG \in Nat /\ MAX_P_AVG \in Nat /\ DEFAULT_P_AVG \in MIN_P_AVG..MAX_P_AVG
  /\ MAX_VALIDATORS_PER_UPDATE \in Nat /\ STALE_DATA_ERAS \in Nat
  /\ MaxBatch \in Nat /\ MaxLag \in Nat /\ MaxEra \in Nat \ {0}
  /\ U64 \in Nat /\ MaxEra + STALE_DATA_ERAS < U64
  /\ Fees \subseteq Nat /\ DecayFactors \subseteq Nat /\ PAvgs \subseteq Nat

VARIABLES
  validators,       \* what is stored, for the validators ever updated
  network_p_avg, last_update_era, keeper,
  network_era       \* the era of the Casper network

registryVars == <<validators, network_p_avg, last_update_era, keeper>>
vars == <<registryVars, network_era>>

Percent == 0..100

ValidatorData ==
  [fee : Percent, is_active : BOOLEAN, decay_factor : Percent,
   p_score : Percent, updated_era : Nat]

ValidatorUpdateData ==
  [pubkey : Validators, fee : Fees, is_active : BOOLEAN, decay_factor : DecayFactors]

TypeOK ==
  /\ DOMAIN validators \subseteq Validators
  /\ \A v \in DOMAIN validators : validators[v] \in ValidatorData
  /\ network_p_avg \in MIN_P_AVG..MAX_P_AVG
  /\ last_update_era \in Nat
  /\ keeper \in Keepers
  /\ network_era \in Nat

Init ==
  /\ validators = [v \in {} |-> 0]
  /\ network_p_avg = DEFAULT_P_AVG
  /\ last_update_era = 0
  /\ keeper \in Keepers
  /\ network_era = 1

(***************************************************************************)
(* Helpers.                                                                *)
(***************************************************************************)
RequireKeeper(caller) == caller \in {keeper, Owner}

\* The eras a call may name when the network is at network_era.
EraArgs == {e \in 0..network_era : network_era <= e + MaxLag}

\* Mutant: the product of the percentages is not scaled back.
CalculatePScoreUnscaled(fee, is_active, decay_factor) ==
  IF ~is_active THEN 0
  ELSE (IF fee <= 100 THEN 100 - fee ELSE 0) * decay_factor

\* saturating_sub: a fee above 100 does not reach here, but would count as 100.
CalculatePScore(fee, is_active, decay_factor) ==
  IF ~is_active THEN 0
  ELSE ((IF fee <= 100 THEN 100 - fee ELSE 0) * decay_factor) \div 100

\* Mutant: the data is stamped with the era of the update before.
NewDataOfLastEra(update, era) ==
  [fee |-> update.fee, is_active |-> update.is_active,
   decay_factor |-> update.decay_factor,
   p_score |-> CalculatePScore(update.fee, update.is_active, update.decay_factor),
   updated_era |-> last_update_era]

NewData(update, era) ==
  [fee |-> update.fee, is_active |-> update.is_active,
   decay_factor |-> update.decay_factor,
   p_score |-> CalculatePScore(update.fee, update.is_active, update.decay_factor),
   updated_era |-> era]

PubkeysOf(batch) == {batch[i].pubkey : i \in DOMAIN batch}

\* Mutant: a subtraction that stops at zero.
SaturatingSub(a, b) == IF b <= a THEN a - b ELSE 0

\* Mutant: an update of the same era is accepted again.
AcceptableAgain(update, era) == update.fee <= 100 /\ update.decay_factor <= 100

\* An update that does not revert the batch it is in.
Acceptable(update, era) ==
  /\ update.fee <= 100 /\ update.decay_factor <= 100
  /\ update.pubkey \in DOMAIN validators => validators[update.pubkey].updated_era # era

\* u64 subtraction.
WrappingSub(a, b) == (a - b + U64) % U64

IsValid(v, current_era) ==
  /\ v \in DOMAIN validators
  /\ validators[v].p_score > 0
  /\ validators[v].is_active
  /\ WrappingSub(current_era, last_update_era) <= STALE_DATA_ERAS

(***************************************************************************)
(* The calls.                                                              *)
(***************************************************************************)
\* What does not make the whole batch revert.
AcceptsBatch(caller, batch, p_avg, era) ==
  /\ RequireKeeper(caller)
  /\ batch # <<>>
  /\ era >= last_update_era
  /\ Len(batch) <= MAX_VALIDATORS_PER_UPDATE
  /\ p_avg \in MIN_P_AVG..MAX_P_AVG
  /\ \A i, j \in DOMAIN batch : batch[i].pubkey = batch[j].pubkey => i = j
  /\ \A i \in DOMAIN batch : Acceptable(batch[i], era)

UpdateValidators(caller, batch, p_avg, era) ==
  /\ AcceptsBatch(caller, batch, p_avg, era)
  /\ validators' =
       [v \in DOMAIN validators \cup PubkeysOf(batch) |->
          IF v \in PubkeysOf(batch)
          THEN NewData(batch[CHOOSE i \in DOMAIN batch : batch[i].pubkey = v], era)
          ELSE validators[v]]
  /\ network_p_avg' = p_avg
  /\ last_update_era' = IF era > last_update_era THEN era ELSE last_update_era
  /\ UNCHANGED <<keeper, network_era>>

SetKeeper(caller, new_keeper) ==
  /\ caller = Owner
  /\ keeper' = new_keeper
  /\ UNCHANGED <<validators, network_p_avg, last_update_era, network_era>>

NewEra ==
  /\ network_era < MaxEra
  /\ network_era' = network_era + 1
  /\ UNCHANGED registryVars

Batches == UNION {[1..n -> ValidatorUpdateData] : n \in 0..MaxBatch}

KeeperNext ==
  \E caller \in Keepers \cup {Owner}, batch \in Batches, p_avg \in PAvgs, era \in EraArgs :
    UpdateValidators(caller, batch, p_avg, era)

OwnerNext == \E new_keeper \in Keepers : SetKeeper(Owner, new_keeper)

Next == KeeperNext \/ OwnerNext \/ NewEra

Spec == Init /\ [][Next]_vars

(***************************************************************************)
(* Properties.                                                             *)
(***************************************************************************)
\* last_update_era, which alone decides staleness, is the era of the freshest
\* data stored: it neither runs ahead of what was written nor lags it.
LastUpdateIsLatest ==
  /\ \A v \in DOMAIN validators : validators[v].updated_era <= last_update_era
  /\ last_update_era # 0 =>
       \E v \in DOMAIN validators : validators[v].updated_era = last_update_era

\* A validator's data is replaced only by data of a later era, and never
\* dropped: a batch sent twice, late or out of order does not undo a newer one.
NewerDataWins ==
  [][\A v \in DOMAIN validators :
       /\ v \in DOMAIN validators'
       /\ validators'[v] # validators[v] =>
            validators'[v].updated_era > validators[v].updated_era]_vars

\* A caller whose era is behind the last update finds nobody valid, although
\* the subtraction of the eras wraps.
BehindFindsNobody ==
  \A v \in Validators, era \in 0..(last_update_era - 1) : ~IsValid(v, era)
=============================================================================
