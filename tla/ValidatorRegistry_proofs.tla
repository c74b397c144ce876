---------------------- MODULE ValidatorRegistry_proofs ----------------------
(***************************************************************************)
(* What TLC checks of the registry on two validators, for any validators,  *)
(* batches, eras and widths.                                               *)
(***************************************************************************)
EXTENDS ValidatorRegistry, TLAPS

\* Every validator the registry knows carries data no newer than the last
\* update, and some validator carries the last update's; and no batch is ahead
\* of the network, whose era is bounded.
IInv == TypeOK /\ LastUpdateIsLatest /\ last_update_era <= network_era /\ network_era <= MaxEra

LEMMA PScoreType ==
  ASSUME NEW fee \in Percent, NEW is_active \in BOOLEAN, NEW decay_factor \in Percent
  PROVE  CalculatePScore(fee, is_active, decay_factor) \in Percent
<1> DEFINE q == ((100 - fee) * decay_factor) \div 100
<1>1. (100 - fee) \in 0..100 /\ decay_factor \in 0..100
  BY DEF Percent
<1>2. (100 - fee) * decay_factor \in 0..10000
  <2> DEFINE a == 100 - fee
             b == decay_factor
  <2>1. a \in 0..100 /\ b \in 0..100
    BY <1>1
  <2> HIDE DEF a, b
  <2>2. (100 - a) * b \in Nat /\ a * b \in Nat
    BY <2>1
  <2>3. (100 - a) * b = 100 * b - a * b
    BY <2>1
  <2>4. a * b <= 10000
    BY <2>1, <2>2, <2>3
  <2>5. a * b \in 0..10000
    BY <2>1, <2>2, <2>4
  <2> QED BY <2>5 DEF a, b
<1>3. q \in Percent
  <2>1. ASSUME NEW n \in 0..10000 PROVE n \div 100 \in 0..100
    <3>1. n \div 100 \in Nat /\ (n \div 100) * 100 <= n
      OBVIOUS
    <3> QED BY <3>1
  <2> QED BY <1>2, <2>1 DEF Percent
<1>4. CalculatePScore(fee, is_active, decay_factor) \in {0, q}
  BY DEF CalculatePScore, Percent
<1> QED BY <1>3, <1>4 DEF Percent

\* A step of the keeper's: what it does to the stored data.
LEMMA UpdateStep ==
  ASSUME IInv, NEW caller, NEW batch \in Batches, NEW p_avg \in PAvgs, NEW era \in EraArgs,
         UpdateValidators(caller, batch, p_avg, era)
  PROVE  /\ IInv'
         /\ \A v \in DOMAIN validators :
              /\ v \in DOMAIN validators'
              /\ validators'[v] # validators[v] =>
                   validators'[v].updated_era > validators[v].updated_era
<1> DEFINE updated == PubkeysOf(batch)
           update(v) == batch[CHOOSE i \in DOMAIN batch : batch[i].pubkey = v]
<1>1. era \in Nat /\ last_update_era \in Nat /\ era >= last_update_era
  BY DEF IInv, TypeOK, EraArgs, UpdateValidators, AcceptsBatch, Acceptable
<1>2. /\ DOMAIN validators' = DOMAIN validators \cup updated
      /\ \A v \in updated : validators'[v] = NewData(update(v), era)
      /\ \A v \in DOMAIN validators \ updated : validators'[v] = validators[v]
  BY DEF UpdateValidators, AcceptsBatch, Acceptable
<1>3. last_update_era' = era
  BY <1>1 DEF UpdateValidators, AcceptsBatch, Acceptable
<1>4. PICK n \in 0..MaxBatch : batch \in [1..n -> ValidatorUpdateData]
  BY DEF Batches
<1>5. updated \subseteq Validators /\ updated # {}
  <2>1. \A i \in 1..n : batch[i].pubkey \in Validators
    BY <1>4 DEF ValidatorUpdateData
  <2>2. batch # <<>>
    BY DEF UpdateValidators, AcceptsBatch, Acceptable
  <2>3. n # 0
    <3> SUFFICES ASSUME n = 0 PROVE FALSE
      OBVIOUS
    <3>1. DOMAIN batch = {} /\ DOMAIN <<>> = {}
      BY <1>4
    <3> QED BY <2>2, <3>1, <1>4
  <2> QED BY <1>4, <2>1, <2>3 DEF PubkeysOf
<1>6. ASSUME NEW v \in updated
      PROVE  /\ validators'[v] \in ValidatorData
             /\ validators'[v].updated_era = era
             /\ v \in DOMAIN validators => validators[v].updated_era < era
  <2>1. PICK i \in DOMAIN batch : batch[i].pubkey = v /\ update(v) = batch[i]
    BY DEF PubkeysOf
  <2>2. batch[i] \in ValidatorUpdateData
    BY <1>4, <2>1
  <2>3. /\ batch[i].fee <= 100 /\ batch[i].decay_factor <= 100
        /\ v \in DOMAIN validators => validators[v].updated_era # era
    BY <2>1 DEF UpdateValidators, AcceptsBatch, Acceptable
  <2>4. /\ batch[i].fee \in Percent /\ batch[i].decay_factor \in Percent
        /\ batch[i].is_active \in BOOLEAN
    <3>1. /\ batch[i].fee \in Fees /\ batch[i].decay_factor \in DecayFactors
          /\ batch[i].is_active \in BOOLEAN
      BY <2>2 DEF ValidatorUpdateData
    <3>2. Fees \subseteq Nat /\ DecayFactors \subseteq Nat
      BY RegistryAssumption
    <3>3. batch[i].fee \in Nat /\ batch[i].decay_factor \in Nat
      BY <3>1, <3>2
    <3>4. ASSUME NEW x \in Nat, x <= 100 PROVE x \in Percent
      BY <3>4 DEF Percent
    <3> QED BY <2>3, <3>1, <3>3, <3>4
  <2>5. validators'[v] = NewData(batch[i], era)
    BY <1>2, <2>1
  <2>6. CalculatePScore(batch[i].fee, batch[i].is_active, batch[i].decay_factor) \in Percent
    BY <2>4, PScoreType
  <2>7. validators'[v] \in ValidatorData /\ validators'[v].updated_era = era
    BY <1>1, <2>4, <2>5, <2>6 DEF NewData, ValidatorData
  <2>8. ASSUME v \in DOMAIN validators PROVE validators[v].updated_era < era
    <3>1. validators[v].updated_era <= last_update_era /\ validators[v].updated_era \in Nat
      BY <2>8 DEF IInv, LastUpdateIsLatest, TypeOK, ValidatorData
    <3> QED BY <1>1, <2>3, <2>8, <3>1
  <2> QED BY <2>7, <2>8
<1>7. TypeOK'
  <2>1. DOMAIN validators' \subseteq Validators
    BY <1>2, <1>5 DEF IInv, TypeOK
  <2>2. \A v \in DOMAIN validators' : validators'[v] \in ValidatorData
    BY <1>2, <1>6 DEF IInv, TypeOK
  <2> QED BY <1>1, <1>3, <2>1, <2>2 DEF UpdateValidators, AcceptsBatch, Acceptable, IInv, TypeOK
<1>8. LastUpdateIsLatest'
  <2>1. \A v \in DOMAIN validators' : validators'[v].updated_era <= era
    <3> SUFFICES ASSUME NEW v \in DOMAIN validators' PROVE validators'[v].updated_era <= era
      OBVIOUS
    <3>1. CASE v \in updated
      BY <1>1, <1>6, <3>1
    <3>2. CASE v \notin updated
      <4>1. validators'[v] = validators[v] /\ v \in DOMAIN validators
        BY <1>2, <3>2
      <4>2. validators[v].updated_era <= last_update_era /\ validators[v].updated_era \in Nat
        BY <4>1 DEF IInv, LastUpdateIsLatest, TypeOK, ValidatorData
      <4> QED BY <1>1, <4>1, <4>2
    <3> QED BY <3>1, <3>2
  <2>2. \E v \in DOMAIN validators' : validators'[v].updated_era = era
    BY <1>2, <1>5, <1>6
  <2> QED BY <1>3, <2>1, <2>2 DEF LastUpdateIsLatest
<1>9. ASSUME NEW v \in DOMAIN validators
      PROVE  /\ v \in DOMAIN validators'
             /\ validators'[v] # validators[v] =>
                  validators'[v].updated_era > validators[v].updated_era
  <2>1. CASE v \in updated
    <3>1. validators[v].updated_era \in Nat
      BY DEF IInv, TypeOK, ValidatorData
    <3> QED BY <1>1, <1>2, <1>6, <2>1, <3>1
  <2>2. CASE v \notin updated
    BY <1>2, <2>2
  <2> QED BY <2>1, <2>2
<1>10. last_update_era' <= network_era' /\ network_era' <= MaxEra
  BY <1>3 DEF IInv, EraArgs, UpdateValidators, AcceptsBatch, Acceptable
<1> QED BY <1>7, <1>8, <1>9, <1>10 DEF IInv

LEMMA SmallMod ==
  ASSUME NEW m \in Nat \ {0}, NEW x \in 0..(m - 1)
  PROVE  x % m = x
OBVIOUS

LEMMA RegistryInit == Init => IInv
BY RegistryAssumption DEF Init, IInv, TypeOK, LastUpdateIsLatest

LEMMA RegistryStep ==
  ASSUME IInv, [Next]_vars
  PROVE  /\ IInv'
         /\ \A v \in DOMAIN validators :
              /\ v \in DOMAIN validators'
              /\ validators'[v] # validators[v] =>
                   validators'[v].updated_era > validators[v].updated_era
<1>1. CASE KeeperNext
  BY <1>1, UpdateStep DEF KeeperNext
<1>2. CASE OwnerNext \/ NewEra \/ UNCHANGED vars
  <2>1. UNCHANGED <<validators, last_update_era>>
    BY <1>2 DEF OwnerNext, SetKeeper, NewEra, registryVars, vars
  <2>2. TypeOK'
    BY <1>2 DEF IInv, TypeOK, OwnerNext, SetKeeper, NewEra, registryVars, vars
  <2>3. last_update_era' <= network_era' /\ network_era' <= MaxEra
    BY <1>2, <2>1, RegistryAssumption
       DEF IInv, TypeOK, OwnerNext, SetKeeper, NewEra, registryVars, vars
  <2> QED BY <2>1, <2>2, <2>3 DEF IInv, LastUpdateIsLatest
<1> QED BY <1>1, <1>2 DEF Next

LEMMA RegistryInvariant == Spec => []IInv
<1>1. IInv /\ [Next]_vars => IInv'
  BY RegistryStep
<1> QED BY <1>1, RegistryInit, PTL DEF Spec

\* What is stored are percentages, with an average within its bounds, whatever
\* a batch carries.
THEOREM RegistryTypes == Spec => []TypeOK
<1>1. IInv => TypeOK
  BY DEF IInv
<1> QED BY <1>1, RegistryInvariant, PTL

\* last_update_era is the era of the freshest data, whatever batches were sent.
THEOREM LastUpdate == Spec => []LastUpdateIsLatest
<1>1. IInv => LastUpdateIsLatest
  BY DEF IInv
<1> QED BY <1>1, RegistryInvariant, PTL

\* A caller behind the last update finds nobody valid, at any width that holds
\* the eras.
LEMMA BehindWraps ==
  ASSUME IInv, NEW era \in 0..(last_update_era - 1)
  PROVE  WrappingSub(era, last_update_era) > STALE_DATA_ERAS
<1> DEFINE d == era - last_update_era + U64
<1>1. /\ last_update_era \in Nat /\ last_update_era <= MaxEra
      /\ MaxEra \in Nat /\ STALE_DATA_ERAS \in Nat /\ U64 \in Nat
      /\ MaxEra + STALE_DATA_ERAS < U64
  BY RegistryAssumption DEF IInv, TypeOK
<1>2. d \in 0..(U64 - 1) /\ d > STALE_DATA_ERAS /\ U64 \in Nat \ {0}
  BY <1>1
<1> HIDE DEF d
<1>3. d % U64 = d
  BY <1>2, SmallMod
<1> QED BY <1>2, <1>3 DEF WrappingSub, d

THEOREM NobodyBehind == Spec => []BehindFindsNobody
<1>1. IInv => BehindFindsNobody
  <2> SUFFICES ASSUME IInv, NEW v \in Validators, NEW era \in 0..(last_update_era - 1)
               PROVE  ~IsValid(v, era)
    BY DEF BehindFindsNobody
  <2>1. WrappingSub(era, last_update_era) > STALE_DATA_ERAS
    BY BehindWraps
  <2>2. WrappingSub(era, last_update_era) \in Int /\ STALE_DATA_ERAS \in Int
    <3>1. U64 \in Nat \ {0} /\ era - last_update_era + U64 \in Int /\ STALE_DATA_ERAS \in Int
      BY RegistryAssumption DEF IInv, TypeOK
    <3> QED BY <3>1 DEF WrappingSub
  <2> QED BY <2>1, <2>2 DEF IsValid
<1> QED BY <1>1, RegistryInvariant, PTL

\* No batch undoes newer data or drops a validator.
THEOREM NewerWins == Spec => NewerDataWins
<1> DEFINE A == \A v \in DOMAIN validators :
                  /\ v \in DOMAIN validators'
                  /\ validators'[v] # validators[v] =>
                       validators'[v].updated_era > validators[v].updated_era
<1>1. IInv /\ [Next]_vars => [A]_vars
  BY RegistryStep
<1>2. Spec => [][A]_vars
  BY <1>1, RegistryInvariant, PTL DEF Spec
<1> QED BY <1>2 DEF NewerDataWins
=============================================================================
