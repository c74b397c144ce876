------------------------- MODULE PriceOracle_proofs -------------------------
(***************************************************************************)
(* What the price oracle serves, for any prices, ages, feeds and updaters: *)
(* the properties TLC checks in MCPriceOracle.cfg.                         *)
(***************************************************************************)
EXTENDS PriceOracle, TLAPS

\* The price stored is the latest report, of a time that has been.
LatestIsReport ==
  /\ [price |-> price_data.price, time |-> price_data.updated_at] \in reports
  /\ \A report \in reports : report.time <= price_data.updated_at
  /\ price_data.updated_at <= now

IInv == TypeOK /\ LatestIsReport

LEMMA OracleInit == Init => IInv
<1> SUFFICES ASSUME Init PROVE IInv
  OBVIOUS
<1>1. InitialPrice \in Nat /\ MAX_AGE_DEFAULT \in Nat \ {0}
  BY OracleAssumption
<1>2. /\ price_data = [price |-> InitialPrice, updated_at |-> 0, round_id |-> 1]
      /\ reports = {[price |-> InitialPrice, time |-> 0]} /\ now = 0
  BY DEF Init
<1>3. price_data \in PriceData /\ reports \subseteq [price : Nat, time : Nat]
  BY <1>1, <1>2 DEF PriceData
<1>4. use_fallback \in BOOLEAN
  BY DEF Init
<1>5. TypeOK
  BY <1>1, <1>2, <1>3, <1>4 DEF Init, TypeOK
<1>6. LatestIsReport
  BY <1>2 DEF LatestIsReport
<1> QED BY <1>5, <1>6 DEF IInv

\* A report, of the feed or of an updater, is of now.
LEMMA ReportStep ==
  ASSUME IInv, NEW new_price \in Prices, UpdatePriceInternal(new_price)
  PROVE  IInv'
<1>1. /\ price_data' = [price |-> new_price, updated_at |-> now,
                        round_id |-> price_data.round_id + 1]
      /\ reports' = reports \cup {[price |-> new_price, time |-> now]}
      /\ UNCHANGED <<configVars, now>>
  BY DEF UpdatePriceInternal
<1>2. new_price \in Nat /\ now \in Nat /\ price_data.round_id \in Nat
  BY OracleAssumption DEF IInv, TypeOK, PriceData
<1>3. price_data' \in PriceData /\ reports' \subseteq [price : Nat, time : Nat]
  BY <1>1, <1>2 DEF IInv, TypeOK, PriceData
<1>4. TypeOK'
  BY <1>1, <1>3 DEF IInv, TypeOK, configVars
<1>5. \A report \in reports : report.time <= now
  <2>1. \A report \in reports : report.time \in Nat
    BY DEF IInv, TypeOK
  <2> QED BY <1>2, <2>1 DEF IInv, TypeOK, PriceData, LatestIsReport
<1>6. LatestIsReport'
  BY <1>1, <1>2, <1>5 DEF LatestIsReport
<1> QED BY <1>4, <1>6 DEF IInv

LEMMA OwnerStep ==
  ASSUME IInv, OwnerNext
  PROVE  IInv'
<1>1. UNCHANGED <<price_data, now, reports>>
  BY DEF OwnerNext, SetStyksOracle, SetMaxAge, SetFallbackPrice, SetUseFallback, AddUpdater,
         RemoveUpdater
<1>2. LatestIsReport'
  BY <1>1 DEF IInv, LatestIsReport
<1>3. /\ max_age' \in Nat \ {0} /\ styks_oracle' \in StyksContracts
      /\ updaters' \subseteq Updaters \cup {Owner}
      /\ fallback_price' \in Nat /\ use_fallback' \in BOOLEAN
  BY OracleAssumption DEF IInv, TypeOK, OwnerNext, SetStyksOracle, SetMaxAge,
     SetFallbackPrice, SetUseFallback, AddUpdater, RemoveUpdater
<1>4. TypeOK'
  BY <1>1, <1>3 DEF IInv, TypeOK
<1> QED BY <1>1, <1>2, <1>4 DEF IInv

LEMMA TickStep ==
  ASSUME IInv, Tick
  PROVE  IInv'
<1>1. now' = now + 1 /\ UNCHANGED <<price_data, configVars, reports>>
  BY DEF Tick
<1>2. TypeOK'
  BY <1>1 DEF IInv, TypeOK, configVars
<1>3. LatestIsReport'
  BY <1>1 DEF IInv, TypeOK, PriceData, LatestIsReport
<1> QED BY <1>1, <1>2, <1>3 DEF IInv

LEMMA OracleStep ==
  ASSUME IInv, [Next]_vars
  PROVE  IInv'
<1>1. CASE ReportNext
  <2>1. PICK new_price \in Prices : UpdatePriceInternal(new_price)
    BY <1>1 DEF ReportNext, FetchFromStyks, UpdatePrice
  <2> QED BY <2>1, ReportStep
<1>2. CASE OwnerNext
  BY <1>2, OwnerStep
<1>3. CASE Tick
  BY <1>3, TickStep
<1>4. CASE UNCHANGED vars
  BY <1>4 DEF vars, configVars, IInv, TypeOK, LatestIsReport
<1> QED BY <1>1, <1>2, <1>3, <1>4 DEF Next

LEMMA OracleInvariant == Spec => []IInv
<1>1. IInv /\ [Next]_vars => IInv'
  BY OracleStep
<1> QED BY <1>1, OracleInit, PTL DEF Spec

\* Prices, times and rounds keep their types, and max_age stays positive.
THEOREM OracleTypes == Spec => []TypeOK
<1>1. IInv => TypeOK
  BY DEF IInv
<1> QED BY <1>1, OracleInvariant, PTL

\* Whatever the order of reports, ticks and changes of configuration, the price
\* served is the latest report and within max_age, or else, stale or switched,
\* the fallback price.
THEOREM FreshPrice == Spec => []FreshOrFallback
<1>1. IInv => FreshOrFallback
  <2> SUFFICES ASSUME IInv PROVE FreshOrFallback
    OBVIOUS
  <2>1. CASE use_fallback \/ IsPriceStale
    BY <2>1 DEF FreshOrFallback, GetPrice, IsPriceStale
  <2>2. CASE ~(use_fallback \/ IsPriceStale)
    <3> DEFINE report == [price |-> price_data.price, time |-> price_data.updated_at]
    <3>1. /\ report \in reports /\ price_data.updated_at <= now
          /\ \A other \in reports : other.time <= report.time
      BY DEF IInv, LatestIsReport
    <3>2. price_data.updated_at \in Nat /\ now \in Nat /\ max_age \in Nat
      BY DEF IInv, TypeOK, PriceData
    <3>3. ~(now > price_data.updated_at /\ now - price_data.updated_at > max_age)
      BY <2>2 DEF IsPriceStale
    <3>4. GetPrice = price_data.price
      BY <2>2, <3>3 DEF GetPrice
    <3>5. now - price_data.updated_at <= max_age
      BY <3>1, <3>2, <3>3
    <3> QED BY <2>2, <3>1, <3>4, <3>5 DEF FreshOrFallback
  <2> QED BY <2>1, <2>2
<1> QED BY <1>1, OracleInvariant, PTL

\* The staleness test of get_price, that of is_price_stale and the age agree
\* outside the fallback mode, up to the boundary and with a clock that stands.
THEOREM StalenessTestsAgree == Spec => []ViewsAgree
<1>1. IInv => ViewsAgree
  <2> SUFFICES ASSUME IInv PROVE ViewsAgree
    OBVIOUS
  <2>1. price_data.updated_at \in Nat /\ now \in Nat /\ max_age \in Nat
        /\ price_data.updated_at <= now
    BY DEF IInv, TypeOK, PriceData, LatestIsReport
  <2>2. ~use_fallback => (IsPriceStale <=> GetPriceAge > max_age)
    BY <2>1 DEF IsPriceStale, GetPriceAge
  <2>3. ~use_fallback /\ ~IsPriceStale => GetPrice = GetLatestPriceData.price
    BY DEF IsPriceStale, GetPrice, GetLatestPriceData
  <2>4. IsPriceStale => ~use_fallback /\ GetPrice = fallback_price
    BY DEF IsPriceStale, GetPrice
  <2> QED BY <2>2, <2>3, <2>4 DEF ViewsAgree
<1> QED BY <1>1, OracleInvariant, PTL
=============================================================================
