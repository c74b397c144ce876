---------------------------- MODULE PriceOracle ----------------------------
(***************************************************************************)
(* src/contracts/oracle: the CSPR/USD price the vault values collateral    *)
(* with.  Anyone may pull the price of the Styks feed in, an updater may   *)
(* push one; a price older than max_age, or the owner's switch, makes the  *)
(* oracle answer with the fallback price instead.                          *)
(*                                                                         *)
(* Time is the block time, in the unit the contract's max_age is in.  The  *)
(* Styks contract is an input: whatever price it answers, or none (then    *)
(* the call reverts and nothing changes).                                  *)
(***************************************************************************)
EXTENDS Integers

CONSTANTS
  Owner, Updaters,      \* Updaters: accounts the owner may authorise
  StyksContracts,       \* addresses the owner may name as the feed
  InitialPrice,
  MIN_ACCEPTABLE_PRICE, MAX_ACCEPTABLE_PRICE, MAX_AGE_DEFAULT,
  Prices,               \* prices a call or the feed may carry
  MaxAges,              \* ages the owner may set
  MaxTime, MaxRound     \* bounds on the clock and the rounds

ASSUME OracleAssumption ==
  /\ MIN_ACCEPTABLE_PRICE \in Nat /\ MAX_ACCEPTABLE_PRICE \in Nat
  /\ MAX_AGE_DEFAULT \in Nat \ {0}
  /\ InitialPrice \in Nat /\ Prices \subseteq Nat /\ MaxAges \subseteq Nat

VARIABLES
  price_data, max_age, styks_oracle, updaters, fallback_price, use_fallback,
  now,       \* block time
  reports    \* history: the prices accepted, with their times

configVars == <<max_age, styks_oracle, updaters, fallback_price, use_fallback>>
vars == <<price_data, configVars, now, reports>>

PriceData == [price : Nat, updated_at : Nat, round_id : Nat]

TypeOK ==
  /\ price_data \in PriceData
  /\ max_age \in Nat \ {0}
  /\ styks_oracle \in StyksContracts
  /\ updaters \subseteq Updaters \cup {Owner}
  /\ fallback_price \in Nat
  /\ use_fallback \in BOOLEAN
  /\ now \in Nat
  /\ reports \subseteq [price : Nat, time : Nat]

Init ==
  /\ price_data = [price |-> InitialPrice, updated_at |-> 0, round_id |-> 1]
  /\ max_age = MAX_AGE_DEFAULT
  /\ styks_oracle \in StyksContracts
  /\ updaters = {Owner}
  /\ fallback_price = InitialPrice
  /\ use_fallback = FALSE
  /\ now = 0
  /\ reports = {[price |-> InitialPrice, time |-> 0]}

(***************************************************************************)
(* The views, each with the staleness test the code writes out in it.      *)
(***************************************************************************)
\* Mutant: the age is not looked at.
GetPriceOfAnyAge == IF use_fallback THEN fallback_price ELSE price_data.price

GetPrice ==
  IF use_fallback THEN fallback_price
  ELSE IF now > price_data.updated_at /\ now - price_data.updated_at > max_age
       THEN fallback_price
       ELSE price_data.price

GetLatestPriceData ==
  IF use_fallback
  THEN [price |-> fallback_price, updated_at |-> now, round_id |-> 0]
  ELSE price_data

\* Mutant: a price of exactly max_age counts as stale.
IsPriceStaleEarly ==
  /\ ~use_fallback
  /\ now > price_data.updated_at
  /\ now - price_data.updated_at >= max_age

IsPriceStale ==
  /\ ~use_fallback
  /\ now > price_data.updated_at
  /\ now - price_data.updated_at > max_age

GetPriceAge ==
  IF now <= price_data.updated_at THEN 0 ELSE now - price_data.updated_at

(***************************************************************************)
(* The calls.                                                              *)
(***************************************************************************)
UpdatePriceInternal(new_price) ==
  /\ new_price \in MIN_ACCEPTABLE_PRICE..MAX_ACCEPTABLE_PRICE
  /\ price_data' = [price |-> new_price, updated_at |-> now,
                    round_id |-> price_data.round_id + 1]
  /\ reports' = reports \cup {[price |-> new_price, time |-> now]}
  /\ UNCHANGED <<configVars, now>>

\* Open to every caller.  twap_price is what the Styks contract answers.
FetchFromStyks(twap_price) == UpdatePriceInternal(twap_price)

UpdatePrice(caller, new_price) ==
  /\ caller \in updaters
  /\ UpdatePriceInternal(new_price)

SetStyksOracle(caller, new_oracle) ==
  /\ caller = Owner
  /\ styks_oracle' = new_oracle
  /\ UNCHANGED <<price_data, max_age, updaters, fallback_price, use_fallback, now, reports>>

\* Mutant: an age of zero is accepted.
SetAnyMaxAge(caller, new_max_age) ==
  /\ caller = Owner
  /\ max_age' = new_max_age
  /\ UNCHANGED <<price_data, styks_oracle, updaters, fallback_price, use_fallback, now, reports>>

SetMaxAge(caller, new_max_age) ==
  /\ caller = Owner
  /\ new_max_age # 0
  /\ max_age' = new_max_age
  /\ UNCHANGED <<price_data, styks_oracle, updaters, fallback_price, use_fallback, now, reports>>

SetFallbackPrice(caller, price) ==
  /\ caller = Owner
  /\ fallback_price' = price
  /\ UNCHANGED <<price_data, max_age, styks_oracle, updaters, use_fallback, now, reports>>

SetUseFallback(caller, enabled) ==
  /\ caller = Owner
  /\ use_fallback' = enabled
  /\ UNCHANGED <<price_data, max_age, styks_oracle, updaters, fallback_price, now, reports>>

AddUpdater(caller, updater) ==
  /\ caller = Owner
  /\ updaters' = updaters \cup {updater}
  /\ UNCHANGED <<price_data, max_age, styks_oracle, fallback_price, use_fallback, now, reports>>

RemoveUpdater(caller, updater) ==
  /\ caller = Owner
  /\ updaters' = updaters \ {updater}
  /\ UNCHANGED <<price_data, max_age, styks_oracle, fallback_price, use_fallback, now, reports>>

Tick ==
  /\ now < MaxTime
  /\ now' = now + 1
  /\ UNCHANGED <<price_data, configVars, reports>>

ReportNext ==
  /\ price_data.round_id < MaxRound
  /\ \E price \in Prices :
       \/ FetchFromStyks(price)
       \/ \E caller \in Updaters \cup {Owner} : UpdatePrice(caller, price)

OwnerNext ==
  \/ \E oracle \in StyksContracts : SetStyksOracle(Owner, oracle)
  \/ \E age \in MaxAges : SetMaxAge(Owner, age)
  \/ \E price \in Prices : SetFallbackPrice(Owner, price)
  \/ \E enabled \in BOOLEAN : SetUseFallback(Owner, enabled)
  \/ \E updater \in Updaters \cup {Owner} :
       AddUpdater(Owner, updater) \/ RemoveUpdater(Owner, updater)

Next == ReportNext \/ OwnerNext \/ Tick

Spec == Init /\ [][Next]_vars

(***************************************************************************)
(* Properties.                                                             *)
(***************************************************************************)
\* While the oracle is neither switched to the fallback nor stale it serves the
\* latest report, and that is no older than max_age; otherwise it serves the
\* fallback price and nothing else.  How old the fallback price is, nothing
\* bounds: who values collateral by it is not told that the price is stale.
FreshOrFallback ==
  IF use_fallback \/ IsPriceStale
  THEN GetPrice = fallback_price
  ELSE \E report \in reports :
         /\ report.price = GetPrice
         /\ now - report.time <= max_age
         /\ \A other \in reports : other.time <= report.time

\* The staleness test, written out in three views, is one test: outside the
\* fallback mode the price and the data agree until the price is stale, then the
\* fallback is served, and stale is an age beyond max_age.  In the fallback mode
\* the views part: the data are of now, in round 0, and the age still that of the
\* last report.
ViewsAgree ==
  /\ ~use_fallback => (IsPriceStale <=> GetPriceAge > max_age)
  /\ ~use_fallback /\ ~IsPriceStale => GetPrice = GetLatestPriceData.price
  /\ IsPriceStale => ~use_fallback /\ GetPrice = fallback_price
=============================================================================
