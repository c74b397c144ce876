--------------------------- MODULE KeeperRegistry ---------------------------
(***************************************************************************)
(* src/keeper: the updater of the validator registry, over the contract    *)
(* it feeds.  A timer, the start of the process and an HTTP call each start*)
(* an update, whether or not the last one is still waiting for an answer.  *)
(* An update reads the era, the auction's bids and the performance scores, *)
(* cuts the validators into batches and sends one transaction for each,    *)
(* without waiting for its execution; then it marks the era processed.     *)
(*                                                                         *)
(* JavaScript runs a callback to its next await: each action is what runs  *)
(* between two answers of the network.  Transactions on their way are a    *)
(* set: they are executed in any order, in this era or a later one, or     *)
(* expire.  Two equal ones count once, as the second always reverts.       *)
(*                                                                         *)
(* The branch of updateValidators for an error that names InvalidEra is    *)
(* left out: the contract's errors come with the execution, which nobody   *)
(* waits for.                                                              *)
(***************************************************************************)
EXTENDS Integers, Sequences, FiniteSets, Functions

CONSTANTS
  \* the contract's, see ValidatorRegistry
  Validators, Owner, Keepers, MIN_P_AVG, MAX_P_AVG, DEFAULT_P_AVG,
  MAX_VALIDATORS_PER_UPDATE, STALE_DATA_ERAS, U64, Fees, DecayFactors, PAvgs,
  MaxBatch, MaxLag, MaxEra,
  \* the keeper's
  Updates,            \* updates that may be under way at once
  BATCH_SIZE,
  P_AVG,              \* the network average it always reports
  MaxValidators,      \* maxValidatorsUpdateEachEra; 0 is no limit
  ERAS_TO_FETCH,
  \* the network's
  BidTables,          \* the sequences of bids the auction may hold in each era
  Performance,        \* the scores of each era, of some of the validators
  MaxInFlight,        \* bound on the transactions on their way
  MaxFaults           \* bound on failed calls, lost transactions, restarts

VARIABLES
  validators, network_p_avg, last_update_era, keeper, network_era,  \* the contract
  lastProcessedEra,   \* the service's mark, in memory
  updates,            \* the updates under way
  in_flight,          \* transactions sent and not executed
  bids,               \* history: the auction's bids in each era
  lost,               \* history: eras of which a transaction expired
  faults              \* how many faults there were

Registry == INSTANCE ValidatorRegistry

contractVars == <<validators, network_p_avg, last_update_era, keeper, network_era>>
serviceVars == <<lastProcessedEra, updates>>
networkVars == <<bids, lost, faults>>
vars == <<contractVars, serviceVars, in_flight, networkVars>>

Eras == 1..MaxEra
Percent == 0..100
Bid == [pubkey : Validators, fee : Percent, is_active : BOOLEAN]

NoTwins(data) == \A i, k \in DOMAIN data : data[i].pubkey = data[k].pubkey => i = k

ASSUME KeeperAssumption ==
  /\ MAX_VALIDATORS_PER_UPDATE \in Nat /\ MaxEra \in Nat \ {0}
  /\ BATCH_SIZE \in 1..MAX_VALIDATORS_PER_UPDATE
  /\ MaxValidators \in Nat /\ ERAS_TO_FETCH \in Nat \ {0}
  /\ P_AVG \in MIN_P_AVG..MAX_P_AVG
  \* A validator has one bid.
  /\ \A e \in Eras : \A table \in BidTables[e] : table \in Seq(Bid) /\ NoTwins(table)
  /\ \A e \in Eras : \A v \in DOMAIN Performance[e] : Performance[e][v] \in Nat
  /\ MaxFaults \in Nat

Idle == [stage |-> "idle"]

Init ==
  /\ Registry!Init
  /\ lastProcessedEra = 0
  /\ updates = [u \in Updates |-> Idle]
  /\ in_flight = {}
  /\ bids \in [{1} -> BidTables[1]]
  /\ lost = {}
  /\ faults = 0

-----------------------------------------------------------------------------
(***************************************************************************)
(* What an update computes.                                                *)
(***************************************************************************)
\* The validators' bids, in the order of the auction.
ValidatorInfos == bids[network_era]

\* Of the eras up to era, those the performance service answers for.
ErasToFetch(era) == {e \in Eras : e <= era /\ era < e + ERAS_TO_FETCH}

\* Of those, the eras that have a score of the validator.
Scored(v, answered) == {e \in answered : v \in DOMAIN Performance[e]}

SumOfScores(v, scored) == SumFunction([e \in scored |-> Performance[e][v]])

\* Mutant: the clamp from above is missing.
CalculateDecayFactorUnclamped(bid, answered) ==
  LET scored == Scored(bid.pubkey, answered)
      n == Cardinality(scored)
  IN  IF ~bid.is_active THEN 0
      ELSE IF scored = {} THEN 100
      ELSE (805 * n + 2 * SumOfScores(bid.pubkey, scored)) \div (10 * n)

\* Math.round(80 + 0.2 * average), between 80 and 100; no score is a full one.
CalculateDecayFactor(bid, answered) ==
  LET scored == Scored(bid.pubkey, answered)
      n == Cardinality(scored)
      decayFactor == (805 * n + 2 * SumOfScores(bid.pubkey, scored)) \div (10 * n)
  IN  IF ~bid.is_active THEN 0
      ELSE IF scored = {} \/ decayFactor > 100 THEN 100
      ELSE decayFactor

\* A stable sort, the highest factor first.
ByDecayFactor(data) ==
  LET Before(i) == {j \in DOMAIN data :
                      \/ data[j].decay_factor > data[i].decay_factor
                      \/ data[j].decay_factor = data[i].decay_factor /\ j < i}
  IN  [k \in DOMAIN data |-> data[CHOOSE i \in DOMAIN data : Cardinality(Before(i)) = k - 1]]

Top(data) ==
  IF MaxValidators > 0 /\ Len(data) > MaxValidators
  THEN SubSeq(data, 1, MaxValidators) ELSE data

WithDecayFactor(bid, answered) ==
  [pubkey |-> bid.pubkey, fee |-> bid.fee, is_active |-> bid.is_active,
   decay_factor |-> CalculateDecayFactor(bid, answered)]

ValidatorUpdates(infos, answered) ==
  Top(ByDecayFactor([i \in DOMAIN infos |-> WithDecayFactor(infos[i], answered)]))

\* The batch to send of the data left, and what is left after it.
NextBatch(data) == IF Len(data) <= BATCH_SIZE THEN data ELSE SubSeq(data, 1, BATCH_SIZE)
AfterBatch(data) == SubSeq(data, BATCH_SIZE + 1, Len(data))

-----------------------------------------------------------------------------
(***************************************************************************)
(* The steps of an update.                                                 *)
(***************************************************************************)
GetCurrentEra == network_era

\* Mutant: the era is marked as soon as it is read.
BeginUpdateMarks(u) ==
  /\ updates[u] = Idle
  /\ GetCurrentEra > lastProcessedEra
  /\ updates' = [updates EXCEPT ![u] = [stage |-> "inputs", era |-> GetCurrentEra]]
  /\ lastProcessedEra' = GetCurrentEra
  /\ UNCHANGED <<contractVars, in_flight, networkVars>>

\* A timer, a start of the process or an HTTP call, and the answer to the
\* question for the era.
BeginUpdate(u) ==
  /\ updates[u] = Idle
  /\ GetCurrentEra > lastProcessedEra
  /\ updates' = [updates EXCEPT ![u] = [stage |-> "inputs", era |-> GetCurrentEra]]
  /\ UNCHANGED <<contractVars, lastProcessedEra, in_flight, networkVars>>

\* The era is marked processed: the update returns at once.
SkipUpdate ==
  /\ GetCurrentEra <= lastProcessedEra
  /\ UNCHANGED vars

\* getValidators has answered, and then the performance service for some of the
\* eras or for none; an auction without bids ends the update.  What the service
\* answers is the past's, so the two answers are one step.
GotInputs(u, answered) ==
  /\ updates[u].stage = "inputs"
  /\ answered \subseteq ErasToFetch(updates[u].era)
  /\ updates' = [updates EXCEPT ![u] =
       IF ValidatorInfos = <<>> THEN Idle
       ELSE [stage |-> "sending", era |-> @.era,
             data |-> ValidatorUpdates(ValidatorInfos, answered)]]
  /\ UNCHANGED <<contractVars, lastProcessedEra, in_flight, networkVars>>

\* Mutant: the era is read again for each transaction.
TransactionOfNow(u) == [era |-> network_era, batch |-> NextBatch(updates[u].data)]

Transaction(u) == [era |-> updates[u].era, batch |-> NextBatch(updates[u].data)]

\* A node takes a transaction; their number is bounded.
SendDeploy(tx) ==
  /\ tx \in in_flight \/ Cardinality(in_flight) < MaxInFlight
  /\ in_flight' = in_flight \cup {tx}

\* The next batch is sent.  After the last one the era is marked, whatever
\* other updates have marked meanwhile.
SendBatch(u) ==
  LET left == AfterBatch(updates[u].data)
  IN /\ updates[u].stage = "sending"
     /\ SendDeploy(Transaction(u))
     /\ updates' = [updates EXCEPT ![u] = IF left = <<>> THEN Idle ELSE [@ EXCEPT !.data = left]]
     /\ lastProcessedEra' = IF left = <<>> THEN updates[u].era ELSE lastProcessedEra
     /\ UNCHANGED <<contractVars, networkVars>>

(***************************************************************************)
(* Faults.                                                                 *)
(***************************************************************************)
Fault == faults < MaxFaults /\ faults' = faults + 1

\* A call throws, or the bids are not answered: the update ends, unmarked.
\* The node may have taken the transaction all the same.
UpdateFails(u) ==
  /\ updates[u] # Idle
  /\ Fault
  /\ updates' = [updates EXCEPT ![u] = Idle]
  /\ \/ UNCHANGED in_flight
     \/ updates[u].stage = "sending" /\ SendDeploy(Transaction(u))
  /\ UNCHANGED <<contractVars, lastProcessedEra, bids, lost>>

\* The process starts again, with nothing marked.
Restart ==
  /\ Fault
  /\ updates' = [u \in Updates |-> Idle]
  /\ lastProcessedEra' = 0
  /\ UNCHANGED <<contractVars, in_flight, bids, lost>>

Expire(tx) ==
  /\ Fault
  /\ in_flight' = in_flight \ {tx}
  /\ lost' = lost \cup {tx.era}
  /\ UNCHANGED <<contractVars, serviceVars, bids>>

(***************************************************************************)
(* The network.                                                            *)
(***************************************************************************)
Accepted(tx) == Registry!AcceptsBatch(keeper, tx.batch, P_AVG, tx.era)

\* The transaction is executed: it updates the registry, or reverts.
Execute(tx) ==
  /\ in_flight' = in_flight \ {tx}
  /\ \/ Registry!UpdateValidators(keeper, tx.batch, P_AVG, tx.era)
     \/ ~Accepted(tx) /\ UNCHANGED contractVars
  /\ UNCHANGED <<serviceVars, networkVars>>

NewEra ==
  /\ Registry!NewEra
  /\ \E table \in BidTables[network_era'] :
       bids' = [e \in 1..network_era' |-> IF e = network_era' THEN table ELSE bids[e]]
  /\ UNCHANGED <<serviceVars, in_flight, lost, faults>>

-----------------------------------------------------------------------------
UpdateSteps(u) ==
  \/ \E answered \in SUBSET Eras : GotInputs(u, answered)
  \/ SendBatch(u)

Executes == \E tx \in in_flight : Execute(tx)

Next ==
  \/ \E u \in Updates : BeginUpdate(u) \/ UpdateSteps(u) \/ UpdateFails(u)
  \/ \E tx \in in_flight : Expire(tx)
  \/ Executes
  \/ SkipUpdate \/ Restart
  \/ NewEra

\* The interval timer keeps firing, calls are answered or fail, and the network
\* executes what it has taken.  Nothing is assumed of faults and eras.
Fairness ==
  /\ WF_vars(\E u \in Updates : BeginUpdate(u))
  /\ WF_vars(\E u \in Updates : UpdateSteps(u))
  /\ WF_vars(Executes)

Spec == Init /\ [][Next]_vars /\ Fairness

-----------------------------------------------------------------------------
(***************************************************************************)
(* Properties.                                                             *)
(***************************************************************************)
\* What the keeper sends, the contract takes: a batch of an era later than all
\* the registry has seen is never refused, for its size, its values or a
\* validator named twice.
BatchesAreAcceptable == \A tx \in in_flight : tx.era > last_update_era => Accepted(tx)

\* The stamp of a validator's data is honest: what the registry holds is what
\* the auction held in the era of the stamp or later, although the era, the
\* bids and the execution are of three different moments.
StampIsHonest ==
  \A v \in DOMAIN validators :
    \E e \in validators[v].updated_era..network_era :
      \E i \in DOMAIN bids[e] :
        bids[e][i] = [pubkey |-> v, fee |-> validators[v].fee, is_active |-> validators[v].is_active]

\* An era marked processed reaches the registry: it has a newer or equal update,
\* or a batch of the era is still to come, or one was lost.
MarkedEraArrives ==
  lastProcessedEra # 0 =>
    \/ last_update_era >= lastProcessedEra
    \/ \E tx \in in_flight : tx.era = lastProcessedEra
    \/ lastProcessedEra \in lost

\* When the network stays in an era, the registry comes to have data of it,
\* through failed calls, restarts and overlapping updates; only a transaction
\* that expired after it was sent can prevent it, as its era stays marked.
CatchesUp == <>[](last_update_era = network_era \/ network_era \in lost)
=============================================================================
