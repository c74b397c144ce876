----------------------- MODULE KeeperRegistry_proofs -----------------------
(***************************************************************************)
(* What TLC checks of the registry's keeper with two updates, three        *)
(* validators and one fault, for any number of them.                       *)
(***************************************************************************)
EXTENDS KeeperRegistry, SumLemmas, FiniteSetTheorems, TLAPS

Update == [pubkey : Validators, fee : Percent, is_active : BOOLEAN, decay_factor : Percent]
BidOf(update) ==
  [pubkey |-> update.pubkey, fee |-> update.fee, is_active |-> update.is_active]

-----------------------------------------------------------------------------
(***************************************************************************)
(* What an update computes.                                                *)
(***************************************************************************)
LEMMA SumOfScoresType ==
  ASSUME NEW v \in Validators, NEW answered \in SUBSET Eras
  PROVE  /\ IsFiniteSet(Scored(v, answered))
         /\ SumOfScores(v, Scored(v, answered)) \in Nat
<1> DEFINE scored == Scored(v, answered)
           f == [e \in scored |-> Performance[e][v]]
<1>1. IsFiniteSet(scored)
  <2>1. MaxEra \in Int
    BY KeeperAssumption
  <2>2. IsFiniteSet(Eras)
    BY <2>1, FS_Interval DEF Eras
  <2>3. scored \subseteq Eras
    BY DEF Scored
  <2> HIDE DEF scored
  <2> QED BY <2>2, <2>3, FS_Subset
<1>2. f \in [scored -> Nat]
  <2>1. \A e \in scored : e \in Eras /\ v \in DOMAIN Performance[e]
    BY DEF Scored
  <2> HIDE DEF scored
  <2> QED BY <2>1, KeeperAssumption
<1> HIDE DEF scored
<1>3. SumFunction(f) \in Nat
  BY <1>1, <1>2, SumLedger
<1> QED BY <1>1, <1>3 DEF SumOfScores, scored

LEMMA DecayFactorType ==
  ASSUME NEW bid \in Bid, NEW answered \in SUBSET Eras
  PROVE  CalculateDecayFactor(bid, answered) \in Percent
<1> DEFINE scored == Scored(bid.pubkey, answered)
           n == Cardinality(scored)
           s == SumOfScores(bid.pubkey, scored)
           d == (805 * n + 2 * s) \div (10 * n)
<1>1. CASE scored = {} \/ ~bid.is_active
  BY <1>1 DEF CalculateDecayFactor, Percent
<1>2. CASE scored # {} /\ bid.is_active
  <2>1. s \in Nat /\ IsFiniteSet(scored)
    BY SumOfScoresType DEF Bid
  <2>2. n \in Nat \ {0}
    <3> HIDE DEF scored
    <3> QED BY <1>2, <2>1, FS_CardinalityType, FS_EmptySet
  <2>3. CalculateDecayFactor(bid, answered) = IF d > 100 THEN 100 ELSE d
    BY <1>2 DEF CalculateDecayFactor
  <2> HIDE DEF n, s
  <2>4. (805 * n + 2 * s) \in Nat /\ 10 * n \in Nat \ {0}
    BY <2>1, <2>2
  <2>5. d \in Nat
    BY <2>4
  <2> HIDE DEF d
  <2> QED BY <2>3, <2>5 DEF Percent
<1> QED BY <1>1, <1>2

\* The sorted data is the data in another order: each of its entries is one of
\* the data's, and no entry comes twice.
LEMMA SortPermutes ==
  ASSUME NEW n \in Nat, NEW data \in [1..n -> Update]
  PROVE  \E f \in [1..n -> 1..n] :
           /\ \A k, l \in 1..n : f[k] = f[l] => k = l
           /\ ByDecayFactor(data) = [k \in 1..n |-> data[f[k]]]
<1> DEFINE Before(i) == {j \in 1..n : \/ data[j].decay_factor > data[i].decay_factor
                                      \/ data[j].decay_factor = data[i].decay_factor /\ j < i}
           Rank(i) == Cardinality(Before(i))
           g == [i \in 1..n |-> Rank(i) + 1]
           Pick(k) == CHOOSE i \in 1..n : Rank(i) = k - 1
<1>1. \A i \in 1..n : data[i].decay_factor \in Int
  <2>1. \A i \in 1..n : data[i] \in Update
    OBVIOUS
  <2>2. \A d \in Update : d.decay_factor \in Percent
    BY DEF Update
  <2>3. Percent \subseteq Int
    BY DEF Percent
  <2> QED BY <2>1, <2>2, <2>3
<1>2. IsFiniteSet(1..n) /\ Cardinality(1..n) = n
  BY FS_Interval
<1>3. ASSUME NEW i \in 1..n PROVE IsFiniteSet(Before(i)) /\ Rank(i) \in 0..(n - 1)
  <2>1. Before(i) \in SUBSET 1..n /\ i \notin Before(i)
    BY <1>1
  <2> HIDE DEF Before
  <2>2. IsFiniteSet(Before(i)) /\ Rank(i) \in Nat
    BY <1>2, <2>1, FS_Subset, FS_CardinalityType
  <2>3. Before(i) \cup {i} \in SUBSET 1..n
    BY <2>1
  <2>4. Cardinality(Before(i) \cup {i}) = Rank(i) + 1
    BY <2>1, <2>2, FS_AddElement
  <2>5. Cardinality(Before(i) \cup {i}) <= n
    BY <1>2, <2>3, FS_Subset
  <2> QED BY <2>2, <2>4, <2>5
<1>4. ASSUME NEW i \in 1..n, NEW j \in 1..n, j \in Before(i) PROVE Rank(j) < Rank(i)
  <2>1. Before(j) \subseteq Before(i) /\ j \notin Before(j)
    BY <1>1, <1>4
  <2>2. IsFiniteSet(Before(j)) /\ IsFiniteSet(Before(i)) /\ Rank(j) \in Int /\ Rank(i) \in Int
    BY <1>3
  <2> HIDE DEF Before
  <2>3. Cardinality(Before(j) \cup {j}) = Rank(j) + 1
    BY <2>1, <2>2, FS_AddElement
  <2>4. Before(j) \cup {j} \in SUBSET Before(i)
    BY <1>4, <2>1
  <2>5. Cardinality(Before(j) \cup {j}) <= Rank(i)
    BY <2>2, <2>4, FS_Subset
  <2> QED BY <2>2, <2>3, <2>5
<1>5. ASSUME NEW i \in 1..n, NEW j \in 1..n, i # j PROVE Rank(i) # Rank(j)
  <2>1. i \in Before(j) \/ j \in Before(i)
    BY <1>1, <1>5
  <2> HIDE DEF Rank, Before
  <2>2. Rank(i) \in Int /\ Rank(j) \in Int
    BY <1>3
  <2> QED BY <1>4, <2>1, <2>2
<1> HIDE DEF Before, Rank
<1>6. g \in Surjection(1..n, 1..n)
  <2>1. \A i \in 1..n : g[i] \in 1..n
    BY <1>3
  <2>2. \A i, j \in 1..n : g[i] = g[j] => i = j
    BY <1>3, <1>5
  <2>3. g \in Injection(1..n, 1..n)
    BY <2>1, <2>2 DEF Injection, IsInjective
  <2> QED BY <1>2, <2>3, FS_Injection
<1>7. ASSUME NEW k \in 1..n PROVE Pick(k) \in 1..n /\ Rank(Pick(k)) = k - 1
  <2>1. PICK i \in 1..n : g[i] = k
    BY <1>6 DEF Surjection
  <2>2. Rank(i) = k - 1
    BY <1>3, <2>1
  <2> QED BY <2>2
<1> DEFINE f == [k \in 1..n |-> Pick(k)]
<1>8. f \in [1..n -> 1..n] /\ \A k, l \in 1..n : f[k] = f[l] => k = l
  <2>1. f \in [1..n -> 1..n]
    BY <1>7
  <2>2. ASSUME NEW k \in 1..n, NEW l \in 1..n, f[k] = f[l] PROVE k = l
    <3>1. Rank(Pick(k)) = k - 1 /\ Rank(Pick(l)) = l - 1 /\ Pick(k) = Pick(l)
      BY <1>7, <2>2
    <3> HIDE DEF Pick
    <3>2. k - 1 = l - 1
      BY <3>1
    <3> QED BY <3>2
  <2> QED BY <2>1, <2>2
<1>9. ByDecayFactor(data) = [k \in 1..n |-> data[f[k]]]
  <2>1. DOMAIN data = 1..n
    OBVIOUS
  <2>2. ByDecayFactor(data) = [k \in DOMAIN data |-> data[CHOOSE i \in DOMAIN data :
           Cardinality({j \in DOMAIN data :
                          \/ data[j].decay_factor > data[i].decay_factor
                          \/ data[j].decay_factor = data[i].decay_factor /\ j < i}) = k - 1]]
    BY Zenon DEF ByDecayFactor
  <2>3. ByDecayFactor(data) = [k \in 1..n |-> data[Pick(k)]]
    BY <2>1, <2>2, Zenon DEF Rank, Before
  <2> HIDE DEF Pick
  <2> QED BY <2>3
<1> QED BY <1>8, <1>9

\* Data that may be sent: bids as the auction has them, each validator once.
Sendable(data) == data \in Seq(Update) /\ data # <<>> /\ NoTwins(data)
IsOf(data, table) == \A i \in DOMAIN data : \E k \in DOMAIN table : table[k] = BidOf(data[i])

LEMMA UpdatesAreSendable ==
  ASSUME NEW infos \in Seq(Bid), NoTwins(infos), infos # <<>>, NEW answered \in SUBSET Eras
  PROVE  /\ Sendable(ValidatorUpdates(infos, answered))
         /\ IsOf(ValidatorUpdates(infos, answered), infos)
<1> DEFINE n == Len(infos)
           data == [i \in 1..n |-> WithDecayFactor(infos[i], answered)]
           sorted == ByDecayFactor(data)
           m == IF MaxValidators > 0 /\ n > MaxValidators THEN MaxValidators ELSE n
<1>1. n \in Nat \ {0} /\ DOMAIN infos = 1..n /\ \A i \in 1..n : infos[i] \in Bid
  OBVIOUS
<1>2. m \in 1..n
  BY <1>1, KeeperAssumption
<1> HIDE DEF n, m
<1>3. ASSUME NEW i \in 1..n
      PROVE  data[i] \in Update /\ BidOf(data[i]) = infos[i] /\ data[i].pubkey = infos[i].pubkey
  <2>1. infos[i] \in Bid /\ CalculateDecayFactor(infos[i], answered) \in Percent
    BY <1>1, DecayFactorType
  <2>2. ASSUME NEW b \in Bid, NEW d \in Percent
        PROVE  LET u == [pubkey |-> b.pubkey, fee |-> b.fee, is_active |-> b.is_active,
                         decay_factor |-> d]
               IN  u \in Update /\ BidOf(u) = b /\ u.pubkey = b.pubkey
    BY DEF Bid, Update, BidOf
  <2>3. data[i] = [pubkey |-> infos[i].pubkey, fee |-> infos[i].fee,
                   is_active |-> infos[i].is_active,
                   decay_factor |-> CalculateDecayFactor(infos[i], answered)]
    BY DEF WithDecayFactor
  <2> HIDE DEF data
  <2> QED BY <2>1, <2>2, <2>3
<1>4. data \in [1..n -> Update]
  BY <1>3
<1>5. PICK f \in [1..n -> 1..n] :
        /\ \A k, l \in 1..n : f[k] = f[l] => k = l
        /\ sorted = [k \in 1..n |-> data[f[k]]]
  BY <1>1, <1>4, SortPermutes
<1>6. ValidatorUpdates(infos, answered) = Top(sorted)
  BY <1>1 DEF ValidatorUpdates
<1>7. \A k \in 1..n : f[k] \in 1..n /\ sorted[k] = data[f[k]]
  BY <1>5
<1>8. sorted \in Seq(Update) /\ Len(sorted) = n
  <2>1. \A k \in 1..n : data[f[k]] \in Update
    BY <1>3
  <2> HIDE DEF data, sorted
  <2>2. sorted \in [1..n -> Update]
    BY <1>5, <2>1
  <2> QED BY <1>1, <2>2
<1> HIDE DEF sorted, data
<1> DEFINE top == Top(sorted)
<1>9. /\ top \in Seq(Update) /\ Len(top) = m
      /\ \A k \in 1..m : top[k] = data[f[k]] /\ f[k] \in 1..n
  <2>1. top = SubSeq(sorted, 1, m)
    <3>1. top = IF MaxValidators > 0 /\ n > MaxValidators
                THEN SubSeq(sorted, 1, MaxValidators) ELSE sorted
      BY ONLY <1>8 DEF Top, top
    <3>2. sorted = SubSeq(sorted, 1, n)
      BY <1>1, <1>8
    <3> HIDE DEF top
    <3> QED BY <3>1, <3>2 DEF m
  <2>2. /\ SubSeq(sorted, 1, m) \in Seq(Update) /\ Len(SubSeq(sorted, 1, m)) = m
        /\ \A k \in 1..m : SubSeq(sorted, 1, m)[k] = sorted[k]
    BY <1>1, <1>2, <1>8
  <2> HIDE DEF top
  <2> QED BY <1>1, <1>2, <1>7, <2>1, <2>2
<1> HIDE DEF top
<1>10. NoTwins(top)
  <2> SUFFICES ASSUME NEW k \in 1..m, NEW l \in 1..m, top[k].pubkey = top[l].pubkey
               PROVE  k = l
    BY <1>2, <1>9 DEF NoTwins
  <2>1. infos[f[k]].pubkey = infos[f[l]].pubkey /\ f[k] \in 1..n /\ f[l] \in 1..n
    BY <1>3, <1>9
  <2>2. f[k] = f[l]
    BY <1>1, <2>1 DEF NoTwins
  <2> QED BY <1>1, <1>2, <1>5, <2>2
<1>11. IsOf(top, infos)
  <2>1. DOMAIN top = 1..m
    BY <1>2, <1>9
  <2>2. ASSUME NEW k \in 1..m PROVE \E i \in DOMAIN infos : infos[i] = BidOf(top[k])
    <3>1. f[k] \in DOMAIN infos /\ top[k] = data[f[k]] /\ BidOf(data[f[k]]) = infos[f[k]]
      BY <1>1, <1>3, <1>9
    <3> QED BY <3>1
  <2> QED BY <2>1, <2>2 DEF IsOf
<1>12. top # <<>>
  BY <1>2, <1>9
<1> QED BY <1>6, <1>9, <1>10, <1>11, <1>12 DEF Sendable, top

\* What is sent of the data, and what is left of it.
LEMMA BatchesAreSendable ==
  ASSUME NEW data, Sendable(data)
  PROVE  /\ Sendable(NextBatch(data)) /\ Len(NextBatch(data)) <= BATCH_SIZE
         /\ \A i \in DOMAIN NextBatch(data) : i \in DOMAIN data /\ NextBatch(data)[i] = data[i]
         /\ AfterBatch(data) = <<>> \/ Sendable(AfterBatch(data))
         /\ \A i \in DOMAIN AfterBatch(data) :
              /\ i + BATCH_SIZE \in DOMAIN data
              /\ AfterBatch(data)[i] = data[i + BATCH_SIZE]
<1> DEFINE n == Len(data)
           batch == NextBatch(data)
           left == AfterBatch(data)
<1>1. BATCH_SIZE \in Nat \ {0}
  BY KeeperAssumption
<1>2. data \in Seq(Update) /\ n \in Nat \ {0} /\ DOMAIN data = 1..n
  BY DEF Sendable
<1>3. /\ batch \in Seq(Update) /\ Len(batch) <= BATCH_SIZE /\ Len(batch) \in 1..n
      /\ \A i \in 1..Len(batch) : batch[i] = data[i]
  BY <1>1, <1>2 DEF NextBatch
<1>4. /\ left \in Seq(Update) /\ Len(left) \in Nat
      /\ \A i \in 1..Len(left) : i + BATCH_SIZE \in 1..n /\ left[i] = data[i + BATCH_SIZE]
  BY <1>1, <1>2 DEF AfterBatch
<1> HIDE DEF batch, left
<1>5. NoTwins(batch)
  BY <1>2, <1>3 DEF NoTwins, Sendable
<1>6. NoTwins(left)
  <2> SUFFICES ASSUME NEW i \in 1..Len(left), NEW k \in 1..Len(left), left[i].pubkey = left[k].pubkey
               PROVE  i = k
    BY <1>4 DEF NoTwins
  <2>1. i + BATCH_SIZE = k + BATCH_SIZE
    BY <1>2, <1>4 DEF NoTwins, Sendable
  <2> QED BY <1>1, <1>4, <2>1
<1>7. batch # <<>> /\ DOMAIN batch = 1..Len(batch) /\ DOMAIN left = 1..Len(left)
  BY <1>3, <1>4
<1>8. Sendable(batch) /\ (left = <<>> \/ Sendable(left))
  BY <1>3, <1>4, <1>5, <1>6, <1>7 DEF Sendable
<1>9. \A i \in DOMAIN batch : i \in DOMAIN data /\ batch[i] = data[i]
  BY <1>2, <1>3, <1>7
<1> QED BY <1>2, <1>3, <1>4, <1>7, <1>8, <1>9 DEF batch, left

-----------------------------------------------------------------------------
(***************************************************************************)
(* The inductive invariant: what updates hold and what is on its way can   *)
(* be sent, and is of bids the auction had in its era or later.            *)
(***************************************************************************)
IsFrom(data, era) ==
  \A i \in DOMAIN data :
    \E e \in era..network_era : \E k \in DOMAIN bids[e] : bids[e][k] = BidOf(data[i])

IsInputs(x) == x = [stage |-> "inputs", era |-> x.era] /\ x.era \in 1..network_era

IsSending(x) ==
  /\ x = [stage |-> "sending", era |-> x.era, data |-> x.data]
  /\ x.era \in 1..network_era /\ Sendable(x.data) /\ IsFrom(x.data, x.era)

IsTransaction(tx) ==
  /\ tx.era \in 1..network_era /\ Sendable(tx.batch) /\ Len(tx.batch) <= BATCH_SIZE
  /\ IsFrom(tx.batch, tx.era)

NetworkOK ==
  /\ network_era \in 1..MaxEra
  /\ DOMAIN bids = 1..network_era
  /\ \A e \in 1..network_era : bids[e] \in BidTables[e]

RegistryOK ==
  /\ last_update_era \in Nat
  /\ \A v \in DOMAIN validators :
       validators[v].updated_era \in Nat \ {0} /\ validators[v].updated_era <= last_update_era

UpdatesOK ==
  /\ lastProcessedEra \in Nat
  /\ DOMAIN updates = Updates
  /\ \A u \in Updates : updates[u] = Idle \/ IsInputs(updates[u]) \/ IsSending(updates[u])

InFlightOK == \A tx \in in_flight : IsTransaction(tx)

IInv == NetworkOK /\ RegistryOK /\ UpdatesOK /\ InFlightOK /\ StampIsHonest /\ MarkedEraArrives

LEMMA StagesDiffer ==
  ASSUME NEW x, IsInputs(x) \/ IsSending(x)
  PROVE  /\ x # Idle
         /\ x.stage = "inputs" => IsInputs(x)
         /\ x.stage = "sending" => IsSending(x)
BY DEF Idle, IsInputs, IsSending

LEMMA StageOf ==
  ASSUME UpdatesOK, NEW u \in Updates
  PROVE  /\ updates[u].stage = "inputs" => IsInputs(updates[u])
         /\ updates[u].stage = "sending" => IsSending(updates[u])
<1>1. CASE updates[u] = Idle
  BY <1>1 DEF Idle
<1>2. CASE updates[u] # Idle
  BY <1>2, StagesDiffer DEF UpdatesOK
<1> QED BY <1>1, <1>2

LEMMA TransactionIsOne ==
  ASSUME UpdatesOK, NEW u \in Updates, updates[u].stage = "sending"
  PROVE  IsTransaction(Transaction(u)) /\ Transaction(u).era = updates[u].era
<1> DEFINE data == updates[u].data
           era == updates[u].era
<1>1. era \in 1..network_era /\ Sendable(data) /\ IsFrom(data, era)
  BY StageOf DEF IsSending
<1>2. Transaction(u).era = era /\ Transaction(u).batch = NextBatch(data)
  BY DEF Transaction
<1> HIDE DEF data, era
<1>3. IsFrom(NextBatch(data), era)
  BY <1>1, BatchesAreSendable DEF IsFrom
<1>4. Sendable(NextBatch(data)) /\ Len(NextBatch(data)) <= BATCH_SIZE
  BY <1>1, BatchesAreSendable
<1>5. IsTransaction(Transaction(u))
  BY <1>1, <1>2, <1>3, <1>4 DEF IsTransaction
<1> QED BY <1>2, <1>5 DEF era

\* A batch of an era later than all the registry has seen is taken.
LEMMA LaterIsAccepted ==
  ASSUME NetworkOK, RegistryOK, NEW tx, IsTransaction(tx), tx.era > last_update_era
  PROVE  Accepted(tx)
<1>1. tx.era \in Nat /\ last_update_era \in Nat
  BY DEF IsTransaction, NetworkOK, RegistryOK
<1>2. /\ tx.batch \in Seq(Update) /\ tx.batch # <<>> /\ NoTwins(tx.batch)
      /\ Len(tx.batch) <= BATCH_SIZE
  BY DEF IsTransaction, Sendable
<1>3. Len(tx.batch) <= MAX_VALIDATORS_PER_UPDATE
  BY <1>2, KeeperAssumption
<1>4. ASSUME NEW i \in DOMAIN tx.batch PROVE Registry!Acceptable(tx.batch[i], tx.era)
  <2>1. tx.batch[i] \in Update
    BY <1>2
  <2>2. tx.batch[i].fee \in Percent /\ tx.batch[i].decay_factor \in Percent
    BY <2>1 DEF Update
  <2>3. tx.batch[i].fee <= 100 /\ tx.batch[i].decay_factor <= 100
    BY <2>2 DEF Percent
  <2>4. \A v \in DOMAIN validators : validators[v].updated_era # tx.era
    BY <1>1 DEF RegistryOK
  <2> QED BY <2>3, <2>4 DEF Registry!Acceptable
<1>5. P_AVG \in MIN_P_AVG..MAX_P_AVG
  BY KeeperAssumption
<1> QED BY <1>1, <1>2, <1>3, <1>4, <1>5
        DEF Accepted, Registry!AcceptsBatch, Registry!RequireKeeper, NoTwins

-----------------------------------------------------------------------------
(***************************************************************************)
(* What a step leaves alone stays as the invariant has it: the auction's   *)
(* history only grows.                                                     *)
(***************************************************************************)
Grows ==
  /\ network_era' = network_era \/ network_era' = network_era + 1
  /\ \A e \in 1..network_era : bids'[e] = bids[e]

LEMMA UnchangedGrows == UNCHANGED <<network_era, bids>> => Grows
BY DEF Grows

LEMMA FromGrows ==
  ASSUME NetworkOK, Grows, NEW data, NEW era \in Nat \ {0}, IsFrom(data, era)
  PROVE  IsFrom(data, era)'
<1> SUFFICES ASSUME NEW i \in DOMAIN data
             PROVE  \E e \in era..network_era' : \E k \in DOMAIN bids'[e] :
                      bids'[e][k] = BidOf(data[i])
  BY DEF IsFrom, BidOf
<1>1. PICK e \in era..network_era : \E k \in DOMAIN bids[e] : bids[e][k] = BidOf(data[i])
  BY DEF IsFrom
<1>2. network_era \in Nat
  BY DEF NetworkOK
<1>3. e \in 1..network_era /\ e \in era..network_era'
  BY <1>2 DEF Grows
<1> QED BY <1>1, <1>3 DEF Grows

LEMMA UpdateGrows ==
  ASSUME NetworkOK, Grows, NEW x
  PROVE  /\ IsInputs(x) => IsInputs(x)'
         /\ IsSending(x) => IsSending(x)'
<1>1. \A era \in 1..network_era : era \in Nat \ {0} /\ era \in 1..network_era'
  BY DEF NetworkOK, Grows
<1>2. ASSUME IsInputs(x) PROVE IsInputs(x)'
  BY <1>1, <1>2 DEF IsInputs
<1>3. ASSUME IsSending(x) PROVE IsSending(x)'
  <2>1. IsFrom(x.data, x.era)'
    BY <1>1, <1>3, FromGrows DEF IsSending
  <2> QED BY <1>1, <1>3, <2>1 DEF IsSending, Sendable, NoTwins
<1> QED BY <1>2, <1>3

LEMMA TransactionGrows ==
  ASSUME NetworkOK, Grows, NEW tx, IsTransaction(tx)
  PROVE  IsTransaction(tx)'
<1>1. tx.era \in Nat \ {0} /\ tx.era \in 1..network_era'
  BY DEF NetworkOK, Grows, IsTransaction
<1>2. IsFrom(tx.batch, tx.era)'
  BY <1>1, FromGrows DEF IsTransaction
<1> QED BY <1>1, <1>2 DEF IsTransaction, Sendable, NoTwins

LEMMA InFlightGrows ==
  ASSUME NetworkOK, InFlightOK, Grows,
         \A tx \in in_flight' : tx \in in_flight \/ IsTransaction(tx)
  PROVE  InFlightOK'
<1> SUFFICES ASSUME NEW tx \in in_flight' PROVE IsTransaction(tx)'
  BY DEF InFlightOK
<1>1. IsTransaction(tx)
  BY DEF InFlightOK
<1> QED BY <1>1, TransactionGrows

LEMMA UpdatesGrow ==
  ASSUME NetworkOK, UpdatesOK, Grows, lastProcessedEra' \in Nat, DOMAIN updates' = Updates,
         \A u \in Updates : \/ updates'[u] = updates[u] \/ updates'[u] = Idle
                            \/ IsInputs(updates'[u]) \/ IsSending(updates'[u])
  PROVE  UpdatesOK'
<1>1. ASSUME NEW u \in Updates
      PROVE  (updates[u] = Idle \/ IsInputs(updates[u]) \/ IsSending(updates[u]))'
  <2>1. PICK x : x = updates'[u]
    OBVIOUS
  <2>2. x = Idle \/ IsInputs(x) \/ IsSending(x)
    BY <2>1 DEF UpdatesOK
  <2>3. x = Idle \/ IsInputs(x)' \/ IsSending(x)'
    BY <2>2, UpdateGrows
  <2> QED BY <2>1, <2>3 DEF IsInputs, IsSending, IsFrom
<1> QED BY <1>1 DEF UpdatesOK

LEMMA ContractKept ==
  ASSUME IInv, Grows, NetworkOK', UNCHANGED <<validators, last_update_era>>
  PROVE  RegistryOK' /\ StampIsHonest'
<1>1. RegistryOK'
  BY DEF IInv, RegistryOK
<1>2. ASSUME NEW v \in DOMAIN validators
      PROVE  \E e \in validators[v].updated_era..network_era' : \E i \in DOMAIN bids'[e] :
               bids'[e][i] = [pubkey |-> v, fee |-> validators[v].fee,
                              is_active |-> validators[v].is_active]
  <2>1. PICK e \in validators[v].updated_era..network_era : \E i \in DOMAIN bids[e] :
               bids[e][i] = [pubkey |-> v, fee |-> validators[v].fee,
                              is_active |-> validators[v].is_active]
    BY DEF IInv, StampIsHonest
  <2>2. validators[v].updated_era \in Nat \ {0} /\ network_era \in Nat
    BY DEF IInv, RegistryOK, NetworkOK
  <2>3. e \in 1..network_era /\ e \in validators[v].updated_era..network_era'
    BY <2>2 DEF Grows
  <2> QED BY <2>1, <2>3 DEF Grows
<1>3. StampIsHonest'
  BY <1>2 DEF StampIsHonest
<1> QED BY <1>1, <1>3

\* The steps of the service and of its faults: contract and auction rest.
LEMMA NetworkRests ==
  ASSUME IInv, UNCHANGED <<contractVars, bids>>
  PROVE  NetworkOK' /\ RegistryOK' /\ StampIsHonest' /\ Grows
<1>1. Grows
  BY UnchangedGrows DEF contractVars
<1>2. NetworkOK'
  BY DEF IInv, NetworkOK, contractVars
<1> QED BY <1>1, <1>2, ContractKept DEF contractVars

-----------------------------------------------------------------------------
(***************************************************************************)
(* Each step keeps the invariant.                                          *)
(***************************************************************************)
LEMMA InitOK == Init => IInv
<1> SUFFICES ASSUME Init PROVE IInv
  OBVIOUS
<1>1. network_era = 1 /\ last_update_era = 0 /\ DOMAIN validators = {}
  BY DEF Init, Registry!Init
<1>2. NetworkOK
  <2>1. MaxEra \in Nat \ {0}
    BY KeeperAssumption
  <2>2. 1 \in 1..MaxEra /\ 1..1 = {1}
    BY <2>1
  <2> QED BY <1>1, <2>2 DEF Init, NetworkOK
<1>3. RegistryOK /\ StampIsHonest
  BY <1>1 DEF RegistryOK, StampIsHonest
<1>4. UpdatesOK /\ InFlightOK /\ MarkedEraArrives
  BY DEF Init, UpdatesOK, InFlightOK, MarkedEraArrives
<1> QED BY <1>2, <1>3, <1>4 DEF IInv

LEMMA BeginUpdateStep ==
  ASSUME IInv, NEW u \in Updates, BeginUpdate(u)
  PROVE  IInv'
<1> DEFINE x == [stage |-> "inputs", era |-> network_era]
<1>1. UNCHANGED <<contractVars, lastProcessedEra, in_flight, bids, lost>>
  BY DEF BeginUpdate, networkVars
<1>2. NetworkOK' /\ RegistryOK' /\ StampIsHonest' /\ Grows
  BY <1>1, NetworkRests
<1>3. IsInputs(x)
  BY DEF IInv, NetworkOK, IsInputs
<1>4. updates' = [updates EXCEPT ![u] = x]
  BY DEF BeginUpdate, GetCurrentEra
<1> HIDE DEF x
<1>5. UpdatesOK'
  BY <1>1, <1>2, <1>3, <1>4, UpdatesGrow DEF IInv, UpdatesOK
<1>6. InFlightOK'
  BY <1>1, <1>2, InFlightGrows DEF IInv
<1>7. MarkedEraArrives'
  BY <1>1 DEF IInv, MarkedEraArrives, contractVars
<1> QED BY <1>2, <1>5, <1>6, <1>7 DEF IInv

LEMMA GotInputsStep ==
  ASSUME IInv, NEW u \in Updates, NEW answered \in SUBSET Eras, GotInputs(u, answered)
  PROVE  IInv'
<1> DEFINE era == updates[u].era
           data == ValidatorUpdates(ValidatorInfos, answered)
           x == [stage |-> "sending", era |-> era, data |-> data]
<1>1. UNCHANGED <<contractVars, lastProcessedEra, in_flight, bids, lost>>
  BY DEF GotInputs, networkVars
<1>2. NetworkOK' /\ RegistryOK' /\ StampIsHonest' /\ Grows
  BY <1>1, NetworkRests
<1>3. era \in 1..network_era
  BY StageOf DEF IInv, GotInputs, IsInputs
<1>4. ValidatorInfos \in Seq(Bid) /\ NoTwins(ValidatorInfos)
  BY KeeperAssumption DEF IInv, NetworkOK, ValidatorInfos, Eras
<1>5. updates' = [updates EXCEPT ![u] = IF ValidatorInfos = <<>> THEN Idle ELSE x]
  BY DEF GotInputs
<1> HIDE DEF era
<1>6. ValidatorInfos # <<>> => IsSending(x)
  <2> SUFFICES ASSUME ValidatorInfos # <<>> PROVE IsSending(x)
    OBVIOUS
  <2>1. Sendable(data) /\ IsOf(data, ValidatorInfos)
    BY <1>4, UpdatesAreSendable
  <2> HIDE DEF data
  <2>2. network_era \in era..network_era
    BY <1>3 DEF IInv, NetworkOK
  <2>3. IsFrom(data, era)
    BY <2>1, <2>2 DEF IsFrom, IsOf, ValidatorInfos
  <2> QED BY <1>3, <2>1, <2>3 DEF IsSending
<1> HIDE DEF x
<1>7. UpdatesOK'
  BY <1>1, <1>2, <1>5, <1>6, UpdatesGrow DEF IInv, UpdatesOK
<1>8. InFlightOK'
  BY <1>1, <1>2, InFlightGrows DEF IInv
<1>9. MarkedEraArrives'
  BY <1>1 DEF IInv, MarkedEraArrives, contractVars
<1> QED BY <1>2, <1>7, <1>8, <1>9 DEF IInv
\* An update with data sends a transaction, or finds it sent already.
LEMMA SendingIsOK ==
  ASSUME IInv, NEW u \in Updates, updates[u].stage = "sending", SendDeploy(Transaction(u))
  PROVE  /\ \A tx \in in_flight' : tx \in in_flight \/ IsTransaction(tx)
         /\ in_flight \subseteq in_flight'
         /\ \E tx \in in_flight' : tx.era = updates[u].era
BY TransactionIsOne DEF IInv, SendDeploy

LEMMA SendBatchStep ==
  ASSUME IInv, NEW u \in Updates, SendBatch(u)
  PROVE  IInv'
<1> DEFINE era == updates[u].era
           left == AfterBatch(updates[u].data)
           x == [stage |-> "sending", era |-> era, data |-> left]
<1>1. UNCHANGED <<contractVars, bids, lost>> /\ updates[u].stage = "sending"
  BY DEF SendBatch, networkVars
<1>2. NetworkOK' /\ RegistryOK' /\ StampIsHonest' /\ Grows
  BY <1>1, NetworkRests
<1>3. /\ updates[u] = [stage |-> "sending", era |-> era, data |-> updates[u].data]
      /\ era \in 1..network_era /\ Sendable(updates[u].data) /\ IsFrom(updates[u].data, era)
  BY <1>1, StageOf DEF IInv, IsSending
<1>4. /\ \A tx \in in_flight' : tx \in in_flight \/ IsTransaction(tx)
      /\ in_flight \subseteq in_flight'
      /\ \E tx \in in_flight' : tx.era = era
  BY <1>1, SendingIsOK DEF SendBatch
<1>5. lastProcessedEra' = IF left = <<>> THEN era ELSE lastProcessedEra
  BY DEF SendBatch
<1>6. updates' = [updates EXCEPT ![u] = IF left = <<>> THEN Idle ELSE x]
  <2>1. updates' = [updates EXCEPT ![u] =
                      IF left = <<>> THEN Idle ELSE [updates[u] EXCEPT !.data = left]]
    BY DEF SendBatch
  <2> HIDE DEF left
  <2>2. [updates[u] EXCEPT !.data = left] = x
    BY <1>3
  <2> QED BY <2>1, <2>2
<1>7. left # <<>> => IsSending(x)
  <2> SUFFICES ASSUME left # <<>> PROVE IsSending(x)
    OBVIOUS
  <2> HIDE DEF era
  <2>1. Sendable(left) /\ IsFrom(left, era)
    BY <1>3, BatchesAreSendable DEF IsFrom
  <2> QED BY <1>3, <2>1 DEF IsSending
<1> HIDE DEF era, left, x
<1>8. UpdatesOK'
  <2>1. lastProcessedEra' \in Nat
    BY <1>3, <1>5 DEF IInv, UpdatesOK, NetworkOK
  <2> QED BY <1>2, <1>6, <1>7, <2>1, UpdatesGrow DEF IInv, UpdatesOK
<1>9. InFlightOK'
  BY <1>2, <1>4, InFlightGrows DEF IInv
<1>10. MarkedEraArrives'
  BY <1>1, <1>4, <1>5 DEF IInv, MarkedEraArrives, contractVars
<1> QED BY <1>2, <1>8, <1>9, <1>10 DEF IInv

LEMMA UpdateFailsStep ==
  ASSUME IInv, NEW u \in Updates, UpdateFails(u)
  PROVE  IInv'
<1>1. /\ UNCHANGED <<contractVars, lastProcessedEra, bids, lost>>
      /\ updates' = [updates EXCEPT ![u] = Idle]
  BY DEF UpdateFails
<1>2. NetworkOK' /\ RegistryOK' /\ StampIsHonest' /\ Grows
  BY <1>1, NetworkRests
<1>3. UpdatesOK'
  BY <1>1, <1>2, UpdatesGrow DEF IInv, UpdatesOK
<1>4. /\ \A tx \in in_flight' : tx \in in_flight \/ IsTransaction(tx)
      /\ in_flight \subseteq in_flight'
  BY SendingIsOK DEF UpdateFails
<1>5. InFlightOK'
  BY <1>2, <1>4, InFlightGrows DEF IInv
<1>6. MarkedEraArrives'
  BY <1>1, <1>4 DEF IInv, MarkedEraArrives, contractVars
<1> QED BY <1>2, <1>3, <1>5, <1>6 DEF IInv

LEMMA RestartStep ==
  ASSUME IInv, Restart
  PROVE  IInv'
<1>1. /\ UNCHANGED <<contractVars, in_flight, bids, lost>>
      /\ updates' = [u \in Updates |-> Idle] /\ lastProcessedEra' = 0
  BY DEF Restart
<1>2. NetworkOK' /\ RegistryOK' /\ StampIsHonest' /\ Grows
  BY <1>1, NetworkRests
<1>3. UpdatesOK' /\ MarkedEraArrives'
  BY <1>1 DEF UpdatesOK, MarkedEraArrives
<1>4. InFlightOK'
  BY <1>1, <1>2, InFlightGrows DEF IInv
<1> QED BY <1>2, <1>3, <1>4 DEF IInv

\* An era whose transaction expires is marked as lost.
LEMMA ExpireStep ==
  ASSUME IInv, NEW tx \in in_flight, Expire(tx)
  PROVE  IInv'
<1>1. /\ UNCHANGED <<contractVars, lastProcessedEra, updates, bids>>
      /\ in_flight' = in_flight \ {tx} /\ lost' = lost \cup {tx.era}
  BY DEF Expire, serviceVars
<1>2. NetworkOK' /\ RegistryOK' /\ StampIsHonest' /\ Grows
  BY <1>1, NetworkRests
<1>3. UpdatesOK'
  BY <1>1, <1>2, UpdatesGrow DEF IInv, UpdatesOK
<1>4. InFlightOK'
  BY <1>1, <1>2, InFlightGrows DEF IInv
<1>5. MarkedEraArrives'
  BY <1>1 DEF IInv, MarkedEraArrives, contractVars
<1> QED BY <1>2, <1>3, <1>4, <1>5 DEF IInv

\* What is executed is stored under an honest stamp; what reverts is of an era
\* the registry has passed.
LEMMA ExecuteStep ==
  ASSUME IInv, NEW tx \in in_flight, Execute(tx)
  PROVE  IInv'
<1>1. /\ UNCHANGED <<lastProcessedEra, updates, bids, lost>>
      /\ in_flight' = in_flight \ {tx}
      /\ network_era' = network_era
  BY DEF Execute, serviceVars, networkVars, contractVars, Registry!UpdateValidators
<1>2. Grows /\ NetworkOK'
  BY <1>1, UnchangedGrows DEF IInv, NetworkOK
<1>3. UpdatesOK'
  BY <1>1, <1>2, UpdatesGrow DEF IInv, UpdatesOK
<1>4. InFlightOK'
  BY <1>1, <1>2, InFlightGrows DEF IInv
<1>5. IsTransaction(tx) /\ network_era \in Nat /\ last_update_era \in Nat
  BY DEF IInv, InFlightOK, NetworkOK, RegistryOK
<1>6. tx.era \in Nat \ {0} /\ tx.era \in 1..network_era
  BY <1>5 DEF IsTransaction
<1>7. ASSUME ~Accepted(tx), UNCHANGED contractVars
      PROVE  RegistryOK' /\ StampIsHonest' /\ MarkedEraArrives'
  <2>1. tx.era <= last_update_era
    BY <1>5, <1>6, <1>7, LaterIsAccepted DEF IInv
  <2>2. MarkedEraArrives'
    BY <1>1, <1>7, <2>1 DEF IInv, MarkedEraArrives, contractVars
  <2>3. RegistryOK' /\ StampIsHonest'
    BY <1>2, <1>7, ContractKept DEF contractVars
  <2> QED BY <2>2, <2>3
<1>8. ASSUME Registry!UpdateValidators(keeper, tx.batch, P_AVG, tx.era)
      PROVE  RegistryOK' /\ StampIsHonest' /\ MarkedEraArrives'
  <2> DEFINE batch == tx.batch
             era == tx.era
             At(v) == CHOOSE i \in DOMAIN batch : batch[i].pubkey = v
  <2>1. last_update_era' = era /\ era >= last_update_era
    BY <1>5, <1>6, <1>8 DEF Registry!UpdateValidators, Registry!AcceptsBatch
  <2>2. /\ DOMAIN validators' = DOMAIN validators \cup Registry!PubkeysOf(batch)
        /\ \A v \in DOMAIN validators' :
             validators'[v] = IF v \in Registry!PubkeysOf(batch)
                              THEN Registry!NewData(batch[At(v)], era) ELSE validators[v]
    BY <1>8, Zenon DEF Registry!UpdateValidators
  <2>3. ASSUME NEW v \in Registry!PubkeysOf(batch)
        PROVE  At(v) \in DOMAIN batch /\ batch[At(v)].pubkey = v
    BY DEF Registry!PubkeysOf
  <2> HIDE DEF At
  <2>4. ASSUME NEW v \in Registry!PubkeysOf(batch)
        PROVE  /\ validators'[v].updated_era = era /\ validators'[v].fee = batch[At(v)].fee
               /\ validators'[v].is_active = batch[At(v)].is_active
    <3>1. \A update, e : LET data == Registry!NewData(update, e)
                         IN  /\ data.updated_era = e /\ data.fee = update.fee
                             /\ data.is_active = update.is_active
      BY DEF Registry!NewData
    <3>2. validators'[v] = Registry!NewData(batch[At(v)], era)
      BY <2>2
    <3> HIDE DEF batch, era
    <3> QED BY <3>1, <3>2
  <2>5. MarkedEraArrives'
    BY <1>1, <1>5, <1>6, <2>1 DEF IInv, MarkedEraArrives, UpdatesOK
  <2>6. RegistryOK'
    <3> SUFFICES ASSUME NEW v \in DOMAIN validators'
                 PROVE  /\ validators'[v].updated_era \in Nat \ {0}
                        /\ validators'[v].updated_era <= era
      BY <1>6, <2>1 DEF RegistryOK
    <3>1. ASSUME v \in Registry!PubkeysOf(batch) PROVE validators'[v].updated_era = era
      BY <2>4, <3>1
    <3>2. ASSUME v \notin Registry!PubkeysOf(batch)
          PROVE  v \in DOMAIN validators /\ validators'[v] = validators[v]
      BY <2>2, <3>2
    <3> HIDE DEF batch, era
    <3>3. era \in Nat \ {0}
      BY <1>6 DEF era
    <3> QED BY <1>5, <2>1, <3>1, <3>2, <3>3 DEF IInv, RegistryOK
  <2>7. StampIsHonest'
    <3> SUFFICES ASSUME NEW v \in DOMAIN validators'
                 PROVE  \E e \in validators'[v].updated_era..network_era : \E i \in DOMAIN bids[e] :
                          bids[e][i] = [pubkey |-> v, fee |-> validators'[v].fee,
                                        is_active |-> validators'[v].is_active]
      BY <1>1 DEF StampIsHonest
    <3>1. CASE v \in Registry!PubkeysOf(batch)
      <4>1. PICK e \in era..network_era : \E k \in DOMAIN bids[e] : bids[e][k] = BidOf(batch[At(v)])
        BY <1>5, <2>3, <3>1 DEF IsTransaction, IsFrom
      <4>2. /\ validators'[v].updated_era = era /\ validators'[v].fee = batch[At(v)].fee
            /\ validators'[v].is_active = batch[At(v)].is_active
        BY <2>4, <3>1
      <4>3. BidOf(batch[At(v)]) = [pubkey |-> v, fee |-> validators'[v].fee,
                                   is_active |-> validators'[v].is_active]
        BY <2>3, <3>1, <4>2 DEF BidOf
      <4> QED BY <4>1, <4>2, <4>3
    <3>2. CASE v \notin Registry!PubkeysOf(batch)
      BY <2>2, <3>2 DEF IInv, StampIsHonest
    <3> QED BY <3>1, <3>2
  <2> QED BY <2>5, <2>6, <2>7
<1>9. RegistryOK' /\ StampIsHonest' /\ MarkedEraArrives'
  BY <1>7, <1>8 DEF Execute
<1> QED BY <1>2, <1>3, <1>4, <1>9 DEF IInv

LEMMA NewEraStep ==
  ASSUME IInv, NewEra
  PROVE  IInv'
<1>1. /\ network_era < MaxEra /\ network_era' = network_era + 1
      /\ UNCHANGED <<validators, last_update_era, lastProcessedEra, updates, in_flight, lost>>
  BY DEF NewEra, Registry!NewEra, Registry!registryVars, serviceVars
<1>2. PICK table \in BidTables[network_era'] :
        bids' = [e \in 1..network_era' |-> IF e = network_era' THEN table ELSE bids[e]]
  BY DEF NewEra
<1>3. network_era \in 1..MaxEra /\ MaxEra \in Nat
  BY KeeperAssumption DEF IInv, NetworkOK
<1>4. Grows /\ NetworkOK'
  <2>1. \A e \in 1..network_era : bids'[e] = bids[e] /\ e \in 1..network_era'
    BY <1>1, <1>2, <1>3
  <2>2. \A e \in 1..network_era' : bids'[e] \in BidTables[e]
    BY <1>1, <1>2, <1>3 DEF IInv, NetworkOK
  <2> QED BY <1>1, <1>2, <1>3, <2>1, <2>2 DEF Grows, NetworkOK
<1>5. RegistryOK' /\ StampIsHonest'
  BY <1>1, <1>4, ContractKept
<1>6. UpdatesOK'
  BY <1>1, <1>4, UpdatesGrow DEF IInv, UpdatesOK
<1>7. InFlightOK'
  BY <1>1, <1>4, InFlightGrows DEF IInv
<1>8. MarkedEraArrives'
  BY <1>1 DEF IInv, MarkedEraArrives
<1> QED BY <1>4, <1>5, <1>6, <1>7, <1>8 DEF IInv

LEMMA NothingChanges ==
  ASSUME IInv, UNCHANGED vars
  PROVE  IInv'
<1>1. UNCHANGED <<contractVars, lastProcessedEra, updates, in_flight, bids, lost>>
  BY DEF vars, serviceVars, networkVars
<1>2. NetworkOK' /\ RegistryOK' /\ StampIsHonest' /\ Grows
  BY <1>1, NetworkRests
<1>3. UpdatesOK' /\ InFlightOK'
  BY <1>1, <1>2, UpdatesGrow, InFlightGrows DEF IInv, UpdatesOK
<1>4. MarkedEraArrives'
  BY <1>1 DEF IInv, MarkedEraArrives, contractVars
<1> QED BY <1>2, <1>3, <1>4 DEF IInv

LEMMA KeeperInvariant == Spec => []IInv
<1>1. Init => IInv
  BY InitOK
<1>2. IInv /\ [Next]_vars => IInv'
  <2> SUFFICES ASSUME IInv, [Next]_vars PROVE IInv'
    OBVIOUS
  <2>1. ASSUME NEW u \in Updates, BeginUpdate(u) PROVE IInv'
    BY <2>1, BeginUpdateStep
  <2>2. ASSUME NEW u \in Updates, UpdateSteps(u) PROVE IInv'
    BY <2>2, GotInputsStep, SendBatchStep DEF UpdateSteps
  <2>3. ASSUME NEW u \in Updates, UpdateFails(u) PROVE IInv'
    BY <2>3, UpdateFailsStep
  <2>4. ASSUME NEW tx \in in_flight, Expire(tx) PROVE IInv'
    BY <2>4, ExpireStep
  <2>5. ASSUME Executes PROVE IInv'
    BY <2>5, ExecuteStep DEF Executes
  <2>6. ASSUME SkipUpdate \/ UNCHANGED vars PROVE IInv'
    BY <2>6, NothingChanges DEF SkipUpdate
  <2>7. ASSUME Restart PROVE IInv'
    BY <2>7, RestartStep
  <2>8. ASSUME NewEra PROVE IInv'
    BY <2>8, NewEraStep
  <2> QED BY <2>1, <2>2, <2>3, <2>4, <2>5, <2>6, <2>7, <2>8 DEF Next
<1> QED BY <1>1, <1>2, PTL DEF Spec

-----------------------------------------------------------------------------
(***************************************************************************)
(* The results.                                                            *)
(***************************************************************************)
\* No batch of an era later than the registry's last one is refused, whatever
\* the scores, the bids and the order in which transactions arrive.
THEOREM KeeperBatchesAcceptable == Spec => []BatchesAreAcceptable
<1>1. IInv => BatchesAreAcceptable
  BY LaterIsAccepted DEF IInv, InFlightOK, BatchesAreAcceptable
<1> QED BY <1>1, KeeperInvariant, PTL

\* What the registry holds of a validator, the auction held in the era of its
\* stamp or later.
THEOREM KeeperStampsHonest == Spec => []StampIsHonest
<1>1. IInv => StampIsHonest
  BY DEF IInv
<1> QED BY <1>1, KeeperInvariant, PTL

\* An era the keeper has marked is in the registry, on its way to it, or was
\* lost on the way: overlapping updates do not mark what nobody has sent.
THEOREM KeeperMarksArrive == Spec => []MarkedEraArrives
<1>1. IInv => MarkedEraArrives
  BY DEF IInv
<1> QED BY <1>1, KeeperInvariant, PTL

-----------------------------------------------------------------------------
(***************************************************************************)
(* What the registry guarantees, with this keeper.                         *)
(***************************************************************************)
\* What is executed is stored under its era, over older data only.
LEMMA UpdateStores ==
  ASSUME IInv, NEW tx \in in_flight,
         Registry!UpdateValidators(keeper, tx.batch, P_AVG, tx.era)
  PROVE  LET updated == Registry!PubkeysOf(tx.batch)
         IN  /\ last_update_era' = tx.era /\ tx.era >= last_update_era
             /\ DOMAIN validators' = DOMAIN validators \cup updated
             /\ updated # {}
             /\ \A v \in updated : validators'[v].updated_era = tx.era
             /\ \A v \in DOMAIN validators \ updated : validators'[v] = validators[v]
             /\ \A v \in DOMAIN validators \cap updated : validators[v].updated_era < tx.era
<1> DEFINE batch == tx.batch
           era == tx.era
           updated == Registry!PubkeysOf(batch)
           update(v) == batch[CHOOSE i \in DOMAIN batch : batch[i].pubkey = v]
<1>1. era \in Nat /\ last_update_era \in Nat
  BY DEF IInv, InFlightOK, IsTransaction, NetworkOK, RegistryOK
<1>2. last_update_era' = era /\ era >= last_update_era
  BY <1>1 DEF Registry!UpdateValidators, Registry!AcceptsBatch
<1>3. /\ DOMAIN validators' = DOMAIN validators \cup updated
      /\ \A v \in updated : validators'[v] = Registry!NewData(update(v), era)
      /\ \A v \in DOMAIN validators \ updated : validators'[v] = validators[v]
  BY Zenon DEF Registry!UpdateValidators
<1>4. updated # {}
  <2>1. batch \in Seq(Update) /\ batch # <<>>
    BY DEF IInv, InFlightOK, IsTransaction, Sendable
  <2>2. 1 \in DOMAIN batch
    BY <2>1
  <2> QED BY <2>2 DEF Registry!PubkeysOf
<1>5. \A v \in updated : validators'[v].updated_era = era
  BY <1>3 DEF Registry!NewData
<1>6. \A v \in DOMAIN validators \cap updated : validators[v].updated_era < era
  <2> SUFFICES ASSUME NEW v \in DOMAIN validators \cap updated
               PROVE  validators[v].updated_era < era
    OBVIOUS
  <2>1. PICK i \in DOMAIN batch : batch[i].pubkey = v
    BY DEF Registry!PubkeysOf
  <2>2. Registry!Acceptable(batch[i], era)
    BY DEF Registry!UpdateValidators, Registry!AcceptsBatch
  <2>3. validators[v].updated_era # era
    BY <2>1, <2>2 DEF Registry!Acceptable
  <2>4. validators[v].updated_era \in Nat /\ validators[v].updated_era <= last_update_era
    BY DEF IInv, RegistryOK
  <2> HIDE DEF era, updated, batch
  <2> QED BY <1>1, <1>2, <2>3, <2>4
<1> QED BY <1>2, <1>3, <1>4, <1>5, <1>6

\* Every other step leaves the registry's data alone.
LEMMA RegistryMoves ==
  ASSUME [Next]_vars
  PROVE  \/ UNCHANGED <<validators, last_update_era>>
         \/ \E tx \in in_flight :
              Registry!UpdateValidators(keeper, tx.batch, P_AVG, tx.era)
<1>1. ASSUME NEW u \in Updates, BeginUpdate(u) \/ UpdateSteps(u) \/ UpdateFails(u)
      PROVE  UNCHANGED <<validators, last_update_era>>
  BY <1>1 DEF BeginUpdate, UpdateSteps, GotInputs, SendBatch, UpdateFails, contractVars
<1>2. ASSUME NEW tx \in in_flight, Expire(tx) PROVE UNCHANGED <<validators, last_update_era>>
  BY <1>2 DEF Expire, contractVars
<1>3. CASE Executes
  BY <1>3 DEF Executes, Execute, contractVars
<1>4. CASE SkipUpdate \/ Restart \/ UNCHANGED vars
  BY <1>4 DEF SkipUpdate, Restart, vars, contractVars
<1>5. CASE NewEra
  BY <1>5 DEF NewEra, Registry!NewEra, Registry!registryVars
<1> QED BY <1>1, <1>2, <1>3, <1>4, <1>5 DEF Next

\* The era by which all data is taken to be fresh or stale is that of some
\* validator's data and later than no other's, in whatever order the batches of
\* different eras arrive.
THEOREM KeeperKeepsLatest == Spec => []Registry!LastUpdateIsLatest
<1>1. Init => Registry!LastUpdateIsLatest
  BY DEF Init, Registry!Init, Registry!LastUpdateIsLatest
<1>2. IInv /\ IInv' /\ Registry!LastUpdateIsLatest /\ [Next]_vars => Registry!LastUpdateIsLatest'
  <2> SUFFICES ASSUME IInv, IInv', Registry!LastUpdateIsLatest, [Next]_vars
               PROVE  Registry!LastUpdateIsLatest'
    OBVIOUS
  <2>1. CASE UNCHANGED <<validators, last_update_era>>
    BY <2>1 DEF Registry!LastUpdateIsLatest
  <2>2. ASSUME NEW tx \in in_flight,
               Registry!UpdateValidators(keeper, tx.batch, P_AVG, tx.era)
        PROVE  Registry!LastUpdateIsLatest'
    <3>1. \A v \in DOMAIN validators' : validators'[v].updated_era <= last_update_era'
      BY DEF IInv, RegistryOK
    <3>2. \E v \in DOMAIN validators' : validators'[v].updated_era = last_update_era'
      BY <2>2, UpdateStores
    <3> QED BY <3>1, <3>2 DEF Registry!LastUpdateIsLatest
  <2> QED BY <2>1, <2>2, RegistryMoves
<1> QED BY <1>1, <1>2, KeeperInvariant, PTL DEF Spec

\* Of two batches on their way the older never undoes the newer, nor one of its
\* own era, whichever is executed first and however often it was sent.
THEOREM KeeperNewerWins == Spec => Registry!NewerDataWins
<1> DEFINE A == \A v \in DOMAIN validators :
                  /\ v \in DOMAIN validators'
                  /\ validators'[v] # validators[v] =>
                       validators'[v].updated_era > validators[v].updated_era
<1>1. ASSUME IInv, [Next]_vars PROVE A
  <2>1. CASE UNCHANGED <<validators, last_update_era>>
    BY <2>1
  <2>2. ASSUME NEW tx \in in_flight,
               Registry!UpdateValidators(keeper, tx.batch, P_AVG, tx.era)
        PROVE  A
    <3> DEFINE updated == Registry!PubkeysOf(tx.batch)
    <3>1. /\ DOMAIN validators' = DOMAIN validators \cup updated
          /\ \A v \in updated : validators'[v].updated_era = tx.era
          /\ \A v \in DOMAIN validators \ updated : validators'[v] = validators[v]
          /\ \A v \in DOMAIN validators \cap updated : validators[v].updated_era < tx.era
      BY <1>1, <2>2, UpdateStores
    <3>2. tx.era \in Nat /\ \A v \in DOMAIN validators : validators[v].updated_era \in Nat
      BY <1>1 DEF IInv, InFlightOK, IsTransaction, NetworkOK, RegistryOK
    <3> HIDE DEF updated
    <3> QED BY <3>1, <3>2
  <2> QED BY <1>1, <2>1, <2>2, RegistryMoves
<1>2. IInv /\ [Next]_vars => [A]_Registry!vars
  BY <1>1
<1>3. Spec => [][A]_Registry!vars
  BY <1>2, KeeperInvariant, PTL DEF Spec
<1> QED BY <1>3 DEF Registry!NewerDataWins
=============================================================================
