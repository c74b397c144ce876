# The Stayer protocol in TLA+

Stayer is a liquid staking protocol with a lending market for Casper. Users
stake CSPR for ySCSPR, and borrow the stablecoin cUSD against ySCSPR. Five
contracts (Rust, Odra) keep the books; a keeper service (TypeScript, NestJS)
feeds them with validators' performance and moves the staked CSPR between the
pool and the network's auction; a frontend (Next.js) signs the users' calls.

This directory holds TLA+ modules of the contracts, of the keeper over them and
of the frontend's deposit, TLC configurations that check them on small instances,
and TLAPS proofs of their main properties for all values of the constants. `PROJECT.json` ties every definition to the source
lines it stands for, and lists the runs, the theorems and the hazards.

    tlc -workers 2 -config MCLiquidStaking.cfg MCLiquidStaking
    tlapm KeeperStaking_proofs.tla

## 1. The system

### 1.1 Components, their state and their operations

| Component | Source | State | Operations that change it |
|---|---|---|---|
| ySCSPR, cUSD | `contracts/yscspr`, `contracts/cusd` | balances, allowances, supply (Odra's CEP-18), the set of authorised minters | `mint`, `burn`, `add_authorized`, `remove_authorized`, `transfer`, `transfer_from`, `approve`, `increase_allowance`, `decrease_allowance` |
| LiquidStaking | `contracts/liquid_staking` | each user's stake with each validator, validators' totals, the pool, withdrawal requests, each user's list of pending requests, the queues of pending delegations and undelegations, `total_delegated`, the contract's purse | `stake`, `unstake`, `claim`; keeper: `harvest_rewards`, `withdraw_for_delegation`, `confirm_delegation`, `confirm_undelegation`, `deposit_from_undelegation`; owner: `set_keeper` |
| ValidatorRegistry | `contracts/validator_registry` | per validator fee, activity, decay factor, score, era; the network average; `last_update_era` | `update_validators` (a batch), `set_keeper`; view `is_valid` |
| PriceOracle | `contracts/oracle` | the latest report (price, time, round), `max_age`, fallback price and switch, updaters | `fetch_from_styks`, `update_price`, six setters of the owner; four views |
| StayerVault | `contracts/stayer` | positions (collateral, debt, entry price), two totals | `deposit`, `borrow`, `repay`, `withdraw`, `liquidate` |
| Keeper | `keeper/src` | last processed era (memory), unbonding records (a file), CSPR in its account | four timers: update the registry, harvest, process delegations, process undelegations and deposits |
| Frontend | `frontend/src` | caches of what it read, flows under way | has the users' calls signed; adding collateral is two of them |
| Deployment | `contracts/cli` | none | deploys, and names owner, keeper and minters |

### 1.2 How they interact

- *Calls within a transaction.* LiquidStaking asks the registry for validity,
  score and average in `stake`, and mints and burns ySCSPR. The vault reads the
  oracle's price and the pool's exchange rate in every call that values
  collateral, moves ySCSPR with `transfer_from` and `transfer`, and mints and burns
  cUSD. A transaction that reverts is rolled back in every contract it called.
- *Transactions.* The keeper and the users send theirs separately. They may be
  applied late, in any order, after another's, or fail. The era is an *argument*
  of `stake`'s validity check, `unstake`, `claim`, `harvest_rewards` and
  `update_validators`. The frontend reads it from the network first (its copy is up to
  half a minute old, `useCasper.ts:150-163`) and so does the keeper, but the staking
  contract compares it with nothing of the network's: any call may name any era.
- *Several transactions of one purpose.* The keeper withdraws CSPR from the pool,
  delegates it, and confirms; or undelegates, confirms, records the unbonding in a
  file, and deposits seven eras later. Anything may happen between two of these.

### 1.3 What is hard, and what makes each part correct

- **Tokens.** Holders and spenders change balances and allowances in any order.
  Correct: nothing is created or lost but by a mint or a burn, and a delegated
  transfer uses up exactly its allowance.
- **LiquidStaking.** Four views of one amount of CSPR (a user's stakes, validators'
  totals, the pool, the queues) are updated by nine entry points, with subtractions
  that silently stop at zero (`unwrap_or_default`) and conversions that floor.
  ySCSPR is fungible and the stakes are not: the holder who unstakes need not be
  the one who staked. Correct: the views agree, the defaulting subtractions of stakes,
  pool and pending total never bite (that of `total_delegated` may:
  `confirm_undelegation` may name more than was ever confirmed as delegated), a request
  is paid once and in full, by a claim of its owner that names an era it is unlocked in,
  and neither roundings nor harvests take value from the holders.
- **ValidatorRegistry.** Batches of one era are sent without waiting for each
  other. One mark, `last_update_era`, dates all the data, and `is_valid` subtracts
  u64 eras unchecked. Correct: the mark is the era of the freshest data, newer data
  is never undone, and no wrap makes anybody valid.
- **PriceOracle.** The staleness test is written three times with different guards.
  Correct: what is served is the latest report and no older than `max_age`, or the
  fallback, and the three tests are one test.
- **StayerVault.** Positions are copied, computed upon and written back around token
  calls; floors stack up; the market moves between calls. Correct: totals, tokens
  and positions agree, a call cannot make a healthy position unhealthy, collateral
  leaves only to its owner or in a liquidation, and a liquidation takes no more than
  the debt and its penalty.
- **Keeper, registry.** Updates overlap (a timer, the start, an HTTP call), read the
  era, the bids and the scores at three moments, and send one transaction a batch
  without waiting for any; the mark of the last processed era is in memory.
  Correct: the contract has nothing to object to in a fresh batch, data is never
  stamped with a later era than it was read in, an era marked processed arrives
  unless a transaction was lost, and in a network that stands still the registry
  catches up.
- **Keeper, staking.** Handlers overlap and work through lists read at their start,
  with up to three transactions an entry; confirmations time out although the
  transaction may still be applied; a restart forgets what was in memory; records are
  matched by validator and amount and rewritten in place. Correct: what left a queue
  was done, what is ready for deposit is in the keeper's account, what users are owed
  is somewhere, and no record stays ready for ever.
- **Frontend.** A deposit is an approval, a wait and a deposit; leaving the tab lets a
  second flow start while the first goes on, and both set one allowance; a wallet's
  answer without a hash skips the wait. Correct: whatever the order, the vault takes no
  more from a user than her executed approvals allow, each used once.

Under "hazards" `PROJECT.json` lists what in this code a test would hardly reach,
with the line where it bites and the property that would catch it; those without
a property say why.

## 2. The modules

| Module | Models | Used by |
|---|---|---|
| `StayerToken` | ySCSPR and cUSD, which are one text, over Odra's CEP-18 | `LiquidStaking` (one instance), `StayerVault` (two) |
| `LiquidStaking` | the liquid staking contract, its ySCSPR token, its purse, the network's era | `KeeperStaking`, which extends it |
| `WithdrawalPromise` | no component: what the contract promises to those who unstake, abstractly | `LiquidStaking`, which implements it |
| `ValidatorRegistry` | the registry, the network's era | `KeeperRegistry` |
| `PriceOracle` | the oracle and the clock | `PricedVault` |
| `StayerVault` | the vault with both tokens, and the market (price and rate) | `DepositFlow`, `PricedVault` |
| `PricedVault` | the vault over the oracle: its price is what `GetPrice` answers in each call | |
| `KeeperRegistry` | the keeper's registry updater, over an instance of `ValidatorRegistry`; the auction's bids, transactions on their way | |
| `KeeperStaking` | the keeper's liquid staking worker, unbonding tracker and timers, as an extension of `LiquidStaking` and its users; the auction | |
| `DepositFlow` | the frontend's form and hook for adding collateral, over an instance of `StayerVault`; the wallet and the network | |
| `SumLemmas` | no code: lemmas on sums over finite sets | the proofs |
| `*_proofs` | no code: the theorems of the module they extend; `KeeperStaking_proofs` holds those of `LiquidStaking` in its first part, as the worker's rest on them | |
| `MC*` | instances for TLC | the runs |

**State.** Variables have the names of the contracts' storage fields. A `Mapping` or
`Var` is a function or a value, a mapping that is read through `unwrap_or_default`
a total function with zeros. A `Vec` that the code searches by validator
(`pending_delegations`) is a function from the validators that have an entry; a
user's `Vec` of request ids is a set. Three history variables appear in the contracts:
`requested_at` (the network's era when a request was made), `reports` (what the
oracle was told) and `grants` (what a holder last allowed a spender, and what the
spender has moved since). `received` is what claims have paid into the users' accounts.
The network's era is a variable that moves on its own (`NewEra`).

**Actions.** One action per entry point, with the entry point's name in TLA+ case,
is the call that *succeeds*: its guards are the checks that would revert, its
primed variables everything the call and the calls it makes leave behind. A call
that reverts leaves no trace, so it has no action of its own; the configurations
include arguments that revert (an amount below the minimum, a caller who is not
the updater, a duplicate in a batch), so that dropping a guard shows.

**Asynchronous code.** In the keeper and the frontend an action is what JavaScript runs
between two answers: to the next `await`. A transaction is a record in a set of those
on their way, and its execution is the contract's own action, or a revert where that
action is not enabled. A handler's local variables are a record per handler
(`updates`, `jobs`, `flows`). `Fault` counts what may go wrong against `MaxFaults`:
failed calls, waits that time out, failed saves, restarts.

- `KeeperRegistry`: `BeginUpdate` or `SkipUpdate` reads the era, `GotInputs` the bids and
  scores (with the eras whose request failed left out), each `SendBatch` sends one,
  and the last one marks the era; `UpdateFails` is the `catch`. `Execute` applies a
  transaction through `Registry!UpdateValidators`, at any later time, or it reverts;
  `Expire` loses it.
- `KeeperStaking` extends the contract's module, so that both can be proved about in one
  place: `Spec` is the contract alone, called by anybody, `WorkerSpec` the worker with its
  users (who stake, unstake, claim and trade, naming any of `EraArgs`) and the network over
  it. A handler is a sequence of phases (the timers'
  `handleWithdrawalProcessing` runs two), each a list of entries, each entry a chain of
  transactions (`FirstCall`, `NextCall`) that ends in a record or a mark where the
  tracker has a part (`Recorded`). `Query`, what both queries of the queues make of any
  answer, is the empty list, as in the code. A phase may instead start with one of the
  constant `Lists`, which parsed answers might be, so that the code after the queries is
  met; nothing is assumed of these lists, which may be old or name what no queue
  holds. With no `Lists` the model is the program of today, and the proofs hold for
  any. `GiveUp` covers an exception and a wait that timed
  out: the transaction moves to `late` or is gone. `Restart` keeps the file only, and
  loses it too if it was being written. `Delegate` and `Undelegate` are the auction's,
  which ends an unbonding after `AUCTION_DELAY` eras. `EraEnds` is an era's end: the auction
  adds rewards and releases what is due.
- `DepositFlow`: `Submit` is guarded by the cached balance as it is *shown*, rounded half
  up to a hundredth; `SignApprove` covers wallet results with a hash, and without one,
  when the page goes on at once, whether an approval was sent or not; `ApprovalSeen` is
  the answer the page waits for. The page's transactions fail for any reason
  (`Fails`) or expire.

**Interfaces.** What another contract answers is an input of the action (`p_score` and
`p_avg` of `Stake`, the price of `FetchFromStyks`) or a variable of the environment
that changes in any way between calls (`price` and `exchange_rate` of the vault).
This is weaker than any composition: what holds here holds whatever the registry,
the feed or the pool answer.

**Eras.** `EraArgs` is the set of eras a call of a user may name, any set of u64: the
contract compares them with nothing, so the runs include eras long past and far to come,
and an unlock era wraps at `U64`, as the release build's addition does. The keeper names
an era it has read. In `ValidatorRegistry`, whose batches are the keeper's, a batch names
the network's era or one of the `MaxLag` before it; what `is_valid` answers to an era behind
the last update is `BehindFindsNobody`.

**Numbers.** U256, U512 and u128 amounts are natural numbers: in motes the supply of
CSPR is some sixty bits, and the products the contracts form stay far below 128.
Where the code converts to u64 or subtracts u64 unchecked, the width is the
constant `U64`. Divisions floor, as in the code; `CheckedSub` and `CheckedDiv` are
the code's operations that default to zero.

**"Mutant" definitions.** Beside some definitions stands a second one, marked "Mutant",
that differs from it as a plausible slip in the code would: a total that is not
updated, a subtraction that does not stop, an upper clamp forgotten. No
specification uses them. Each is paired in `PROJECT.json` with a property that TLC
finds violated when it takes the place of the original: a test that the property
can fail at all.

**Left out.** Events, error numbers, views that only return a field, timestamps and eras
that are stored and never read (`opened_at` of a position, the eras of the queues'
entries, those of a user's stake), `paused` of the vault (no entry point sets it),
and the parameters' storage (no entry point changes them; they are constants).

## 3. The runs

| Run | Asks | Bounds |
|---|---|---|
| `token` | do balances, allowances and supply agree under any calls? | three accounts, each holder, spender and recipient; two minters; amounts 0 to 2; supply and allowances at most 2 |
| `staking` | do stakes, totals, pool, requests, queues and ySCSPR agree with two users who trade ySCSPR, and is the promise to those who unstake kept? | 2 users, 1 validator, 2 requests, 2 eras, calls that name 1 or 3, eras of 2 bits, a pool of 40 at a precision of 10 |
| `staking_waiting` | does a request wait for 7 eras of the network? (It need not) | as `staking`, eras 0 to 9 and a delay of 7 |
| `staking_mint_rate` | does minting follow the exchange rate? (It does not) | as `staking`, a pool of 50 |
| `registry` | is the staleness mark true, and does newer data win? | 2 validators, batches of up to 3 (1 over the limit), a lag of 2, 5 eras, u64 of 16 values |
| `oracle` | is what is served fresh or the fallback, and do the staleness tests agree? | 3 reports, a clock of 4, ages 0 to 2, prices on and beyond both bounds |
| `vault` | do totals, tokens and positions agree with two users who borrow, trade and liquidate, and are all roundings on the right side? | 2 users, 2 ySCSPR each, 3 cUSD, prices and rates that divide badly, 0 among them, a small u64 |
| `vault_min_ratio` | does a withdrawal leave 110%? (It does not) | 2 users, up to 4 of each token |
| `stale_halt` | does the vault halt while the price is stale? (It does not) | 1 user, a clock of 3, a `max_age` of 1 |
| `keeper_registry` | what do overlapping updates, lost and late batches and a restart make of the registry? | 2 updates at once, 3 validators in batches of 1, 2 eras, 2 transactions on their way, 1 fault |
| `keeper_staking` | do queues, records, the keeper's account and the auction agree, and do the deposits come to an end? | 2 handlers at once, 1 user, 1 validator, stakes of 20 up to 40, 2 eras, 1 fault |
| `deposit_flow` | does the vault take no more than was approved? | 2 users, 3 flows at once, amounts 0 to 4 of a balance of 3 shown in units of 2 |

*Why the bounds are enough.* Every action of every module fires in a passing run
(`PricedVault` has the actions of its two parts, and one run, which finds a counterexample), and
each bound was chosen to reach the case a property is about:

- `token` needs a third account: a spender that moves a holder's tokens to somebody
  else, and two spenders of one holder.
- `staking` stakes one below the minimum, the minimum, and one above the
  maximum, with scores whose multiplier is the least (0.5) and beyond the greatest
  (2.5, clamped to 1.5). 20 CSPR staked at 1.5 mint 30 ySCSPR, at a rate that floors to
  0.6, at which 3 ySCSPR return 1 CSPR: both divisions of an unstake floor, and the
  remainder stays with the pool. An unstake may take a tenth of the pool, so 3 ySCSPR
  are refused at some rates and paid at others. A claim of several requests, or of one
  of several, needs two of them; ySCSPR bought without a stake behind it needs
  two users. An amount of 25 more than covers an entry of 20 and covers one of 40 in
  part, and as a report may be more or less than is staked and pending. The eras named are
  the first, and one that the network never reaches and at which an unlock era wraps to
  zero.
- `registry` needs an era that lags (batches out of order), one that repeats (a
  batch sent twice), and a width at which `0 - 1` is not within `STALE_DATA_ERAS`.
- `oracle` lets a report age beyond each of the two ages while the owner changes
  the age and the fallback under it.
- `vault` needs two users, since cUSD is repaid by another than the borrower, amounts of
  one and two for partial repayments, and a price that falls, with prices and rates that
  divide badly and zeros.
- `keeper_registry` has the fewest batches that can be reordered within an update and
  across two, a third validator so that the limit of two cuts one off (and decides by
  decay factor which), bid tables that differ between eras so that a stamp can be wrong,
  validators with no score in an era that has scores of others, and one fault, which may be
  any of a failed call, a lost transaction or a restart.
- `keeper_staking` gives one handler the delegations or the harvest and the other the
  delegations or the undelegations with the deposits, so that two handlers of the same
  entries overlap for delegations; two overlapping handlers of withdrawals are left out
  for the size of the state space. The lists are one stake to delegate, which the queue may
  or may not hold, and to undelegate more than anybody asks back. The auction's minimum is
  one stake. (A delegation below it reverts, as one that was given up does.) With a fault at
  every step the run has the late delegation that is executed after its entry was
  withdrawn again.
- `deposit_flow` needs a second user for a wrong allowance to be used, and flows enough for a
  deposit that uses another flow's approval while that flow's own deposit is still to come.

Scaling down basis points and motes to 10 keeps the fractions (a fee of a tenth,
an LTV of a half, a threshold of 11/10) and makes floors bite at small amounts,
where at full scale they would bite in the last mote. What depends on exact sizes
is proved, for every value of the constants.

Bounds in the guards, all of them in `Next` and none in an action: `MaxSupply`,
`MaxRequests`, `MaxPool`, `MaxEra`, `MaxTime`, `MaxRound`, `MaxDebt`, `MaxBatch`. The proofs
hold for all their values, and use only one of them: the registry's eras must stay
within their width.

*Deadlock* is checked everywhere; no run may stop. *Symmetry* is of the users, who
are interchangeable (for the registry of
validators, for the deposits of flows), and only in runs of safety.

*Fairness.* What the contracts promise is safety: none of their entry points is called by
itself, and their specifications state no fairness. The keeper's do.

- `KeeperRegistry` assumes weak fairness of beginning an update (`setInterval` in
  `scheduler.service.ts:20-33` goes on for ever), of the steps of those under way (each
  awaits a call that answers or throws) and of the execution of what was sent and has not
  expired. Nothing is assumed of eras or faults, of which
  there are finitely many by `MaxEra` and `MaxFaults`: `CatchesUp` is about a network after
  its last era and fault.
- `KeeperStaking` assumes weak fairness of each handler's steps, and *strong* fairness of
  the start of each kind of handler. The code's timers start a handler whether or not
  others run; the model has `Jobs` of them at most, so a kind may find a free one only
  again and again. Strong fairness says what the code does without that bound.

`CatchesUp` excuses an era of which a transaction was lost, since nothing sends it again:
the mark stays. `ReadyIsDeposited` is about the records the tracker has; that a queue's
entry comes to be one is not so (section 4).

## 4. What the runs found

Four places where the documents say something else than the code does.

- **Minting ignores the exchange rate** (`staking_mint_rate`). `stake` mints
  `amount * multiplier / 10000` and does not read the rate
  (`liquid_staking.rs:150`). The whitepaper says "the amount of ySCSPR minted is
  determined by both the performance multiplier and the current exchange rate R",
  dividing by R, so that "users entering the pool at different times or with
  different validators are treated fairly" (`src/docs/Stayer Whitepaper.tex`,
  107-111). After a stake at a low multiplier, or a harvest, the rate is above
  one, and a new stake mints ySCSPR worth more than the CSPR staked even at the highest
  multiplier: value the earlier holders lose. `RateFallsOnlyByMint` shows that this is the only way the
  rate falls, `RateFloor` how far.
- **110% is not the minimal collateral ratio** (`vault_min_ratio`). The health factor
  *multiplies* the collateral by the threshold of 11000 (`stayer.rs:463`), so a
  position is healthy down to collateral worth 10000/11000 = 90.9% of the debt, and
  `withdraw` stops only there. `contracts/README.md:76` lists "Liquidation Threshold |
  110% | Min collateral ratio". Everything the vault properties say of healthy
  positions is about healthy in the code's sense.

- **The waiting period is the calls'** (`staking_waiting`). `contracts/README.md:60` has a
  "7 era waiting period (~14 hours)" between the request to unstake and the claim.
  `unstake` adds `UNBONDING_DELAY` to the `current_era` of its call
  (`liquid_staking.rs:238`), `claim` compares the sum with the `current_era` of its own
  (299), and neither is compared with an era of the network. The delay is one between two
  arguments: a request is claimed in an era of the network before its seventh. `PromiseKept`
  therefore promises payment by the eras named and no waiting time.
- **A stale price does not halt the vault** (`stale_halt`). The whitepaper's "Price
  Staleness Lock" says that past the staleness threshold "the protocol automatically halts
  all borrowing and liquidation operations" (`src/docs/Stayer Whitepaper.tex`, 235).
  `get_price` then answers with the fallback price instead (`oracle.rs:103-107`), whatever
  its age, and the vault asks nothing else (`stayer.rs:389-393`): it lends and liquidates by
  that price. `FreshOrFallback` says what is served; it is no freshness of the price the
  vault uses.

Read while modelling; each is in the models as the code has it.

- *The fee of a harvest is counted again.* `harvest_rewards` adds the rewards less the
  protocol's fee to the pool and keeps no account of the fee (`liquid_staking.rs:341-357`).
  The next report still has that CSPR, so it exceeds what is expected by the fee, which is
  taken for a reward, less a fee again. `Solvent` is not disturbed, since the CSPR is
  there; the fee becomes the holders' by and by.
- *In the fallback mode the views part.* `get_latest_price_data` then reports round 0,
  updated now (`oracle.rs:115-120`), while `get_price_age` gives the age of the last report.
  `ViewsAgree` is of the staleness tests, and outside that mode.
- *A batch is refused whole.* `update_validators` reverts for one validator that has
  data of the era already. An era sent again after a restart, or after an update that failed
  between two batches, may be cut into other batches, of which those with a validator of an
  earlier one leave the others in them without data of the era. `CatchesUp` and
  `MarkedEraArrives` ask for one batch.

- *The queries of the queues are not finished.* `queryPendingDelegations` and
  `queryPendingUndelegations` return `[]` whatever the answer holds; a TODO says so
  (`liquid-staking.service.ts:160-205`, 337-381). The comments over `processDelegations`
  (97-102) and `processUndelegations` (273-280) describe the loops as if they did. So
  today nothing in the queues is ever delegated or undelegated by this worker, and what is
  proved of its handling of entries is of code that waits for that parsing.
- *A deposit carries no CSPR.* `depositFromUnbonding` sends
  `deposit_from_undelegation` without attached value (495-524), although its comment says
  it deposits "CSPR back to contract" (439). The contract's entry point counts nothing
  either. So the unbonded CSPR stays in the keeper's account, nothing refills the purse
  that claims are paid from, and that claims are paid in the end is no property of the
  system. `Solvent` counts the account.
- *An entry may be withdrawn again.* `withdraw_for_delegation` leaves the entry, so that
  a delegation that failed can be retried, but the CSPR of the first attempt stays with the
  keeper, and an entry below the auction's minimum (500 CSPR; the contract's
  minimal stake is 100) is withdrawn on every run while the purse lasts.
- *Unbonding may go unrecorded.* Between `confirm_undelegation` and `addUnbonding` lies one
  more query of the era (429); if it fails, or the process ends there, nobody
  deposits that CSPR.
- *Zero means the default.* `maxValidatorsUpdateEachEra` is read with `|| 150`
  (`validator-registry.service.ts:41`), so the 0 that means "no limit" further down cannot
  be configured. `p_avg` is always reported as 80.
- *A flow without a hash does not wait.* If the wallet returns a result and no hash,
  `useDepositWithApproval` skips the wait (`useStayerVault.ts:163`), which the comment
  above it announces without condition ("Wait for approve to complete", 162), and asks for
  the deposit. That deposit may fail, or use the allowance of another flow of the same
  user; `CollateralIsApproved` is what still holds.
- *The stability fee is not charged.* The whitepaper charges 2% APR on the debt (158);
  the vault stores the parameter (`stayer.rs:61`) and no entry point reads it.
- *Not modelled:* `UnstakeForm` shows a balance of zero and so never submits an unstake;
  `useGetExchangeRate` returns `total_staked` undivided; `BorrowForm` computes a maximum
  that its validation ignores; toasts report success once a transaction is sent.

## 5. What is proved

For every value of the constants that satisfies the module's named `ASSUME`: finite
sets of users and validators, natural parameters, positive denominators, and for
the vault `DEFAULT_LTV <= DEFAULT_LIQ_THRESHOLD`, which is all `HealthKept` needs
of the parameters' order. Two more assumptions relate constants: the registry's eras stay
within their width (`MaxEra + STALE_DATA_ERAS < U64`), and for the keeper
`AUCTION_DELAY <= UNBONDING_PERIOD`: the tracker's 7 eras (`unbonding-tracker.ts:75`)
are the network's 7, and a tracker that waited less would take as ready what the auction
still holds. TLC evaluates these assumptions in every run.

| Module | Theorem | Property |
|---|---|---|
| `StayerToken_proofs` | `TokenTypes`, `TokenConservation` | `TypeOK`, `SupplyIsSum` |
| | `TokenSpending` | `SpendingIsAllowed` |
| `KeeperStaking_proofs`, the contract | `StakingTypes` | `TypeOK` |
| | `ValidatorStakesAccounted`, `StakesAccounted` | `ValidatorTotals`, `PrincipalCovered` |
| | `PendingAccounted`, `RequestsAccounted` | `PendingIsSum`, `PendingListed` |
| | `RateHasFloor` | `RateFloor` |
| | `RateKept` | `RateFallsOnlyByMint` |
| | `RequestsFinal` | `RequestsAreFinal` |
| | `QueuesFollow`, `ConfirmedCounted` | `QueuesFollowPrincipal`, `ConfirmedIsDelegated` |
| | `PromiseIsKept` | `PromiseKept` |
| `KeeperStaking_proofs`, the worker | `HonestQueues`, `ReadyInAccount`, `PoolIsSolvent` | `QueuesAreHonest`, `ReadyIsInAccount`, `Solvent` |
| | `BooksUnderWorker`, `WorkerKeepsPromise` | the contract's invariant and `PromiseKept`, of `WorkerSpec` |
| `ValidatorRegistry_proofs` | `RegistryTypes` | `TypeOK` |
| | `LastUpdate`, `NobodyBehind`, `NewerWins` | `LastUpdateIsLatest`, `BehindFindsNobody`, `NewerDataWins` |
| `PriceOracle_proofs` | `OracleTypes` | `TypeOK` |
| | `FreshPrice`, `StalenessTestsAgree` | `FreshOrFallback`, `ViewsAgree` |
| `StayerVault_proofs` | `VaultTypes`, `VaultTotals`, `VaultAccounted`, `CollateralThere` | `TypeOK`, `TotalsAreSums`, `CUSDIsDebt`, `CollateralHeld` |
| | `HealthKept`, `SeizureBounded`, `CollateralSafe`, `EntryPriceAverages` | `HealthyStaysHealthy`, `SeizureIsBounded`, `CollateralIsSafe`, `EntryPriceIsAverage` |
| `KeeperRegistry_proofs` | `KeeperBatchesAcceptable`, `KeeperStampsHonest`, `KeeperMarksArrive` | `BatchesAreAcceptable`, `StampIsHonest`, `MarkedEraArrives` |
| | `KeeperKeepsLatest`, `KeeperNewerWins` | the registry's `LastUpdateIsLatest` and `NewerDataWins`, under its keeper |
| `DepositFlow_proofs` | `DepositsApproved` | `CollateralIsApproved` |

**Sums.** The books are sums over finite sets, which the community modules define by a
fold. The library's induction theorems take an operator as a parameter, which the
provers cannot instantiate, so `SumLemmas` does its inductions as a least-counterexample
argument over a set of numbers (`SetInd`), shows that the fold's recursive function
exists, and derives what the other proofs need: the sum of an empty
set is zero, of a set with one more element is one term more, changing a function at
one point changes its sum by the difference, a transfer between two points changes
nothing, and sums are natural and monotone; for the worker, that the sum over a sequence
with one element more, less or changed is what one expects, and that a sum over some of
a set's elements is part of that over all.

**The token.** `TypeOK`, the sum of the balances, `SpendingIsAllowed` and that nobody has an
allowance with himself are inductive together; each raw operation of CEP-18 is one use of a
lemma on sums. `TokenSpending` needs the last part: what a delegated transfer takes is then
counted against a pair of two accounts, and no other pair's holder loses anything to this
caller.

**Liquid staking.** The invariant `IInv` is `TypeOK`, `ValidatorTotals`,
`PrincipalCovered`, `PendingIsSum`, `PendingListed` and `SupplyIsSum` together, because the parts need each other. `TypeOK`
needs `SupplyIsSum`: a burn checks the holder's balance and not the supply, which only
as a sum of balances is at least as much. `ValidatorTotals` and `PendingIsSum` are what
makes the subtractions that default to zero subtract what they say: a user's stake is
checked, a validator's total is not, and covers it only as the sum it is a term of;
a claim checks the purse, and the pending total covers what is claimed only as
the sum of the pending requests. `PrincipalCovered` needs the cap of an unstake, which
keeps the pool's own subtraction exact. The proof splits the invariant by the state it reads (`StakeBooks`, `RequestBooks`, `QueueBooks`,
`TokenBooks`, `AdminBooks`), so that each action has a step only for the books it
touches.

*The rate.* `PoolStep` says what any step does to the pool and to ySCSPR: nothing but
growth of the pool, a stake that mints at most the highest multiplier, or an unstake
that pays at most its tokens' worth at the rate before. `RateFloor` is kept by all
three because its own inequality makes the payment of an unstake smaller than the
floor it releases (`ShareFloor`); `RateKept` follows as the floored payment is at most
the tokens' share of the pool, so the rest is worth at least as much for the rest of
the tokens.

*The queues.* `StakeQueues` and `UnstakeQueues` are what the two calls add to the queues'
sums and to the principal, `ConfirmPendingSum` what a confirmation takes off: no
more than it confirms, less where it confirms more than the entry. `QueuesFollow` and
`ConfirmedCounted` are those facts in each action's terms.

*Requests.* Only `Unstake` adds one, with an id nobody has, and only `Claim` changes one
(`RequestStep`).

*The promise.* `WithdrawalPromise` has four variables, the requests (each its user, its amount
and its unlock era), those paid, the purse and what each user was paid, and three steps: a user
asks; a claim pays its caller *all* that is unlocked in the era it names and not yet paid, in
full, and marks exactly that as paid; and the purse moves, which pays nobody. `received` ties
the money to the marks: a second payment, a payment without a mark, or a mark without the
payment is none of these steps. `Promise` maps the contract's state to it (`Promised`,
`PaidIds`). `PromiseIsKept` is that every step of the contract is one of these: an
unstake asks (`UnstakeAsks`), a claim pays (`ClaimPays`, where `PendingListed` says that what
it finds in the caller's list is all that is the caller's and unpaid, and `ClaimMarksDue` that
of it just what is due changes its status), and every other call leaves the requests and the
users' accounts alone. (`RequestStep` shows this of the contract alone,
`WorkerMoves` of the worker; `PromiseStep` needs no more, and serves for both.) The era is
the call's to name, so no waiting time is promised; and *when* a due request is paid is not
promised either: see section 4 for why it may be never.

**The registry.** `LastUpdateIsLatest` is inductive with the types and with
`last_update_era <= network_era`; `BehindFindsNobody` then follows from the width: an era
behind the last update wraps to at least `U64 - MaxEra`, beyond `STALE_DATA_ERAS`. This
is where `MaxEra + STALE_DATA_ERAS < U64` is assumed, true of 2^64 for ages.

**The oracle.** The invariant adds to the types that the latest price data is a report, or
the initial price at time zero, and not of the future.

**The vault.** `IInv` is `TypeOK`, `TotalsAreSums`, `CUSDIsDebt` and `CollateralHeld`, again
needed together: that a total is at least what is taken off it is known because it is
the sum of the positions, and that the cUSD supply covers a burn because it is the
sum of what is held. `CallEffect` describes each of the five calls by what it does to
one user's position and leaves of the others; the four action properties follow from it.
`HealthKept` is arithmetic: what may be borrowed is at most LTV of the value, and with
LTV at most the threshold the floored health factor of that is at least one.
`SeizureBounded` follows the amount through the three floors of the conversion and
back through the two of the valuation.

**The registry's keeper.** For any number of updates at once, validators and faults. The
invariant adds to the three properties what ties an update under way to the network: the
data it has still to send was the auction's in an era no earlier than the one it will be
stamped with (`UpdatesOK`), the same of each transaction on its way (`InFlightOK`), and
that its batches name nobody twice. The last needs that the sort by decay factor is a
permutation: the model places each bid by the number of those before it, and the proof
shows by the pigeonhole principle that every place is taken, and once. `MarkedEraArrives` is inductive because
a mark is set in the very step that sends the last batch, so that a transaction of the
era is on its way then; it leaves by being executed, whereupon the registry has that era
or had a later one, or by expiring, which `lost` remembers.

`KeeperKeepsLatest` and `KeeperNewerWins` carry the registry's own two properties over to the
keeper's behaviours: whatever the keeper does, the registry makes a step of its own or none
(`RegistryMoves`).

**The staking worker.** For any number of overlapping handlers, users, validators, faults and
transactions that are executed late. `WorkerInv` is the contract's invariant, the types of
the worker's state and three inequalities between sums, of which each property is what
remains when the transactions under way are left out:

- `Honest`: what has left a queue, *and what confirmations may still take off it*, whether a
  handler waits for them or nobody does, has been delegated or undelegated. Without the
  second part nothing is known of the next confirmation. Handlers keep it because a
  confirmation is sent only when the transaction before succeeded, which counts the
  amount as `executed` in the step in which it becomes one that may be confirmed.
- `Backed`: for every era from now on, what the records say is complete by it, and what the
  handlers have confirmed and still will record, is at most what the account holds, less all
  the delegations that may still be paid from it, with what the auction releases by then.
  `ReadyIsInAccount` is this of the present era; it says nothing of the
  records that become ready in the next, hence all eras. It must hold of the file as
  well, since a restart may bring that one back, with deposited records ready again, and
  it counts a delegation under way against the account, since it takes CSPR that was withdrawn
  for it and is not to be found there by a deposit. That the records made later than the
  undelegation are complete no sooner than the CSPR is released is where
  `AUCTION_DELAY <= UNBONDING_PERIOD` is used.
- `Earned`: a total that a harvest may still report is at most what there is outside the
  purse (`Wealth`), and the purse and that cover what is owed. A harvest sets the pool to
  what the handler computed eras before; the inequality is kept as wealth only grows
  meanwhile, by rewards and withdrawals from the purse, and only changes its place when CSPR is
  delegated, undelegated or released.

`Executed` is the step lemma of every transaction, whoever sent it: what it adds and takes off
each of these sums, with the transaction itself off those outstanding. `Handled` is that of the
steps that change handlers, records and the transactions left behind but neither contract nor
auction: an entry finished or given up, a restart. `UserCallStep` and `EraEndsStep` are the
users' and the network's. Records are matched by validator and amount and rewritten in
place, so their sum needs that marking one as deposited or dropping old ones never adds
(`RecordMarked`, `RecordsCleaned`), and an appended one adds its own amount (`RecordAppended`).
`WorkerKeepsPromise` then has the contract's promise in the worker's presence: no call of the
keeper's touches a request, and the purse a claim is paid from is the one the keeper
withdraws from.

**The deposit flow.** For any number of flows and users. The invariant ties each approval
to one execution: a flow's approval is sent once, and is executed once, as it is on its way
only while it has no result (`ResultsOK`). The sum of the executed approvals of a user then
grows by the flow's amount in the very step that sets the allowance to it (`ApproveStep`), which
is the only step that raises the allowance; a deposit moves from the allowance to the
collateral what it takes (`DepositStep`), and the page's own steps touch neither (`PageStep`).

**Only model-checked.** `CatchesUp` and `ReadyIsDeposited`, which are liveness, and the four
runs that find a violation. Every invariant and every other temporal property of the passing
runs is proved. Out of the prover's reach, and so for TLC alone: liveness under fairness and
ENABLED, and what RECURSIVE operators compute. No module here declares one; the sums are
folds, which the library defines by a recursive function.

## 6. What is not modelled, and the plan

Not modelled for good:

- the deployment script (straight-line, its outcome is in `Init`);
- of the frontend: rendering, themes and serialisation; the queries, which matter to the
  contracts by the age of what they return and no further (a cached balance is checked by
  the contract again, and a call may name any era anyway); the hooks that send a
  single transaction, whose guards are the contracts';
- of the keeper: keys and the building of transactions; reading the environment; the
  functions of the old delegation service behind its two queries, which read contract
  state that no longer exists and so find nothing (its timer call is in `LegacyFinds`).

Planned, in this order:

1. An abstract specification of the vault (a position is worth its debt, or is liquidated),
   and the vault's proof that it implements it.
2. `Protocol`: `PricedVault` and the pool over one ySCSPR, where a stake at a high multiplier
   lowers the rate the vault values collateral at, in one step and for everyone.
