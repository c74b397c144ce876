--------------------------- MODULE KeeperStaking ---------------------------
(***************************************************************************)
(* src/keeper: the worker that moves CSPR between the liquid staking       *)
(* contract, its own account and the network's auction, over that contract *)
(* and its users.  Timers and HTTP calls start handlers whether or not     *)
(* earlier ones still run; each works through lists it read at its start,  *)
(* with up to three transactions an entry, and waits for each.             *)
(*                                                                         *)
(* JavaScript runs a callback to its next await: an action is what runs    *)
(* between two answers of the network.  A transaction whose outcome the    *)
(* keeper has not seen in time, or that it left behind in a crash, may be  *)
(* executed later or never.  A transaction that reverts changes nothing.   *)
(*                                                                         *)
(* As the code stands the two queries of the contract's queues return no   *)
(* entry (Query), whatever the answer: parsing it is left to do.  So that  *)
(* what a handler does with an entry is met, a phase may also start with   *)
(* any of its Lists, which parsed answers might be: nothing is assumed of  *)
(* them, they may be old or name what the queue never held.  Where Lists   *)
(* has none the model is the program of today.  The older delegation       *)
(* service, which the timer calls after the delegations, finds no entry    *)
(* either (LegacyFinds), so it sends one call of a view.                   *)
(***************************************************************************)
EXTENDS LiquidStaking, SequencesExt

CONSTANTS
  \* the keeper's
  Jobs,               \* handlers that may run at once
  Handlers,           \* the phases of the handlers each of them may be
  Lists,              \* what the query of each queue might return if parsed
  UNBONDING_PERIOD,   \* eras the tracker waits
  KEEP_ERAS,          \* eras a deposited record is kept
  \* the network's
  AUCTION_DELAY,      \* eras the auction keeps what is undelegated
  MIN_DELEGATION,
  OTHERS_DELEGATION,  \* what others have delegated to the same validators
  Rewards,            \* what an era may add to a delegation
  MaxFaults           \* bound on timeouts, failed calls and saves, crashes

VARIABLES
  jobs,               \* the handlers at work
  records, file,      \* the tracker's records, in memory and as saved
  keeper_funds,       \* CSPR of the pool's that is in the keeper's account
  delegated,          \* what the keeper has delegated to each validator
  unbonding,          \* what the auction releases in each era
  late,               \* transactions nobody waits for
  executed,           \* history: CSPR that was delegated, undelegated
  faults              \* how many faults there were

stakingVars == vars
auctionVars == <<keeper_funds, delegated, unbonding, executed>>
trackerVars == <<records, file>>
workerVars == <<stakingVars, auctionVars, trackerVars, jobs, late, faults>>

Eras == 1..(MaxEra + AUCTION_DELAY)
Phases == {"delegations", "undelegations", "deposits", "harvest"}

\* The tracker waits as long as the auction does, or longer.
ASSUME KeeperAssumption ==
  /\ IsFiniteSet(Jobs)
  /\ Handlers \in [Jobs -> SUBSET (Seq(Phases) \ {<<>>})]
  /\ DOMAIN Lists = {"delegations", "undelegations"}
  /\ \A queue \in DOMAIN Lists : \A list \in Lists[queue] :
       list \in Seq([v : Validators, amount : Nat]) /\ list # <<>>
  /\ AUCTION_DELAY \in Nat \ {0} /\ MaxEra \in Nat \ {0}
  /\ UNBONDING_PERIOD \in Nat /\ AUCTION_DELAY <= UNBONDING_PERIOD
  /\ KEEP_ERAS \in Nat /\ MIN_DELEGATION \in Nat /\ OTHERS_DELEGATION \in Nat
  /\ Rewards \subseteq Nat /\ MaxFaults \in Nat

\* A handler: the phases and entries it has still to go through, and the
\* transaction it waits for, if any, and whether that has been executed.
NoTx == [call |-> "none"]
Idle == [phases |-> <<>>, left |-> <<>>, tx |-> NoTx, executed |-> FALSE]
IsWaiting(job) == job.tx # NoTx /\ ~job.executed

WorkerInit ==
  /\ Init
  /\ jobs = [j \in Jobs |-> Idle]
  /\ records = <<>>
  /\ file = <<>>
  /\ keeper_funds = 0
  /\ delegated = [v \in Validators |-> 0]
  /\ unbonding = [e \in Eras |-> 0]
  /\ late = <<>>
  /\ executed = [delegate |-> 0, undelegate |-> 0]
  /\ faults = 0

Fault == faults < MaxFaults /\ faults' = faults + 1

-----------------------------------------------------------------------------
(***************************************************************************)
(* The unbonding tracker.                                                  *)
(***************************************************************************)
\* Mutant: the record counts as complete from the start.
NewRecordReady(v, amount, era) ==
  [validator |-> v, amount |-> amount, startEra |-> era, completeEra |-> era, deposited |-> FALSE]

NewRecord(v, amount, era) ==
  [validator |-> v, amount |-> amount, startEra |-> era,
   completeEra |-> era + UNBONDING_PERIOD, deposited |-> FALSE]

IsReady(record) == ~record.deposited /\ record.completeEra <= network_era

\* What is at the positions of a set, in their order.
Filtered(recs, positions) ==
  [n \in 1..Cardinality(positions) |->
     recs[CHOOSE p \in positions : Cardinality({q \in positions : q <= p}) = n]]

GetReadyUnbondings == Filtered(records, {i \in DOMAIN records : IsReady(records[i])})

\* The first such record, which with two handlers need not be the one that
\* was deposited.
MarkAsDeposited(recs, v, amount) ==
  LET same == {i \in DOMAIN recs : /\ recs[i].validator = v
                                   /\ recs[i].amount = amount
                                   /\ ~recs[i].deposited}
      first == CHOOSE i \in same : \A k \in same : i <= k
  IN  IF same = {} THEN recs ELSE [recs EXCEPT ![first].deposited = TRUE]

\* createdAt is the era the record was made in.
CleanupOldRecords(recs) ==
  Filtered(recs, {i \in DOMAIN recs : \/ ~recs[i].deposited
                                     \/ recs[i].startEra + KEEP_ERAS > network_era})

-----------------------------------------------------------------------------
(***************************************************************************)
(* What a handler reads.                                                   *)
(***************************************************************************)
\* Mutant: the delegations of others are counted too.
TotalDelegationOfAll == SumFunction(delegated) + OTHERS_DELEGATION

TotalDelegation == SumFunction(delegated)

\* What both queries make of any answer, and of none.
Query == <<>>

LegacyFinds == <<>>

\* The era is asked for before the total is, and may have ended in between.
Harvests(total) ==
  {<<[amount |-> total, era |-> e]>> : e \in {network_era - 1, network_era} \ {0}}

\* The lists a phase may start with.
Entries(phase) ==
  CASE phase = "delegations"   -> {entries \o LegacyFinds : entries \in {Query} \cup Lists[phase]}
    [] phase = "undelegations" -> {Query} \cup Lists[phase]
    [] phase = "deposits"      ->
         {[i \in DOMAIN GetReadyUnbondings |->
             [v |-> GetReadyUnbondings[i].validator, amount |-> GetReadyUnbondings[i].amount]]}
    [] phase = "harvest"       -> Harvests(TotalDelegation)

-----------------------------------------------------------------------------
(***************************************************************************)
(* The steps of a handler.                                                 *)
(***************************************************************************)
FirstCall == [delegations |-> "withdraw_for_delegation", undelegations |-> "undelegate",
              deposits |-> "deposit_from_undelegation", harvest |-> "harvest_rewards"]
NextCall  == [withdraw_for_delegation |-> "delegate", delegate |-> "confirm_delegation",
              undelegate |-> "confirm_undelegation"]
\* After these the handler tells the tracker.
Recorded  == {"confirm_undelegation", "deposit_from_undelegation"}

\* Mutant: a phase that finds nothing ends the handler.
WorkingUntilNothing(phases, entries) ==
  IF entries = <<>> THEN Idle
  ELSE [phases |-> phases, left |-> Tail(entries), executed |-> FALSE,
        tx |-> [call |-> FirstCall[Head(phases)], entry |-> Head(entries)]]

\* Send the first transaction of the next entry of the list, or be done with it.
Working(phases, entries) ==
  IF entries = <<>>
  THEN [Idle EXCEPT !.phases = IF phases = <<>> THEN <<>> ELSE Tail(phases)]
  ELSE [phases |-> phases, left |-> Tail(entries), executed |-> FALSE,
        tx |-> [call |-> FirstCall[Head(phases)], entry |-> Head(entries)]]

\* What a phase starts with when its call fails: a total of zero.  A query of a
\* queue that fails gives what it gives anyway.
EntriesOfFailure(phase) == IF phase = "harvest" THEN Harvests(0) ELSE {}

BeginPhase(j, phases) ==
  /\ \/ /\ \E entries \in Entries(Head(phases)) :
            jobs' = [jobs EXCEPT ![j] = Working(phases, entries)]
        /\ UNCHANGED faults
     \/ /\ Fault
        /\ \E entries \in EntriesOfFailure(Head(phases)) :
             jobs' = [jobs EXCEPT ![j] = Working(phases, entries)]
  /\ UNCHANGED <<stakingVars, auctionVars, trackerVars, late>>

\* A timer or an HTTP call starts a handler.
StartHandler(j, phases) ==
  jobs[j] = Idle /\ phases \in Handlers[j] /\ BeginPhase(j, phases)

NextPhase(j) ==
  /\ jobs[j].tx = NoTx
  /\ jobs[j].phases # <<>>
  /\ BeginPhase(j, jobs[j].phases)

\* Go on with the next entry.
NextEntry(job) == Working(job.phases, job.left)

\* The records when a handler has done with an entry.
Cleaned(j, recs) ==
  IF jobs[j].tx.call = "deposit_from_undelegation" /\ jobs[j].left = <<>>
  THEN CleanupOldRecords(recs) ELSE recs

\* A failed save is logged and forgotten.
SaveRecords(recs) ==
  /\ records' = recs
  /\ \/ file' = recs /\ UNCHANGED faults
     \/ recs # records /\ UNCHANGED file /\ Fault

\* An undelegation is recorded with the era of this moment, a deposit is marked.
\* (The era is one more answer of the network; a record made with an older one
\* is still complete no sooner than the auction releases the CSPR.)
FinishEntry(j) ==
  LET tx == jobs[j].tx
  IN /\ jobs[j].executed
     /\ SaveRecords(Cleaned(j,
          IF tx.call = "confirm_undelegation"
          THEN Append(records, NewRecord(tx.entry.v, tx.entry.amount, network_era))
          ELSE MarkAsDeposited(records, tx.entry.v, tx.entry.amount)))
     /\ jobs' = [jobs EXCEPT ![j] = NextEntry(@)]
     /\ UNCHANGED <<stakingVars, auctionVars, late>>

Unexecuted(job) == IF IsWaiting(job) THEN <<job.tx>> ELSE <<>>

\* A call throws, the node took the transaction or not; or the wait for the
\* transaction times out, executed or not.  The entry is given up.
GiveUp(j) ==
  /\ jobs[j].tx # NoTx
  /\ Fault
  /\ late' \in {late, late \o Unexecuted(jobs[j])}
  /\ records' = Cleaned(j, records)
  /\ file' = IF records' = records THEN file ELSE records'
  /\ jobs' = [jobs EXCEPT ![j] = NextEntry(@)]
  /\ UNCHANGED <<stakingVars, auctionVars>>

\* The process starts again and loads the file.  If it was saving, the file may
\* be cut short, and loads as no records.
Restart ==
  LET saving == \E j \in Jobs : jobs[j].executed
  IN /\ Fault
     /\ jobs' = [j \in Jobs |-> Idle]
     /\ \E sent \in SUBSET {j \in Jobs : IsWaiting(jobs[j])} :
          LET order == SetToSeq(sent)
          IN  late' = late \o [i \in DOMAIN order |-> jobs[order[i]].tx]
     /\ file' \in {file} \cup (IF saving THEN {<<>>} ELSE {})
     /\ records' = file'
     /\ UNCHANGED <<stakingVars, auctionVars>>

-----------------------------------------------------------------------------
(***************************************************************************)
(* What a transaction does.                                                *)
(***************************************************************************)
ContractCall(tx) ==
  /\ \/ /\ tx.call = "withdraw_for_delegation"
        /\ WithdrawForDelegation(keeper, tx.entry.v, tx.entry.amount)
        /\ keeper_funds' = keeper_funds + tx.entry.amount
     \/ /\ tx.call = "confirm_delegation"
        /\ ConfirmDelegation(keeper, tx.entry.v, tx.entry.amount)
        /\ UNCHANGED keeper_funds
     \/ /\ tx.call = "confirm_undelegation"
        /\ ConfirmUndelegation(keeper, tx.entry.v, tx.entry.amount)
        /\ UNCHANGED keeper_funds
     \/ /\ tx.call = "deposit_from_undelegation"   \* no CSPR is attached
        /\ DepositFromUndelegation(keeper, 0)
        /\ UNCHANGED keeper_funds
     \/ /\ tx.call = "harvest_rewards"
        /\ HarvestRewards(keeper, tx.entry.amount, tx.entry.era)
        /\ UNCHANGED keeper_funds
  /\ UNCHANGED <<delegated, unbonding, executed>>

\* The account pays, be it with the keeper's own CSPR.
Delegate(tx) ==
  /\ tx.call = "delegate"
  /\ tx.entry.amount >= MIN_DELEGATION
  /\ delegated' = [delegated EXCEPT ![tx.entry.v] = @ + tx.entry.amount]
  /\ keeper_funds' = keeper_funds - tx.entry.amount
  /\ executed' = [executed EXCEPT !.delegate = @ + tx.entry.amount]
  /\ UNCHANGED <<unbonding, stakingVars>>

Undelegate(tx) ==
  /\ tx.call = "undelegate"
  /\ tx.entry.amount <= delegated[tx.entry.v]
  /\ delegated' = [delegated EXCEPT ![tx.entry.v] = @ - tx.entry.amount]
  /\ unbonding' = [unbonding EXCEPT ![network_era + AUCTION_DELAY] = @ + tx.entry.amount]
  /\ executed' = [executed EXCEPT !.undelegate = @ + tx.entry.amount]
  /\ UNCHANGED <<keeper_funds, stakingVars>>

Covers(queue, v, amount) == v \in DOMAIN queue /\ amount <= queue[v]

Reverts(tx) ==
  CASE tx.call = "withdraw_for_delegation" ->
         ~(Covers(pending_delegations, tx.entry.v, tx.entry.amount) /\ tx.entry.amount <= purse)
    [] tx.call = "delegate"             -> tx.entry.amount < MIN_DELEGATION
    [] tx.call = "confirm_delegation"   -> tx.entry.v \notin DOMAIN pending_delegations
    [] tx.call = "undelegate"           -> tx.entry.amount > delegated[tx.entry.v]
    [] tx.call = "confirm_undelegation" -> tx.entry.v \notin DOMAIN pending_undelegations
    [] tx.call = "harvest_rewards"      -> tx.entry.era <= last_harvest_era
    [] OTHER                            -> FALSE

\* Mutant: the next transaction is sent whatever became of the last.
AfterAny(job, succeeded) ==
  IF job.tx.call \in DOMAIN NextCall THEN [job EXCEPT !.tx.call = NextCall[@]]
  ELSE IF job.tx.call \in Recorded THEN [job EXCEPT !.executed = TRUE]
  ELSE NextEntry(job)

\* What a handler makes of an outcome: it sends the entry's next transaction, or
\* it has done with the entry or gives it up.  It is no step of its own where the
\* tracker has no part in it: what may happen before it may as well happen
\* before the next transaction is executed.
After(job, succeeded) ==
  IF succeeded /\ job.tx.call \in DOMAIN NextCall THEN [job EXCEPT !.tx.call = NextCall[@]]
  ELSE IF succeeded /\ job.tx.call \in Recorded THEN [job EXCEPT !.executed = TRUE]
  ELSE NextEntry(job)

Execute(j) ==
  /\ IsWaiting(jobs[j])
  /\ \/ /\ ContractCall(jobs[j].tx) \/ Delegate(jobs[j].tx) \/ Undelegate(jobs[j].tx)
        /\ jobs' = [jobs EXCEPT ![j] = After(@, TRUE)]
     \/ /\ Reverts(jobs[j].tx)
        /\ jobs' = [jobs EXCEPT ![j] = After(@, FALSE)]
        /\ UNCHANGED <<stakingVars, auctionVars>>
  /\ UNCHANGED <<trackerVars, late, faults>>

\* A transaction left behind is executed, or it reverts or expires.
ExecuteLate(i) ==
  /\ \/ ContractCall(late[i]) \/ Delegate(late[i]) \/ Undelegate(late[i])
     \/ UNCHANGED <<stakingVars, auctionVars>>
  /\ late' = RemoveAt(late, i)
  /\ UNCHANGED <<trackerVars, jobs, faults>>

-----------------------------------------------------------------------------
(***************************************************************************)
(* The users and the network.                                              *)
(***************************************************************************)
UserCall ==
  /\ \E user \in Users :
       \/ \E v \in Validators, amount \in StakeAmounts, p_score \in Scores, p_avg \in Averages :
            /\ total_staked + amount <= MaxPool
            /\ Stake(user, v, amount, p_score, p_avg)
       \/ \E v \in Validators, amount \in TokenAmounts, era \in EraArgs :
            /\ next_request_id <= MaxRequests
            /\ Unstake(user, v, amount, era)
       \/ \E era \in EraArgs : Claim(user, era)
       \/ \E to \in Users, amount \in TokenAmounts : TransferYSCSPR(user, to, amount)
  /\ UNCHANGED <<auctionVars, trackerVars, jobs, late, faults>>

\* The auction pays its rewards and releases what has been unbonding.
EraEnds ==
  /\ NewEra
  /\ \E reward \in Rewards :
       delegated' = [v \in Validators |-> IF delegated[v] = 0 THEN 0 ELSE delegated[v] + reward]
  /\ keeper_funds' = keeper_funds + unbonding[network_era']
  /\ unbonding' = [unbonding EXCEPT ![network_era'] = 0]
  /\ UNCHANGED <<executed, trackerVars, jobs, late, faults>>

-----------------------------------------------------------------------------
Kinds == UNION {Handlers[j] : j \in Jobs}
Starts(phases) == \E j \in Jobs : StartHandler(j, phases)

HandlerSteps(j) == NextPhase(j) \/ Execute(j) \/ FinishEntry(j)

WorkerNext ==
  \/ \E phases \in Kinds : Starts(phases)
  \/ \E j \in Jobs : HandlerSteps(j) \/ GiveUp(j)
  \/ \E i \in DOMAIN late : ExecuteLate(i)
  \/ UserCall
  \/ Restart
  \/ EraEnds

\* Each timer fires again and again, whatever the other handlers do (that it
\* must wait for a free one is the model's bound), and what a handler waits for
\* comes to pass or is given up.  Nothing is assumed of users, faults and eras.
Fairness ==
  /\ \A phases \in Kinds : SF_workerVars(Starts(phases))
  /\ \A j \in Jobs : WF_workerVars(HandlerSteps(j))

WorkerSpec == WorkerInit /\ [][WorkerNext]_workerVars /\ Fairness

-----------------------------------------------------------------------------
(***************************************************************************)
(* Properties.                                                             *)
(***************************************************************************)
Requested == SumFunction([id \in DOMAIN withdrawal_requests |-> withdrawal_requests[id].amount])

\* What has left the contract's queues was done: of all that was ever staked,
\* what no longer awaits delegation has been delegated, and likewise for what
\* was asked back, although handlers overlap, retry and lose track.
QueuesAreHonest ==
  /\ Principal + Requested - SumFunction(pending_delegations) <= executed.delegate
  /\ Requested - SumFunction(pending_undelegations) <= executed.undelegate

\* "The CSPR should already be in keeper account": what is ready to be
\* deposited is there, whatever was delegated, twice or late, from the same
\* account; in particular no delegation is paid with the keeper's own CSPR.
ReadyIsInAccount ==
  SumFunction([i \in DOMAIN GetReadyUnbondings |-> GetReadyUnbondings[i].amount]) <= keeper_funds

\* What users are owed is somewhere: the rewards a harvest adds were earned,
\* although it reports a total that is old when it is executed.
Solvent ==
  total_staked + total_pending_withdrawal
    <= purse + keeper_funds + SumFunction(delegated) + SumFunction(unbonding)

\* Whatever was lost, given up or marked for another: the deposits come to an
\* end, and no record stays ready for ever.
ReadyIsDeposited == <>[](GetReadyUnbondings = <<>>)
=============================================================================
