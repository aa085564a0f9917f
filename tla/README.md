# The UX Network system contracts in TLA+

This directory specifies the contracts in `src/contracts`: what the actions of
`eosio.system`, `eosio.msig` and `eosio.token` do to their tables, which
properties must hold of every order of actions, abstract specifications of what
two of the parts promise, and, for the parts where it matters most, proofs that
they keep the promise.

## 1. The system

A contract is a set of actions over tables. The node applies actions one at a
time; an action that fails a check leaves no trace, and the inline actions it
sends (token transfers, issues) fail or succeed with it. So nothing runs in
parallel *inside* an action. What is hard is *between* actions: anyone may call
any action at any time, several accounts work on the same rows, scheduled
transactions run late, fail and are not repeated, time passes, weights grow, and
governance changes parameters amid a process.

| Component | State | Operations | Hard because |
|---|---|---|---|
| Resource oracle (`resource.cpp`) | submitted totals and commitments of oracles, stored datasets, votes for hashes, distributions, configuration | `initresource settotalusg addactusg nextperiod claimdistrib resactivate` | oracles disagree, some report anything; two phases (commit, reveal); thresholds reached in the middle of a submission; schedule and parameters change in a period; money is issued once |
| Producer pay (`producer_pay.cpp`) | pay rows, unpaid blocks | `onblock claimrewards` | credited by the oracle, claimed at any time |
| Voting (`voting.cpp`) | voters, producers, totals | `voteproducer regproxy regproducer unregprod rmvproducer` | tallies kept by differences; weights grow every week; proxies pass weights on; updates too small to matter are held back |
| Staking (`delegate_bandwidth.cpp`) | delegations, weights, refund requests | `delegatebw undelegatebw refund` | restaking eats waiting refunds; a deferred transaction pays later, or never; stake, weights and votes live in different tables |
| RAM market and limits (`delegate_bandwidth.cpp`, `eosio.system.cpp`) | rows of resources, flags, totals, supply, limits at the node | `buyram buyrambytes sellram setram setramrate setalimits setacctram/net/cpu newaccount` | limits are copies of rows, written in many places; 32-bit products |
| Name auctions (`name_bidding.cpp`) | bids, refunds | `bidname bidrefund newaccount`, `onblock` | refunds merge and are paid by hand or by the node; closed auctions stay closed |
| `eosio.msig` | proposals, two generations of approvals, invalidations | `propose approve unapprove cancel exec invalidate` | a name is reused for another transaction; approvals made before an invalidation; permissions change between approval and exec |
| `eosio.token` | supplies, balances | `create issue retire transfer open close` | two tables that must agree |
| Vote pay shares (`voting.cpp`) | shares of producers, their total and its rate | all voting actions | the total is kept apart and corrected by differences in elapsed time; producers lapse without an action |
| `eosio.info` | KYC accounts, types of keys, verifications, keys of users | eight actions that add, change and delete rows | an index that is not unique; types change under stored rows |
| Restricted permission changes, REX, system parameters, `eosio.wrap`, `eosio.freeze`, `eosio.bios` | | | see section 7 |

How they interact: `settotalusg` and `addactusg` call `issue_inflation`, which
has `eosio.token` issue UTXRAM to `eosio.upay`, `eosio.bpay` and others;
`claimdistrib` and `claimrewards` have it transfer them on. Staking changes the
weights in `userres`, tells the node the limits, and calls `update_voting_power`
of the voting part. `onblock` closes name auctions and refreshes the schedule,
and the schedule says who is an active oracle. `newaccount` consumes a won name
and creates the row of resources. `exec` of eosio.msig, `bidname` and
`undelegatebw` schedule deferred transactions with the node.

## 2. Modules

Each component has a module, where needed an `MC` module with the values TLC
uses, and `.cfg` files, one per run. A `Proofs` module has its theorems; `Sums` has the lemmas about
sums over tables that they share. Definitions named `Bug…`
are mutations: what a definition would be with a plausible mistake. They are not
part of any specification; they stand beside the definition they distort so that
one can check that a property notices.

| Module | Lines of the code | Proofs |
|---|---|---|
| `ResourceOracle` | `resource.cpp`, `claimrewards`, `update_elected_producers` | `ResourceOracleProofs` |
| `Periods`, implemented by `ResourceOracle` | what the oracle promises | `ResourceOracleProofs` |
| `Msig` | `eosio.msig.cpp` | `MsigProofs` |
| `Voting` | `voting.cpp`, `update_voting_power` | `VotingProofs` |
| `VotePay` (extends `Voting`) | the shares in `voting.cpp` | `VotingProofs` |
| `Staking` (implements `Voting`) | `changebw`, `delegatebw`, `undelegatebw`, `refund` | `StakingProofs` |
| `Resources` | RAM market, resource setters, resources in `changebw` | `ResourcesProofs` |
| `NameBids` | `name_bidding.cpp`, closing in `onblock`, `newaccount` | `NameBidsProofs` |
| `Token` | `eosio.token.cpp` | `TokenInfoProofs` |
| `Info` | `eosio.info.cpp` | `TokenInfoProofs` |

The variables carry the names of the tables and of the members of the global
state, the actions those of the contract actions. One TLA+ action is one
contract action with all the inline actions it sends; its guards are the
`check`s (a call that fails is a step that does not happen). Tables are
functions from keys to rows, and a key outside the domain has no row. Authority
is the caller: an action has the caller as a parameter and any account may be
it. Memos, messages, RAM payers, timestamps nothing reads, and serialisation are
left out.

### 2.1 ResourceOracle

Oracles measure usage off-chain. In a period each submits totals with a list of
hashes of its datasets (`SetTotalUsg`), then the datasets themselves
(`AddActUsg`). When `oracle_consensus_threshold` oracles agree on the totals,
inflation is issued for them; when as many agree on the hash of a dataset, the
dataset is paid out to its accounts. `NextPeriod` closes the period when all is
paid, gives points to the oracles that agreed, and clears the tables.

* *Oracles.* Those in `Faulty` submit any totals, commitments and datasets of
  the constants; the others submit what they measured (`Honest…`). The
  ranking from which `is_oracle` and the active schedule follow changes by
  `Vote` and `UpdateElectedProducers`.
* *Hashes.* `sha256` is injective on what is hashed. What is hashed is a text
  without separators, so two datasets may have one text; a dataset is a record
  `[text, usage]`, and two of them may have the same text (section 6).
* *Numbers.* `total_net_words * 8` wraps around at `WordModulus` (2^64 in the
  code). The inflation formula of `set_total` (doubles, powers) is a choice from
  `Amounts`, one set of results for each day of inflation (`SetTotal`), refused over
  `PeriodCap` and cut by what `MaxSupply` leaves. What blocks can hold
  (`SystemMaxCpu`, `SystemMaxNet`) does not change. Totals of 0 with a
  dataset to pay divide by zero, and the action fails.
* *Rounding.* A share is a quotient of doubles times a double, converted to an
  integer. Both operations round by at most 2^-53 of their value, up or down, so the
  double is within 1/2^51 of the exact share, and the result of `Truncated` may be one
  less than the integer part of it or one more. `Precision` is that 2^51; it is above
  `PeriodCap`, which is 1.5 * 10^10 in the code. That is what keeps the shares of a period
  together below what it has issued, though each of them may be rounded up: the
  sum of the doubles is less than one token above it.
* *Left out.* The copy of totals in `resusagedata`; zero rows of account pay
  (no row); `clrresource`, which is not compiled. `period_seconds` and the batch
  size do not change in a re-initialisation. A dataset names an account once.
* `Init` is the state after the first `initresource`. `CarefulGovernance`
  says that `initresource` changes the threshold or the start only while
  nothing is submitted. The runs assume it; the theorem `DistributionsBacked` does
  not.

`Periods` is the oracle without oracles: a period has an inflation that is issued
once for its true total (`Issue`), true datasets that are paid once each (`Pay`),
and an end after all of them (`Close`); governance may move the start of a period
in which nothing is paid (`Restart`). `ResourceOracle` implements it with this
mapping: `start` is `period_start`; `issued` holds the total of the last history
row if `inflation_transferred`; `paid` is the text of what was distributed under
each id; `days` and `supply` are those of the history and the token. Submissions,
scores, votes and claims are steps that leave all of this alone. That inflation
is issued for a total nobody measured, or twice, that a dataset is paid twice or
under another id, that a period closes early or opens with what the last one
left: each is a step `Periods` does not have.

### 2.2 Msig

`Slots` are the levels of `requested_approvals` and `provided_approvals` of one
proposal in one sequence. `consent` is a history variable: what each owner of a
level stands by at this moment (it approved exactly that transaction and has
neither withdrawn nor invalidated it). No guard reads it. Rows of the older
approvals table come only from before the upgrade (`Legacy`).
`check_transaction_authorization` is the node's: a transaction is authorised by a
set of levels that includes a sufficient one, and what is sufficient changes
(`ChangeAuthority`). Deferred transactions are the node's, too: `send_deferred`
does not replace one of the same id, so `exec` fails while one waits.

### 2.3 Voting and Staking

Weights are exact integers where the code has doubles; `Growth` gives the weight
of a unit in each week and is more than 1, so that a change of a unit exceeds the
1 up to which `propagate_weight_change` holds changes back. It notes the new weight
of the voter all the same, so what it holds back is lost: with weights of 2 and 3
(`TwoWeeks` of `voting_counts`) TLC refutes `VotesAreCounted` and
`ProxiesAreCounted`. The weights of the code are some ten millions for a unit of
stake, and grow by more than a percent each week, so that a change of 1 or less is
one of rounding; the runs have weights of which every change is more than 1, and
the theorems assume them (`WeightsAreCoarse`). `voted` is history.
`ChangeStake` stands for what staking does to the votes.

`Staking` has the tables of `changebw` and its own ledger (`eosio.stake` and the
liquid tokens) and takes voting from `INSTANCE Voting`. That its steps are steps
of `Voting` (with `ChangeStake` for every delegation) is checked as the
refinement `ImplementsVoting`; so the properties of `Voting` hold of it. The node
runs a deferred refund when due or later, or drops it (`RunDeferred`): it may fail
or expire, and is not sent again.
`eosio.stake` as a caller and the vesting of `b1` are left out.

`VotePay` extends the state of `Voting` by the tables `producers2`, `global2` and
`global3`, and each of its actions by what it does to the shares. `Voting` records
which sets of producers an action counts (`counts`), and `CountShares` does to
their shares what the loops of `update_votes` and `propagate_weight_change` do. An
action may count a producer more than once, all at the same time; the shares then
change with the first count only and the differences add up, so they are changed
once, by the difference of the votes. Time and shares are integers. A week is
longer than the three days after which a producer lapses, so that votes change
weight between lapses. `Legacy` producers have a row without share, from before
there were shares, and register again. Those of `LegacyClaims` are their times of
last claim: 0, as for all that never claimed. With an old time other than 0 the
code lets a producer in that has lapsed already, and its rate counts for good:
`RateIsOfVotes` then fails (`LegacyClaims` {1}). No action of this fork makes such
a row: `claimrewards` sets `last_claim_time` of the pay row, not of `producers`.

### 2.4 Resources

RAM is counted in units of 1024 bytes at 1.0000 UTXRAM, the code's fixed price.
`setacctram`, `setacctnet` and `setacctcpu` differ in the kind of resource only
and are `Manage` (with a value) and `Unmanage` (without). Accounts of the genesis
are unlimited and have no row. `unfit` and `due` are history: the accounts the
promise about limits is not for, and the supply that the rates add up to.

### 2.5 NameBids, Token and Info

`NameBids`: a scheduled refund may be dropped, as in `Staking`. The ricardian contract
of `bidname` says so, too: "the automatic refund may occasionally fail which will then
require {{bidder}} to manually claim the refund with the bidrefund action"
(`eosio.system.contracts.md.in`, line 29). Auctions close one at a time and one a day, as in `onblock`; among
equal highest bids any may close (the index does not say which). The code stores
times and compares how long ago they are with a bound. The module stores that
age in days and stops counting past the bound (`Older`), so that time has no end
and liveness can be stated; the ages are those of each bid, of the last closing
and of the activation of the chain.
`Token`: codes and precisions are small sets; `MaxAmount` is 2^62-1 in the code.
`Info`: definitions of keys and times of verifications are left out.

## 3. Runs

Between them the passing runs take every action of every module. Deadlock is not
checked where bounds on time or funds end the behaviours.

| Run | Question | Answer |
|---|---|---|
| `oracle_consensus` | Does the oracle do what `Periods` says (`ImplementsPeriods`), is only the truth issued and paid (`InflationIsTrue`, `DistributionsAreTrue`), does exactly the truth score full marks (`HonestScore`), can faulty oracles have no honest one refused (`HonestAreAccepted`) and no closing stopped (`HonestSuffice`); so do periods go on in spite of them (`PeriodsAdvance`)? | yes, the last under fairness, and unless `issue_inflation` refuses the tokens |
| `oracle_ledger` | Can `eosio.bpay` always pay (`BpaySolvent`), and `eosio.upay` (`UpayIsSolvent`)? | yes; `eosio.upay` only if the datasets paid are those agreed on (section 6) |
| `msig_consent` | Does `exec` send only what enough owners stand by (`ExecIsConsented`)? | yes |
| `voting_counts` | Are tallies the sums of what they stand for, with full weight (`VotesAreCounted`, `ProxiesAreCounted`, `VotesHaveFullWeight`), are there no cycles of proxies (`ProxiesFormChains`), activated stake counted once (`StakeActivatesOnce`)? | yes |
| `voting_first_vote` | Does a first vote always activate the stake (`FirstVoteActivates`)? | no, section 6 |
| `votepay_shares` | Are the total of the vote pay shares and its rate those of the shares (`TotalIsSumOfShares`, `RateIsOfVotes`), and has a lapsed producer none (`LapsedHaveNoShare`)? | yes |
| `staking_ledger` | Is stake backed by tokens and used as weights and votes (`StakeIsBacked`, `StakeIsUsed`); is no deferred refund early (`DeferredInTime`); does staking do to votes what `Voting` says (`ImplementsVoting`)? | yes |
| `staking_refunds` | Is every waiting refund scheduled (`RefundsAreScheduled`)? | no, section 6 |
| `names_auction` | Does nobody lose a token but for a name (`NamesAreFunded`, `BiddersPayForNames`); is a closed auction final (`ClosedIsFinal`); is every outbid bidder refunded once `bidrefund` is called for it, whatever became of the scheduled refund (`OutbidAreRefunded`), and does every auction close (`AuctionsClose`)? | yes, the last under fairness |
| `token_supply` | Do supply and balances agree (`SupplyIsHeld`), and are all balances in the symbol of their token (`TypeOK`)? | yes |
| `resources_limits` | Do limits follow the rows (`LimitsFollowRows`); is reserved RAM backed (`RamIsBacked`); does `buyrambytes` give what was asked for (`BytesAreExact`); is the RAM allocated what `setram` and each rate in its own blocks add up to, but for whole multiples of the range (`SupplyIsDue`)? | yes |
| `info_rows` | Is there one row at most for a user and a key, and for an id (`RowsAreUnique`)? | yes |

### Bounds

* *Oracle.* Three oracles, one faulty, threshold 2: the smallest committee in
  which honest oracles are needed for and suffice for agreement, and the faulty
  one can be the one that completes it. Two periods, the first of two datasets,
  the second of one and with other totals, so that a missing reset shows; that one dataset
  is also in the first period, under another id. A ranking of all, and
  one in which an honest oracle has fallen out, so that fewer are active than the
  schedule has. The supply has one token left, which one of the first two inflations may
  take, and a third asks for more than the cap: there is one if careful
  governance opens the first period again (`Restart`). So both ways in which inflation is
  refused occur, and `PeriodsAdvance` fails if `InflationIsRefused` leaves out one of
  them. In `oracle_ledger` the second period hits the maximum supply, and the 7
  tokens of the first go to two accounts in the parts 14/3, which `Truncated` rounds to 4
  or, with a `Precision` of 11, to 5, and 7/3. Two of the datasets have one text, so that
  `UpaySolvent` by itself is violated there: `UpayIsSolvent` speaks of the behaviours
  in which none is paid in place of the other.
* *Msig.* One proposer and name, because different names share only the
  invalidations; two transactions for the name, three levels of two accounts (an
  invalidation hits two levels at once), two clock ticks, so that approvals come
  before, with and after an invalidation and one transaction expires.
* *Voting.* Three accounts (voter, proxy, and a proxy that tries to delegate),
  one candidate, stakes to 2, two weeks. Two candidates add no interaction:
  a vote adds the same difference to each.
* *Staking.* Two accounts with one token each, which they stake for themselves or
  the other, one resource at a time; votes, proxies and one doubling of the
  weights. A refund of one resource is restaked as the other or as the same, for
  its owner or another account. With `MaxTime` and `RefundDelay` 1, a refund of
  time 0 becomes available and one of time 1 does not. `staking_refunds` has no time, so that no
  scheduled refund runs or is dropped: only `changebw` can cancel it.
* *Vote pay.* Two voters of one unit of stake, of whom one may be the other's
  proxy, two producers, one of them with a legacy row. Three days are 2 units of
  time, a week 4, and the clock goes from 2 to 5: a producer registers, lapses, is
  counted before and after, and the weight doubles (the module asks that the bounded
  time has three days and a weight for each week). Stake is not taken back: it
  changes the votes as a vote for nobody does.
* *Names.* Two names and bidders and 4 tokens. Ages are told apart up to one day,
  for the wait before the first auction too, so that the wait ends while bids are
  young, old and outbid.
* *Info.* One KYC account, two users, keys and memos, ids to 2, so that a row may be
  added after one below it was deleted.
* *Resources.* A genesis account and a new one, prices of 3 in words of 8: a
  purchase of 5 wraps around. Nothing is staked for CPU, which `changebw` treats as it
  does NET; both are managed. The rate is 0 at first and then 5 RAM a block, and
  `update_ram_supply` may be called after one block or only after two, when 10 wraps
  around to 2.
* *Token.* Two or three of each kind.

Symmetry is used only for invariants and action properties and only for sets
whose elements no definition tells apart.

### Fairness

* `oracle_consensus`: weak fairness of the submissions of each honest oracle, of
  `NextPeriod` and of the clock. The oracle programs submit periodically and repeat
  what failed; anyone may call `nextperiod`. There is none of the faulty oracle, of
  governance or of voters. So `PeriodsAdvance` speaks of behaviours in which from
  some time on the committee is ready for good (`CommitteeIsReady`): the contract is
  active, the honest oracles are ranked, and as many producers are active as the
  schedule has. The last is asked for by `issue_inflation`: while
  fewer producers are active, the submission that completes the agreement fails. It
  also fails, for good, when the maximum supply is used up or the formula gives more than
  the cap; then the period stays open. So `PeriodsAdvance` promises progress until there
  are no more reports or days of inflation, or one of these happens (`InflationIsRefused`).
* `names_auction`: weak fairness of the days and of closing some auction: `onblock`
  runs in every block, and looks for the highest bid once a minute. Nobody has to bid or
  claim, and no scheduled refund has to succeed. `OutbidAreRefunded` has its own
  condition: for a bidder and name for which `bidrefund` is called as long as it is
  possible (anyone may call it), the refund is paid, so it never becomes impossible.
  Auctions close because a bid that is raised must rise by a tenth, and tokens are
  finite: sooner or later the highest bid is a day old.

## 4. What is proved

`tlapm` checks all theorems for every value of the constants that satisfies the
assumptions.

**Sums.** Most invariants of the ledgers are about sums over tables
(`SumFunction` of the module `Functions`, a fold). The library has no theorem
about folds, and its induction theorems take an operator; but over subsets of one
finite set induction is a statement about a set of sets: if `Good` has the empty
set and, with `T`, `T` and one more element, it has every subset, because
otherwise the subsets it lacks have a smallest one (`SubsetsInduction`, from the
well-foundedness of the finite sets). By it the sum exists and has its recursive
equation (`SumsExist`, `SumEquation`), and from the equation follows what the
ledgers need: a sum changes by what one row changes (`SumChanges`), parts of a
sum do not exceed it (`SumBounds`, `SumOfSubset`), sums of sums, of constants and
of proportional parts (`SumPlus`, `SumConstant`, `SumParts`).

**ResourceOracleProofs.** Assumptions: `ConstantsAssumption` (types, and finitely
many oracles and accounts) and `FaultyAssumption`: there are fewer faulty oracles
than any threshold. `TypeCorrect`. Then `ConsensusIsInductive` for `ConsensusInv`, a
conjunction: inflation and distributions are true; rows of honest oracles are true;
a payment implies a quorum of submissions; what is agreed is served; voted hashes
are stored. The properties alone are not inductive: that a payment is true follows
from the rows of those who agreed, so the invariant must speak about the rows of
honest oracles, and that a period is closed complete needs that what was agreed
was served in the same action. The argument turns on one lemma,
`QuorumHasHonest`: of as many oracles as the threshold, one is honest. From the
invariant follow `InflationCorrect`, `DistributionsCorrect` and
`AdvanceCorrect`. `DistributionsBacked` holds without
careful governance, from an invariant of its own (`PaymentsAreInductive`): `initresource`
forgets neither what is paid nor what is submitted.

`PeriodsAreImplemented`: under the same assumptions and careful governance, `Spec`
implies `ImplementsPeriods`. The initial states map to the initial state; each
action maps to one of `Periods` or to a stutter. That the inflation and the
datasets are the true ones is `ConsensusInv`; that `NextPeriod` maps to `Close` is
`AdvanceCorrect`'s argument; and a re-initialisation maps to `Restart` because
nothing is issued or paid where nothing is submitted.

Solvency. `BpayCorrect` needs no hypothesis: the active producers get the integer
part of their share each, so together no more than was issued. `UpayCorrect` has one,
careful governance, and `UpayIsSolvent` a condition on the behaviour, that the datasets paid are
those agreed on (`ConsensusDataIsPaid`): `addactusg` may pay another of the same text,
which may use more (section 6). Its invariant says that what `eosio.upay` has and owes to
nobody (`Slack`), less what rounding may have added, is at least the part of the period's
tokens for usage not yet paid (`PayInv` and `Taken`, with the quotient multiplied out). Each payout
is at most its exact part and a `Precision`-th of it (`PaymentMoves`), so all payouts
together exceed the tokens of the period by less than one token, and being integers not
at all (`TakenIsThere`); this is where `PeriodCap < Precision` is needed. That this part is never negative, that is, that the
datasets paid do not use more than the total, is no check of the code: each oracle
is only checked against its own total. It follows from the honest oracle that has
sent the greatest of the ids paid. It has sent all the datasets before that one too, they
are the true ones, and its row adds up (`SentInv`, `PaidIsWithin`).

What a claim asks of the accounts follows: `DistributionsCanBeClaimed`, under the same
hypotheses, and `RewardsCanBeClaimed`.

Honest oracles. `PeriodsAdvance` is out of the provers' reach, but what it rests on
is not: whatever the faulty oracles have done, the next action of an honest one is
enabled. That is stated without `ENABLED`, by the conjunctions of checks the
actions begin with (`MaySetTotalUsg`, `MayAddActUsg`, `MayCredit`, `MayClose`).
All three theorems assume careful governance.

* `AcceptCorrect` (`HonestAreAccepted`): once the inflation is issued, an honest
  oracle's submission is accepted. The dataset fits into what its total leaves
  because its row adds up (`SentInv`); and where it completes an agreement, the
  payment does not trap: the dataset agreed on has the text of its own, so what it
  pays for uses as much, and the total is not zero unless there is nothing to pay.
  That needs `StoredArePositive` (stored datasets have no zero usage, by the check in
  `addactusg`) and two hypotheses: `TextsDetermineUsage`, that datasets of one
  text use the same in all, and
  `ReportsAreFeasible`, which is about the measurements: each dataset fits a batch, none
  of its entries is zero, the datasets add up to at most the total, and the
  total is within the system's limits.
* `SufficeCorrect` (`HonestSuffice`): once the honest oracles have sent everything,
  `nextperiod` finds a consensus, if there are as many of them as any threshold
  (`EnoughHonest`). The faulty ones are fewer than the threshold (`FaultyAssumption`), so
  whatever they commit to is not modal, and the honest commitment is revealed
  by as many as it takes.
* `ScoreCorrect` (`HonestScore`): the modal commitment is the honest one
  (`ModalIsTrue`, by `QuorumHasHonest` again), so the points for it go to each honest
  oracle that has sent everything and to no oracle that has not sent the same.
  This needs neither that the honest are many nor that their reports are
  feasible.

What is left to TLC is that these steps are taken in time and lead to the end of
the period, which is where fairness enters.

**MsigProofs.** `TypeCorrect` and `TablesCorrect` (each proposal has approvals in
exactly one table, and none outlive it). `ConsentIsInductive` and `ExecCorrect`
under `NoRepeats`: no requested list names a level twice; without it
`UnapproveRevokes` is false (section 6). The invariant `MsigInv` says that tables
agree, approvals are not in the future, levels are asked once, and that each
approval `exec` would count is one its owner stands by for that transaction.
That times of approvals are past is needed because an invalidation is compared
with them.

**ResourcesProofs.** `TypeCorrect`, where reserved RAM never goes below zero (with
`ram_stake = reserved`, as `sellram` checks one and lowers both). `LimitsCorrect`:
limits follow rows, by induction over the actions with `TypeOK`. The only place
where this is not one assignment is `changebw`, which writes the greater of the
RAM limit and the row's RAM; they are equal by the invariant. `BytesCorrect`:
`buyrambytes` reserves what was asked for, under `WrappedPricesAreRefused`, which
`PricesOf32Bits` proves of the code's numbers, 10000 and 2^32.

`RamCorrect` is about sums over the rows of `userres`; the step that needs care is
`changebw`, which may erase a row, and only one without RAM. `SalesArePaid` follows.
`SupplyCorrect` is `SupplyIsDue` for every range of the numbers, with no assumption on how
long `update_ram_supply` is not called: each call adds the remainder of what it has not
seen yet, so what is lost is a multiple of the range, and multiples add up (`Multiples`).

**StakingProofs.** `VotingIsImplemented`: each action of `Staking` is one of
`Voting` or leaves the votes alone, provided that the constant `StakeChanges` has
the changes that the quantities make. `DeferredCorrect`: the deferred refund is
sent anew whenever the row changes, and the row's time is kept or becomes the
present; what makes this inductive is that no time is of the future
(`RefundTimes`). `StakeCorrect`, `UseCorrect` and `ProducersCorrect` have one invariant, `StakingInv`.
It has to say that a vote changes no voter's stake, whatever the chain of
proxies: the recursion of `propagate_weight_change` is a function on numbers, that
it exists and what each call keeps is proved by induction over the calls. That a
producer keeps its self-stake needs no assumption on `WordModulus`: the subtraction
in the check wraps around only if more is taken back than is delegated to oneself;
then it is taken back from another account, or `changebw` fails. `RefundsCanBePaid` is a consequence of `StakeIsBacked`.

**VotingProofs.** Assumptions: `VotingConstants` and `VotePayConstants` (types; three
days fit into the bounded time, and each week of it has a weight).

`ChainsCorrect`: proxies form chains if each account can be given a rank that is
higher than that of its proxy. Whoever becomes the proxy of another has none
itself, so a new vote keeps a rank: the proxy goes below all others (`RevotesChained`).
There are as many ranks as accounts, if only their order matters (`RanksBelow`, by
induction over the sets of accounts), which bounds the chain and with it the recursion
of `propagate_weight_change`.

`VotesCorrect`, `ProxiesCorrect`, `WeightsCorrect` and `ActivationCorrect` have the
hypothesis `WeightsAreCoarse`: the weights of a unit are multiples of a number above
1. Then all weights and tallies are, and no change is held back (2.3). Their
invariant, `WeightsInv`, is the first three properties together and that stake counted
for the activation belongs to a vote with a weight. Neither is inductive alone: what a
proxy passes on is right only if its own vote had full weight before.
`update_votes` breaks the tallies and mends them in several steps, with a propagation
along a chain after each. So they are stated for a vote that is *on its way*:
`CountedBut` says that every voter but `v` counts with what its row says, and `v` with one
weight for one proxy and another for some producers. Leaving a proxy, joining one
and counting the producers each move this vote and nothing else
(`LeaveProxyCounts`, `JoinProxyCounts`, `VotedCounts`), and writing the row makes it an
ordinary one (`SetVoteCounts`). `FullExcept` likewise says who may lack a part of its
weight: `v`, and the account that the next call of the recursion is for
(`PropagateCounts`, by induction over the calls). That the recursion never comes back to `v`,
whose new weight is already taken, is the rank again.

`RateOfVotesCorrect` and `TotalCorrect` assume that `Legacy` rows have no time of a last
claim (2.3). The invariant `PayInv` is both properties and the types of the tables,
above all that a producer with a share has a claim time and one without has
none. The rate and the total are clamped at zero in the code; that the clamp never
acts is part of the proof (`NotClamped`). How votes are counted enters only as the
fact that none changes of a producer that is not in `counts` (`CountsVotes`).

`LapsedCorrect`: the share is set to zero at the first count past the threshold;
afterwards the time of the update is past it too, and nothing is added. The invariant
(`SharesInv`) has to say that no update is of the future, because a new
registration moves the threshold.

**NameBidsProofs.** `TypeCorrect`: amounts stay natural numbers, refunds and bids
are of something, which is what tells an open auction from a closed one.
`ClosedCorrect` follows: no action but the winner's `newaccount` touches a bid
below zero. `FundsCorrect` and `BiddersCorrect` are proved together, since a bid moves tokens
from the bidder's part of one sum to that of another; `RefundsArePaid` follows from
the first.

**TokenInfoProofs.** The two contracts that stand alone.
`TypeCorrect` and `SupplyCorrect` by one invariant: a transfer, also one to
oneself or into a new row, and `close`, which erases a row of zero, leave the sum of the balances as it is.
`RowsCorrect` is `RowsAreUnique` of `Info`, from no assumption at all. Inductive is that tables
are finite and ids are natural numbers, too: then there is a greatest id
(`FiniteHasMax`, by induction over subsets), and the next one is above all
(`AvailableIdIsNew`).

So every invariant and action property of the passing runs is a theorem, some
under the hypotheses named here, which the theorems state. Only model-checked is
liveness (`PeriodsAdvance`, `OutbidAreRefunded`, `AuctionsClose`), which the
provers do not reach. Only proved, with no run of their own, are
`DistributionsBacked`, because the runs have careful governance, and
`ProducersCorrect`, because quantities of which the subtraction wraps around are too many
for a run of the whole of `Staking`. The findings are runs of TLC.

## 5. Mutations

Each property of each passing run is violated when one definition of the model is
replaced by a `Bug…` variant of it (`PROJECT.json`, "mutants"): a dropped check, a
missing reset, the wrong account, a comparison off by one.

## 6. Where code and comments disagree

Two runs end with a counterexample; `PROJECT.json`, "findings", quotes the lines.

1. `FirstVoteActivates`: who registers as a proxy before its first vote never adds
   to the activated stake.
2. `RefundsAreScheduled`: delegating to another account cancels the deferred
   transaction of one's own waiting refund; it has to be claimed by hand.

Other statements of comments and ricardian contracts are properties of the modules, too,
and TLC refutes them at once in the models above with the constants named here (of the `MC`
modules; all others as in the run). They have no run of their own.

| Property | What the code does | Run and constants |
|---|---|---|
| `ConsensusDataIsPaid` | datasets with one text share a hash, and the one stored first is paid (`resource.cpp`, line 501), not the one the honest oracles agreed on; it may be of other accounts and use more than the total that inflation was issued for, while `resource.hpp`, line 36, speaks of the datasets that "have reached consensus and been distributed" | `oracle_ledger` |
| `UnstakedLeavesReceiver` | `undelegatebw` takes the sum from the vote weight of the one who had staked it (`delegate_bandwidth.cpp`, line 364), to which `delegatebw` has added it; its ricardian contract (`eosio.system.contracts.md.in`, line 599) says that it "will be removed from the vote weight of {{receiver}}" | `staking_ledger` |
| `RateIsApplied` | when `blocks * rate` leaves 32 bits before `update_ram_supply` is called (`eosio.system.cpp`, line 97), RAM is lost in multiples of 2^32 bytes, while the comment on `setramrate` (`eosio.system.hpp`, line 1040) says that it will be allocated at the old rate | `resources_limits` |
| `NextPeriodAfter48Hours` | `nextperiod` may be called 24 hours after the period's start | `oracle_consensus` with `StableRanking`, `OneReport` |
| `SubmissionsAreWithinLimits` | the check of the net limit wraps around in 64 bits | the same with `WideTotals` |
| `ExecHasAllApprovals` | `exec` does not need all requested approvals | `msig_consent` with `TwoLevels`, `OneTrx`, `TwoLists`, `AliceOrBob`, `NoLegacy` |
| `ExecHasNoInvalidations` | `exec` counts approvals of accounts in the invalidations table, if they are newer | the same |
| `UnapproveRevokes` | a level requested twice approves twice, and `unapprove` takes back one of the two | the same with `TwiceLists` |
| `RamIsScarce` | RAM is sold beyond `max_ram_size` | `resources_limits` with `Tokens` 2 |
| `OnlyUnlimited` | `setalimits` takes an account whose row was erased for an unlimited one | `resources_limits` |

## 7. Not modelled

* *Restricted permission changes* (`limit_auth_changes.cpp`). `limitauthchg` stores
  two lists which `updateauth` and its like look at; what these do to permissions
  is the node's.
* *REX*, `exchange_state.cpp`. Every action fails with "REX disabled".
* *System parameters* (`init setparams wasmcfg setpriv activate updtrevision
  setinflation`). Each stores or passes on its argument once.
* *`eosio.wrap`, `eosio.freeze`, `eosio.bios`, `setabi`.* One table write or one
  call of the node each.
* The formula of inflation, and that weights and shares of votes are doubles: see 2.1 and 2.3.

## 8. Plan

The order follows what is lost when a part goes wrong: the oracle's consensus
and ledger, multi-signatures, votes and stake, names, tokens, resources; these
exist. To come:

1. *Composition.* One module of `Staking` with `Resources`, in which `changebw`
   is one action over both: weights, delegations and limits agree, and
   `newaccount` of a won name (`NameBids`) makes the account that is staked for.
   `Token` as the abstract ledger that `Staking`, `NameBids` and `ResourceOracle`
   implement (their balances mapped to accounts).
2. *Deferred transactions.* One module of ids, replacement, cancelling and
   expiry, used by refunds of stake and names, eosio.msig and eosio.wrap, where a
   second `exec` of one executer in one block has the id of the first.
3. *Parameters.* `setparams` amid a period changes what blocks can hold, by which
   `settotalusg` and `set_total` judge the totals, at two different times.
4. *The restricted permission changes*: that no account can lock out its owner.
