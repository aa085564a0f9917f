--------------------------- MODULE ResourceOracle ---------------------------
(***************************************************************************)
(* The resource oracle of eosio.system (resource.cpp, resource.hpp and     *)
(* claimrewards of producer_pay.cpp).                                      *)
(*                                                                         *)
(* The highest-ranked producers act as oracles.  In every period each one  *)
(* reports the system's total cpu and net usage (settotalusg), together    *)
(* with a commitment to all the data it will send, and then the usage of   *)
(* the individual accounts in numbered datasets (addactusg).  As soon as   *)
(* oracle_consensus_threshold oracles agree on the totals, the period's    *)
(* inflation is issued to eosio.bpay and eosio.upay; as soon as as many    *)
(* agree on a dataset, its accounts are credited.  nextperiod scores the   *)
(* oracles, clears the submissions and opens the next period.              *)
(*                                                                         *)
(* A transaction is one atomic step.  A check() that fails rolls it back,  *)
(* so it is a conjunct of the action.                                      *)
(***************************************************************************)
EXTENDS Integers, FiniteSets, Sequences, Functions

CONSTANTS
    Oracles,            \* accounts registered as producers
    Faulty,             \* the oracles that may report anything
    Accounts,           \* accounts whose cpu usage is reported
    Totals,             \* totals an oracle can report: [cpu : Nat, net : Nat]
    Datasets,           \* datasets: [text, usage : account -> cpu]
    Reports,            \* Reports[p]: what is true of the period that starts at p
    Thresholds,         \* values of oracle_consensus_threshold governance uses
    BatchSize,          \* dataset_batch_size
    PeriodSeconds,      \* period_seconds
    Rankings,           \* orders the votes can give: [oracles, active]
    Amounts,            \* Amounts[n]: what the inflation formula can give on
                        \* day n, a set of [utility, bppay]
    Precision,          \* a computed share is off by at most 1/Precision of it
    PeriodCap,          \* most tokens a period may issue
    MaxSupply,          \* max_supply of the core token
    InitialSupply,      \* supply when the resource model is initialised
    MaxDays,            \* periods that may issue inflation (1096 in the code)
    SystemMaxCpu,       \* max_block_cpu_usage * 2 * 60 * 60 * 24
    SystemMaxNet,       \* max_block_net_usage * 2 * 60 * 60 * 24
    WordModulus,        \* 2^64 in the code: the range of uint64_t
    CarefulGovernance,  \* no new threshold or start time amid a period
    MaxTime,            \* bound on the clock
    MaxDataset          \* bound on the dataset ids faulty oracles use

Honest == Oracles \ Faulty

\* Start times of the periods there are reports for.
Starts == DOMAIN Reports

DatasetCpu(d) == SumFunction(d.usage)

(***************************************************************************)
(* sha256 is taken to be injective on the text it is given.  The text of   *)
(* the totals, "<cpu>-<net>", determines them.  The text of a dataset is   *)
(* the concatenation of account names and numbers with no separator, so    *)
(* two datasets may have the same text: a dataset carries its text.        *)
(***************************************************************************)
TotalsHash(t) == <<"totals", t.cpu, t.net>>
DatasetHash(d) == <<"dataset", d.text>>

Hashes == {TotalsHash(t) : t \in Totals} \cup {DatasetHash(d) : d \in Datasets}

\* The submission_hash_list of an oracle that reports period p in full.
FullHashList(p) == [i \in 1..(Len(Reports[p].data) + 1) |->
                        IF i = 1 THEN TotalsHash(Reports[p].total)
                                 ELSE DatasetHash(Reports[p].data[i - 1])]

(***************************************************************************)
(* all_data_hash is the hash of the hash list an oracle commits to, so a   *)
(* commitment is that list; the empty list stands for one nobody reveals.  *)
(***************************************************************************)
Commitments == {FullHashList(p) : p \in Starts} \cup {<<>>}

ASSUME ConstantsAssumption ==
    /\ IsFiniteSet(Oracles) /\ Faulty \subseteq Oracles /\ IsFiniteSet(Accounts)
    /\ \A t \in Totals : t.cpu \in Nat /\ t.net \in Nat
    /\ \A d \in Datasets : /\ DOMAIN d.usage \subseteq Accounts
                           /\ \A a \in DOMAIN d.usage : d.usage[a] \in Nat
    /\ Starts \subseteq Nat
    /\ \A p \in Starts : Reports[p].total \in Totals /\ Reports[p].data \in Seq(Datasets)
    /\ Thresholds \subseteq Nat
    /\ BatchSize \in Nat /\ PeriodSeconds \in Nat \ {0}
    /\ \A r \in Rankings : r.active \subseteq r.oracles /\ r.oracles \subseteq Oracles
    /\ \A n \in 0..MaxDays : \A m \in Amounts[n] : m.utility \in Nat /\ m.bppay \in Nat
    /\ Precision \in Nat /\ PeriodCap \in Nat /\ PeriodCap < Precision
    /\ MaxSupply \in Nat /\ InitialSupply \in 0..MaxSupply
    /\ MaxDays \in Nat /\ MaxTime \in Nat /\ MaxDataset \in Nat
    /\ CarefulGovernance \in BOOLEAN
    /\ SystemMaxCpu \in Nat /\ SystemMaxNet \in Nat /\ WordModulus \in Nat \ {0}

\* The faulty oracles alone cannot reach a threshold.
ASSUME FaultyAssumption == \A t \in Thresholds : Cardinality(Faulty) < t

VARIABLES
    active,             \* resource_config_state.active
    threshold,          \* resource_config_state.oracle_consensus_threshold
    period_start,       \* resource_config_state.period_start
    submitting_oracles, \* resource_config_state.submitting_oracles
    inflation_transferred,
    distributions,      \* account_distributions_made is its domain; the value
                        \* at an id is the dataset that was paid out
    usage,              \* table ressysusage: oracle -> row
    datasets,           \* table resusagedata: hash -> dataset
    history,            \* last row of table reshistory
    sources,            \* table ressources: oracle -> score and count
    account_pay,        \* table resaccpay: account -> balance
    producer_pay,       \* table prodpay: producer -> balance
    supply,             \* supply of the core token
    bpay,               \* balance of eosio.bpay
    upay,               \* balance of eosio.upay
    ranking,            \* the order of the producers' votes
    schedule_size,      \* _gstate.last_producer_schedule_size
    now                 \* the clock

config == <<active, threshold, period_start, submitting_oracles,
            inflation_transferred, distributions>>
tokens == <<account_pay, producer_pay, supply, bpay, upay>>
chain == <<ranking, schedule_size, now>>
vars == <<config, usage, datasets, history, sources, tokens, chain>>

-----------------------------------------------------------------------------
(***************************************************************************)
(* Operators named Bug... are what a plausible slip in the code would make *)
(* of the definition that follows them; no specification uses them.        *)
(***************************************************************************)
BugPutOverwrites(f, k, v) == [x \in {k} |-> v]

\* f with the value v at k.
Put(f, k, v) == [x \in DOMAIN f \cup {k} |-> IF x = k THEN v ELSE f[x]]

BugVotersAtAnyId(u, k, h) ==
    {o \in DOMAIN u : \E i \in DOMAIN u[o].hashes : (i = 1 <=> k = 1) /\ u[o].hashes[i] = h}

\* The oracles whose k-th submission in the table u has hash h.
Voters(u, k, h) == {o \in DOMAIN u : k <= Len(u[o].hashes) /\ u[o].hashes[k] = h}

BugAgreedTooLate(u, k) == {h \in Hashes : Cardinality(Voters(u, k, h)) > threshold}

\* The hashes as many oracles agree on for the k-th submission as it takes.
Agreed(u, k) == {h \in Hashes : Cardinality(Voters(u, k, h)) >= threshold}

(***************************************************************************)
(* The modal hashes among them: the code scans a map ordered by hash and   *)
(* keeps the first with the highest count, here any with that count.       *)
(***************************************************************************)
Modal(u, k) == {h \in Agreed(u, k) : \A g \in Agreed(u, k) :
                    Cardinality(Voters(u, k, g)) <= Cardinality(Voters(u, k, h))}

BugTruncatedUp(n, d, m) == {q \in 0..(n * m) : (q - 1) * d < n * m /\ n * m <= q * d}

(***************************************************************************)
(* Results of double(n) / d * m converted to an integer, for d > 0.  The   *)
(* arguments are exact as doubles.  The quotient and the product are each  *)
(* rounded by at most 2^-53 of their value, up or down, so what is         *)
(* truncated is within 1/2^51 of the exact share: the result may be one    *)
(* short of it, or one above.  The quotient of equals is 1, without error. *)
(***************************************************************************)
Truncated(n, d, m) == {q \in 0..(2 * n * m) :
                          /\ q * d * Precision <= n * m * (Precision + 1)
                          /\ n * m * (Precision - 1) < (q + 1) * d * Precision
                          /\ n = d => q = m}

BugEarnedPayUp(bppay, count) == (bppay + count - 1) \div count

\* What each of count producers earns.
EarnedPay(bppay, count) == bppay \div count

BugPeriodUnchecked(p) == TRUE

\* The call names the period that is open.
IsOpenPeriod(p) == p = period_start

-----------------------------------------------------------------------------
\* The state initresource leaves when the history table is empty.
Init ==
    /\ active = FALSE
    /\ threshold \in Thresholds
    /\ period_start = 0
    /\ submitting_oracles = {}
    /\ inflation_transferred = FALSE
    /\ distributions = <<>>
    /\ usage = <<>>
    /\ datasets = <<>>
    /\ history = [daycount |-> 0, total_cpu_us |-> 0, utility_tokens |-> 0, bppay_tokens |-> 0]
    /\ sources = [o \in Oracles |-> [score |-> 0, count |-> 0]]
    /\ account_pay = [a \in Accounts |-> 0]
    /\ producer_pay = [o \in Oracles |-> 0]
    /\ supply = InitialSupply
    /\ bpay = 0
    /\ upay = 0
    /\ ranking \in Rankings
    /\ schedule_size = Cardinality(ranking.active)
    /\ now = 0

\* The totals t do not exceed what the system can give; net_words * 8 may
\* wrap around.
WithinSystem(t) ==
    /\ t.cpu <= SystemMaxCpu
    /\ (t.net * 8) % WordModulus <= SystemMaxNet

\* What set_total asks for before it computes the inflation of the totals t.
MaySetTotal(t) ==
    /\ history.daycount < MaxDays
    /\ WithinSystem(t)

BugSetTotalSameDay(t, m) == [daycount |-> history.daycount,
                             total_cpu_us |-> t.cpu,
                             utility_tokens |-> m.utility,
                             bppay_tokens |-> m.bppay]

\* The history row of set_total for the totals t, m being the results of the
\* inflation formula.
SetTotal(t, m) == [daycount |-> history.daycount + 1,
                   total_cpu_us |-> t.cpu,
                   utility_tokens |-> m.utility,
                   bppay_tokens |-> m.bppay]

(***************************************************************************)
(* set_total and issue_inflation: a history row for the totals t with the  *)
(* amounts m of the inflation formula, reduced to what the token's maximum *)
(* supply leaves, and the tokens issued and shared among the producers.    *)
(***************************************************************************)
IssueInflation(t, m) ==
    LET inflation == m.utility + m.bppay
        supply_remaining == MaxSupply - supply
        count == Cardinality(ranking.active)
    IN  /\ MaySetTotal(t)
        /\ inflation <= PeriodCap
        /\ supply_remaining > 0
        /\ count > 0
        /\ count = schedule_size
        /\ \E bppay \in IF inflation > supply_remaining
                        THEN Truncated(m.bppay, inflation, supply_remaining)
                        ELSE {m.bppay} :
             LET utility == IF inflation > supply_remaining
                            THEN supply_remaining - bppay
                            ELSE m.utility
             IN  /\ history' = [SetTotal(t, m) EXCEPT !.utility_tokens = utility,
                                                     !.bppay_tokens = bppay]
                 /\ supply' = supply + utility + bppay
                 /\ bpay' = bpay + bppay
                 /\ upay' = upay + utility
                 /\ producer_pay' = [o \in Oracles |->
                        IF o \in ranking.active THEN producer_pay[o] + EarnedPay(bppay, count)
                                                ELSE producer_pay[o]]

\* What settotalusg asks of a submission.
MaySetTotalUsg(source, t, p) ==
    /\ source \in ranking.oracles
    /\ active
    /\ IsOpenPeriod(p)
    /\ WithinSystem(t)
    /\ source \notin DOMAIN usage

\* settotalusg(source, t.cpu, t.net, commit, p)
SetTotalUsg(source, t, commit, p) ==
    LET row == [total |-> t, allocated |-> 0, hashes |-> <<TotalsHash(t)>>, commit |-> commit]
        u == Put(usage, source, row)
    IN  /\ MaySetTotalUsg(source, t, p)
        /\ usage' = u
        /\ submitting_oracles' = submitting_oracles \cup {source}
        /\ \/ /\ inflation_transferred \/ Agreed(u, 1) = {}
              /\ UNCHANGED <<inflation_transferred, history, supply, bpay, upay, producer_pay>>
           \/ /\ ~inflation_transferred
              /\ \E total \in Totals, m \in Amounts[history.daycount] :
                    /\ TotalsHash(total) \in Modal(u, 1)
                    /\ IssueInflation(total, m)
              /\ inflation_transferred' = TRUE
        /\ UNCHANGED <<active, threshold, period_start, distributions, datasets,
                       sources, account_pay, chain>>

\* With a total of zero the quotient for an account of dataset d is not finite
\* and its conversion to an amount traps.
MayCredit(d) == DOMAIN d.usage # {} => history.total_cpu_us > 0

\* The payout loop of addactusg: every account of dataset d is credited its
\* part of the period's utility tokens.
CreditAccounts(d) ==
    /\ MayCredit(d)
    /\ \E payout \in [DOMAIN d.usage ->
                        UNION {Truncated(d.usage[a], history.total_cpu_us, history.utility_tokens) :
                               a \in DOMAIN d.usage}] :
          /\ \A a \in DOMAIN d.usage :
                payout[a] \in Truncated(d.usage[a], history.total_cpu_us, history.utility_tokens)
          /\ account_pay' = [a \in Accounts |->
                IF a \in DOMAIN d.usage THEN account_pay[a] + payout[a] ELSE account_pay[a]]

BugFitsBelow(source, d) == DatasetCpu(d) < usage[source].total.cpu - usage[source].allocated

\* The oracle's datasets with d do not use more than its total.
FitsTotal(source, d) == DatasetCpu(d) <= usage[source].total.cpu - usage[source].allocated

\* What addactusg asks of a submission.
MayAddActUsg(source, dataset_id, d, p) ==
    /\ source \in ranking.oracles
    /\ active
    /\ Cardinality(DOMAIN d.usage) <= BatchSize
    /\ IsOpenPeriod(p)
    /\ inflation_transferred
    /\ source \in DOMAIN usage
    /\ dataset_id = Len(usage[source].hashes)
    /\ \A a \in DOMAIN d.usage : d.usage[a] > 0
    /\ FitsTotal(source, d)

\* ressysusage and resusagedata with the dataset d of an oracle.
UsageWith(source, d) == [usage EXCEPT ![source].allocated = @ + DatasetCpu(d),
                                      ![source].hashes = Append(@, DatasetHash(d))]
DatasetsWith(d) == IF DatasetHash(d) \in DOMAIN datasets
                   THEN datasets ELSE Put(datasets, DatasetHash(d), d)

\* addactusg(source, dataset_id, d, p)
AddActUsg(source, dataset_id, d, p) ==
    /\ MayAddActUsg(source, dataset_id, d, p)
    /\ LET u == UsageWith(source, d)
           table == DatasetsWith(d)
       IN  /\ usage' = u
           /\ datasets' = table
           /\ \/ /\ dataset_id \in DOMAIN distributions \/ Agreed(u, dataset_id + 1) = {}
                 /\ UNCHANGED <<distributions, account_pay>>
              \/ /\ dataset_id \notin DOMAIN distributions
                 /\ \E h \in Modal(u, dataset_id + 1) :
                       /\ CreditAccounts(table[h])
                       /\ distributions' = Put(distributions, dataset_id, table[h])
    /\ UNCHANGED <<active, threshold, period_start, submitting_oracles, inflation_transferred,
                   history, sources, producer_pay, supply, bpay, upay, chain>>

\* The oracles committed to c.
Committed(c) == {o \in submitting_oracles : usage[o].commit = c}

\* The oracles committed to c that have revealed what they committed to.
Revealed(c) == {o \in Committed(c) : usage[o].hashes = c}

BugPointsSwapped(o, c) == IF o \in Revealed(c) THEN 1
                          ELSE IF usage[o].hashes = usage[o].commit THEN 10 ELSE 0

\* Points nextperiod gives an oracle when c is the modal commitment.
Points(o, c) == IF o \in Revealed(c) THEN 10
                ELSE IF usage[o].hashes = usage[o].commit THEN 1 ELSE 0

BugRevealedByMore(c) ==
    /\ Cardinality(Committed(c)) >= threshold
    /\ \A b \in Commitments : Cardinality(Committed(b)) <= Cardinality(Committed(c))
    /\ Cardinality(Revealed(c)) > threshold

\* c is the modal commitment, and enough of those who made it have revealed.
MayClose(c) ==
    /\ Cardinality(Committed(c)) >= threshold
    /\ \A b \in Commitments : Cardinality(Committed(b)) <= Cardinality(Committed(c))
    /\ Cardinality(Revealed(c)) >= threshold

\* nextperiod()
NextPeriod ==
    /\ active
    /\ now >= period_start + PeriodSeconds
    /\ \E c \in Commitments :
          /\ MayClose(c)
          /\ sources' = [o \in Oracles |->
                IF o \in submitting_oracles
                THEN [score |-> sources[o].score + Points(o, c), count |-> sources[o].count + 1]
                ELSE sources[o]]
    /\ datasets' = <<>>
    /\ usage' = <<>>
    /\ submitting_oracles' = {}
    /\ period_start' = period_start + PeriodSeconds
    /\ inflation_transferred' = FALSE
    /\ distributions' = <<>>
    /\ UNCHANGED <<active, threshold, history, tokens, chain>>

\* claimdistrib(account)
ClaimDistrib(account) ==
    /\ account_pay[account] > 0
    /\ account_pay[account] <= upay
    /\ upay' = upay - account_pay[account]
    /\ account_pay' = [account_pay EXCEPT ![account] = 0]
    /\ UNCHANGED <<config, usage, datasets, history, sources, producer_pay, supply, bpay, chain>>

\* claimrewards(owner)
ClaimRewards(owner) ==
    /\ producer_pay[owner] > 0
    /\ producer_pay[owner] <= bpay
    /\ bpay' = bpay - producer_pay[owner]
    /\ producer_pay' = [producer_pay EXCEPT ![owner] = 0]
    /\ UNCHANGED <<config, usage, datasets, history, sources, account_pay, supply, upay, chain>>

\* resactivate(on)
ResActivate(on) ==
    /\ active # on
    /\ active' = on
    /\ UNCHANGED <<threshold, period_start, submitting_oracles, inflation_transferred,
                   distributions, usage, datasets, history, sources, tokens, chain>>

\* initresource(..., t, start, ...) once there is a history
InitResource(t, start) ==
    /\ threshold' = t
    /\ period_start' = start
    /\ active' = FALSE
    /\ UNCHANGED <<submitting_oracles, inflation_transferred, distributions, usage,
                   datasets, history, sources, tokens, chain>>

-----------------------------------------------------------------------------
(***************************************************************************)
(* The callers.  An honest oracle reports what is true of the period it    *)
(* names, whichever period is open when its transaction executes.          *)
(***************************************************************************)
HonestTotals(o) == \E p \in Starts : SetTotalUsg(o, Reports[p].total, FullHashList(p), p)

HonestDataset(o) == \E p \in Starts : \E i \in 1..Len(Reports[p].data) :
                        AddActUsg(o, i, Reports[p].data[i], p)

FaultyTotals(o) == \E t \in Totals, c \in Commitments, p \in Starts : SetTotalUsg(o, t, c, p)

FaultyDataset(o) == \E d \in Datasets, i \in 1..MaxDataset, p \in Starts : AddActUsg(o, i, d, p)

(***************************************************************************)
(* initresource accepts any arguments at any time.  Careful governance     *)
(* changes the threshold or the start only before anything is submitted.   *)
(***************************************************************************)
Reinitialise == \E t \in Thresholds, start \in Starts :
    /\ CarefulGovernance /\ submitting_oracles # {} => t = threshold /\ start = period_start
    /\ InitResource(t, start)

\* The votes change the order of the producers (voting.cpp).
Vote(r) ==
    /\ ranking' = r
    /\ UNCHANGED <<config, usage, datasets, history, sources, tokens, schedule_size, now>>

\* update_elected_producers: a schedule never has fewer producers than the last.
UpdateElectedProducers ==
    /\ ranking.active # {}
    /\ Cardinality(ranking.active) >= schedule_size
    /\ schedule_size' = Cardinality(ranking.active)
    /\ UNCHANGED <<config, usage, datasets, history, sources, tokens, ranking, now>>

Tick ==
    /\ now < MaxTime
    /\ now' = now + 1
    /\ UNCHANGED <<config, usage, datasets, history, sources, tokens, ranking, schedule_size>>

Next ==
    \/ \E o \in Honest : HonestTotals(o) \/ HonestDataset(o)
    \/ \E o \in Faulty : FaultyTotals(o) \/ FaultyDataset(o)
    \/ NextPeriod
    \/ \E a \in Accounts : ClaimDistrib(a)
    \/ \E o \in Oracles : ClaimRewards(o)
    \/ \E on \in BOOLEAN : ResActivate(on)
    \/ Reinitialise
    \/ \E r \in Rankings : Vote(r)
    \/ UpdateElectedProducers
    \/ Tick

Spec == Init /\ [][Next]_vars

(***************************************************************************)
(* Honest oracles keep submitting, anyone who cares calls nextperiod, and  *)
(* time passes.  Nothing is assumed of governance, voters and claimants.   *)
(***************************************************************************)
Fairness ==
    /\ \A o \in Honest : WF_vars(HonestTotals(o) \/ HonestDataset(o))
    /\ WF_vars(NextPeriod)
    /\ WF_vars(Tick)

FairSpec == Spec /\ Fairness

-----------------------------------------------------------------------------
UsageRows == [total : Totals, allocated : Nat, hashes : Seq(Hashes), commit : Seq(Hashes)]

\* The tables and the configuration hold values of the types they declare,
\* and a row of ressysusage exists exactly for the submitting oracles, which
\* the loops over submitting_oracles rely on when they dereference find().
TypeOK ==
    /\ active \in BOOLEAN
    /\ threshold \in Thresholds
    /\ period_start \in Nat
    /\ submitting_oracles \subseteq Oracles
    /\ inflation_transferred \in BOOLEAN
    /\ DOMAIN distributions \subseteq Nat
    /\ \A k \in DOMAIN distributions : distributions[k] \in Datasets
    /\ usage \in [submitting_oracles -> UsageRows]
    /\ DOMAIN datasets \subseteq Hashes
    /\ \A h \in DOMAIN datasets : datasets[h] \in Datasets
    /\ history \in [daycount : Nat, total_cpu_us : Nat, utility_tokens : Nat, bppay_tokens : Nat]
    /\ sources \in [Oracles -> [score : Nat, count : Nat]]
    /\ account_pay \in [Accounts -> Nat]
    /\ producer_pay \in [Oracles -> Nat]
    /\ supply \in 0..MaxSupply
    /\ bpay \in Nat
    /\ upay \in Nat
    /\ ranking \in Rankings
    /\ schedule_size \in Nat
    /\ now \in 0..MaxTime

\* What settotalusg pays inflation for is what is true of the period,
\* whatever the faulty oracles report and in whatever order.
InflationIsTrue ==
    inflation_transferred =>
        /\ period_start \in Starts
        /\ history.total_cpu_us = Reports[period_start].total.cpu

\* Every dataset addactusg has paid out is, up to its text, the one that is
\* true of the period under that id.
DistributionsAreTrue ==
    \A k \in DOMAIN distributions :
        /\ period_start \in Starts
        /\ k \in 1..Len(Reports[period_start].data)
        /\ distributions[k].text = Reports[period_start].data[k].text

(***************************************************************************)
(* What makes the two inductive.                                           *)
(***************************************************************************)
\* The row of an honest oracle is the beginning of the open period's report.
HonestRowsAreTrue ==
    \A o \in Honest \cap DOMAIN usage :
        /\ period_start \in Starts
        /\ usage[o].commit = FullHashList(period_start)
        /\ Len(usage[o].hashes) \in 1..Len(FullHashList(period_start))
        /\ \A i \in 1..Len(usage[o].hashes) :
                usage[o].hashes[i] = FullHashList(period_start)[i]

\* find() by a submitted hash finds a dataset with that hash.
DatasetsAreStored ==
    /\ \A h \in DOMAIN datasets : DatasetHash(datasets[h]) = h
    /\ \A o \in DOMAIN usage : \A i \in 2..Len(usage[o].hashes) :
            usage[o].hashes[i] \in DOMAIN datasets

\* Only submissions cause payments.
PaymentsNeedSubmissions ==
    inflation_transferred \/ DOMAIN distributions # {} => submitting_oracles # {}

\* An agreement is acted upon in the transaction that completes it.
AgreementsAreServed ==
    /\ Agreed(usage, 1) # {} => inflation_transferred
    /\ \A o \in DOMAIN usage : \A k \in 2..Len(usage[o].hashes) :
            Agreed(usage, k) # {} => k - 1 \in DOMAIN distributions

\* The inductive invariant of the consensus between the oracles.
ConsensusInv ==
    /\ InflationIsTrue
    /\ DistributionsAreTrue
    /\ HonestRowsAreTrue
    /\ DatasetsAreStored
    /\ PaymentsNeedSubmissions
    /\ AgreementsAreServed

\* The balances claimdistrib owes do not exceed what eosio.upay holds.
UpaySolvent == SumFunction(account_pay) <= upay

\* The balances claimrewards owes never exceed what eosio.bpay holds.
BpaySolvent == SumFunction(producer_pay) <= bpay

\* The step erases the submissions of a period.
ClosesPeriod == usage # <<>> /\ usage' = <<>>

\* A step that closes a period finds it paid out in full.
ClosesPaidPeriod ==
    ClosesPeriod => /\ inflation_transferred
                    /\ DOMAIN distributions = 1..Len(Reports[period_start].data)

\* When nextperiod closes a period, its inflation has been issued and every
\* dataset of it, and no other, has been paid out.
AdvanceIsComplete == [][ClosesPaidPeriod]_vars

(***************************************************************************)
(* What the oracles do together is what Periods promises of one that knows *)
(* the truth: whatever is submitted, forged, late or never sent, each step *)
(* is a step of Periods or changes nothing that Periods speaks of.         *)
(***************************************************************************)
issuedTotals == IF inflation_transferred THEN {history.total_cpu_us} ELSE {}
paidTexts == [k \in DOMAIN distributions |-> distributions[k].text]

Truth == INSTANCE Periods WITH start <- period_start, issued <- issuedTotals,
                               paid <- paidTexts, days <- history.daycount

\* settotalusg, addactusg and nextperiod pay for each period, in order and
\* once, its true total and its true datasets, and nothing else.
ImplementsPeriods == Truth!Spec

\* The step that closes a period gives 10 points to each honest oracle that
\* has sent everything, and to no oracle that has sent anything but the truth.
ScoresTruth ==
    ClosesPeriod =>
        /\ \A o \in Honest \cap DOMAIN usage :
                usage[o].hashes = FullHashList(period_start) =>
                    sources'[o].score = sources[o].score + 10
        /\ \A o \in Oracles :
                sources'[o].score >= sources[o].score + 10 =>
                    o \in DOMAIN usage /\ usage[o].hashes = FullHashList(period_start)

\* nextperiod gives full marks to every honest oracle that has sent all its
\* data, whatever the faulty ones have committed to, and no faulty oracle
\* gets them but by sending the same.
HonestScore == [][ScoresTruth]_vars

\* Once the inflation of a period is issued no honest oracle's submission is
\* refused: settotalusg takes its totals, addactusg its next dataset, and
\* paying for that does not trap, until it has sent everything.
HonestAreAccepted ==
    inflation_transferred /\ active =>
        \A o \in Honest \cap ranking.oracles :
            \/ MaySetTotalUsg(o, Reports[period_start].total, period_start)
            \/ /\ o \in DOMAIN usage
               /\ usage[o].hashes = FullHashList(period_start)
            \/ \E i \in DOMAIN Reports[period_start].data :
                  LET d == Reports[period_start].data[i]
                  IN  /\ MayAddActUsg(o, i, d, period_start)
                      /\ i \notin DOMAIN distributions =>
                            \A h \in Agreed(UsageWith(o, d), i + 1) :
                                h \in DOMAIN DatasetsWith(d) /\ MayCredit(DatasetsWith(d)[h])

\* When the honest oracles have sent everything, nextperiod finds a consensus,
\* whatever the faulty ones have committed to, sent or withheld.
HonestSuffice ==
    (\A o \in Honest : o \in DOMAIN usage /\ usage[o].hashes = FullHashList(period_start)) =>
        \E c \in Commitments : MayClose(c)

\* Account distributions belong to an inflation that has been transferred and
\* is not issued again.
DistributionsFollowInflation == DOMAIN distributions # {} => inflation_transferred

\* A dataset id counts as distributed only while some oracle's list holds the
\* paid hash at that id.
DistributionsAreSubmitted ==
    \A k \in DOMAIN distributions :
        Voters(usage, k + 1, DatasetHash(distributions[k])) # {}

\* Whatever governance re-initialises amid a period, what is paid in it follows
\* its inflation and is still submitted.
DistributionsAreBacked == DistributionsFollowInflation /\ DistributionsAreSubmitted

\* The model is active, the honest oracles are ranked, and the schedule has as
\* many active producers as set_total asks for.
CommitteeIsReady ==
    /\ active
    /\ Honest \subseteq ranking.oracles
    /\ ranking.active # {}
    /\ Cardinality(ranking.active) = schedule_size

\* issue_inflation may refuse the totals of the open period for good: the
\* token's maximum supply is issued, or the formula's amount is over the cap.
InflationIsRefused ==
    \/ supply = MaxSupply
    \/ /\ ~inflation_transferred
       /\ \E m \in Amounts[history.daycount] : m.utility + m.bppay > PeriodCap

\* If votes and governance leave a committee in place that can work, however
\* late, honest oracles suffice to move the period on, until the reports or the
\* days of inflation are used up, or settotalusg fails whenever a submission
\* completes an agreement because issue_inflation cannot issue the tokens.
PeriodsAdvance ==
    <>[]CommitteeIsReady =>
        <>(\/ period_start \notin Starts
           \/ history.daycount = MaxDays
           \/ InflationIsRefused)

\* resource.hpp, account_distributions_made: the datasets that "have reached
\* consensus and been distributed".  What is paid under an id is the usage the
\* honest oracles of the agreement submitted, and not only its text.
ConsensusDataIsPaid ==
    \A k \in DOMAIN distributions :
        distributions[k].usage = Reports[period_start].data[k].usage

\* As long as addactusg pays the datasets agreed on, no claimdistrib can fail
\* for lack of funds: what all the payouts of all periods credit, each rounded
\* up or down as it comes, never exceeds what was issued to eosio.upay.
UpayIsSolvent == []ConsensusDataIsPaid => []UpaySolvent

\* resource.cpp, nextperiod: "called by anyone from 48hrs after the current
\* period start".  One tick of the clock is 24 hours.
NextPeriodAfter48Hours ==
    [][ClosesPeriod => now >= period_start + 2]_vars

\* resource.cpp, settotalusg: "check submissions are within system limits".
SubmissionsAreWithinLimits ==
    \A o \in DOMAIN usage : usage[o].total.net * 8 <= SystemMaxNet
=============================================================================
