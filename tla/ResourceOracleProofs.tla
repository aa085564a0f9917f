------------------------ MODULE ResourceOracleProofs ------------------------
(***************************************************************************)
(* Proofs about ResourceOracle for every choice of its constants: type     *)
(* correctness; that no faulty oracle can change what is paid; what is     *)
(* left of that when governance re-initialises amid a period; that the     *)
(* oracles together implement Periods; that what claimrewards and          *)
(* claimdistrib owe is always there; and that no faulty oracle can have    *)
(* honest ones refused, keep the period from closing or take their scores. *)
(***************************************************************************)
EXTENDS ResourceOracle, Sums, SequenceTheorems

-----------------------------------------------------------------------------
(* The operators. *)

\* The usage in a dataset is that of finitely many accounts.
LEMMA DatasetUsage ==
    ASSUME NEW d \in Datasets
    PROVE  /\ IsFiniteSet(DOMAIN d.usage) /\ DOMAIN d.usage \subseteq Accounts
           /\ \A a \in DOMAIN d.usage : d.usage[a] \in Nat
      BY ConstantsAssumption, FS_Subset

LEMMA DatasetCpuIsNat == \A d \in Datasets : DatasetCpu(d) \in Nat
      BY DatasetUsage, SumNat DEF DatasetCpu, SumFunction

\* A set of oracles as large as a threshold has an honest member.
LEMMA QuorumHasHonest ==
    ASSUME NEW S \in SUBSET Oracles, NEW t \in Thresholds, Cardinality(S) >= t
    PROVE  \E o \in S : o \in Honest
<1>1. IsFiniteSet(Oracles) /\ Faulty \subseteq Oracles /\ t \in Nat
      BY ConstantsAssumption
<1>2. IsFiniteSet(Faulty)
      BY <1>1, FS_Subset
<1>3. Cardinality(Faulty) \in Nat /\ Cardinality(Faulty) < t
      BY <1>2, FS_CardinalityType, FaultyAssumption
<1>4. CASE S \subseteq Faulty
  <2>1. IsFiniteSet(S) /\ Cardinality(S) <= Cardinality(Faulty)
        BY <1>2, <1>4, FS_Subset
  <2>2. Cardinality(S) \in Nat
        BY <2>1, FS_CardinalityType
  <2>. QED BY <1>1, <1>3, <2>1, <2>2
<1>5. CASE ~(S \subseteq Faulty)
      BY <1>5 DEF Honest
<1>. QED BY <1>4, <1>5

\* An agreed hash is one that some honest oracle has submitted.
LEMMA AgreedHasHonest ==
    ASSUME NEW u, DOMAIN u \subseteq Oracles, NEW k, NEW h \in Agreed(u, k),
           threshold \in Thresholds
    PROVE  \E o \in Voters(u, k, h) : o \in Honest
<1>1. Voters(u, k, h) \in SUBSET Oracles
      BY DEF Voters
<1>2. Cardinality(Voters(u, k, h)) >= threshold
      BY DEF Agreed
<1>. QED BY <1>1, <1>2, QuorumHasHonest

\* The totals' hash is first in an honest oracle's list, the datasets follow.
LEMMA FullHashListFacts ==
    ASSUME NEW p \in Starts
    PROVE  /\ FullHashList(p) \in Seq(Hashes)
           /\ Len(FullHashList(p)) = 1 + Len(Reports[p].data)
           /\ FullHashList(p)[1] = TotalsHash(Reports[p].total)
           /\ \A i \in 1..Len(Reports[p].data) :
                 FullHashList(p)[i + 1] = DatasetHash(Reports[p].data[i])
<1>1. Reports[p].total \in Totals /\ Reports[p].data \in Seq(Datasets)
      BY ConstantsAssumption
<1>2. Len(Reports[p].data) \in Nat
      BY <1>1
<1>3. \A i \in 1..(Len(Reports[p].data) + 1) : FullHashList(p)[i] \in Hashes
      BY <1>1, <1>2 DEF FullHashList, Hashes
<1>4. FullHashList(p) \in Seq(Hashes) /\ Len(FullHashList(p)) = 1 + Len(Reports[p].data)
  <2>1. FullHashList(p) \in [1..(Len(Reports[p].data) + 1) -> Hashes]
        BY <1>3 DEF FullHashList
  <2>2. FullHashList(p) \in Seq(Hashes)
        BY <1>2, <2>1, SeqDef
  <2>3. DOMAIN FullHashList(p) = 1..(Len(Reports[p].data) + 1)
        BY <2>1
  <2>. QED BY <1>2, <2>2, <2>3, LenProperties
<1>. QED BY <1>2, <1>4 DEF FullHashList

\* Every commitment is a list of hashes.
LEMMA CommitmentsType == \A c \in Commitments : c \in Seq(Hashes)
<1>1. \A p \in Starts : FullHashList(p) \in Seq(Hashes)
      BY FullHashListFacts
<1>2. <<>> \in Seq(Hashes)
      OBVIOUS
<1>. QED BY <1>1, <1>2 DEF Commitments

\* What is less than one more is not more.
LEMMA WithinOne ==
    ASSUME NEW a \in Int, NEW b \in Int, NEW D \in Nat, NEW e \in Int,
           (a - b) * D <= e, e < D
    PROVE  a <= b
<1>1. SUFFICES ASSUME a - b >= 1 PROVE FALSE
      OBVIOUS
<1>2. PICK x \in Int : x = a - b
      OBVIOUS
<1>3. x * D >= D
      BY <1>1, <1>2
<1>. QED BY <1>2, <1>3

\* A truncated share of m is a natural number, and no more than m when the
\* share is no more than the whole: rounding up cannot gain a whole token of an
\* amount below the precision.
LEMMA TruncatedFacts ==
    ASSUME NEW n \in Nat, NEW d \in Nat, NEW m \in Nat, NEW q \in Truncated(n, d, m)
    PROVE  q \in Nat /\ (n <= d /\ d > 0 /\ m < Precision => q <= m)
<1>1. Precision \in Nat
      BY ConstantsAssumption
<1>2. q \in Nat /\ q * d * Precision <= n * m * (Precision + 1)
  <2>1. 2 * n * m \in Nat
        OBVIOUS
  <2>. QED BY <2>1 DEF Truncated
<1>3. ASSUME n <= d, d > 0, m < Precision
      PROVE  q <= m
  <2>1. (q - m) * (d * Precision) <= d * m
    <3>1. n * (m * (Precision + 1)) <= d * (m * (Precision + 1))
      <4>1. PICK x \in Nat : x = m * (Precision + 1)
            BY <1>1
      <4>. QED BY <1>3, <4>1
    <3>2. /\ n * m * (Precision + 1) = n * (m * (Precision + 1))
          /\ d * (m * (Precision + 1)) = m * (d * Precision) + d * m
          BY <1>1
    <3>3. q * d * Precision = q * (d * Precision)
          BY <1>1, <1>2
    <3>4. PICK D \in Nat : D = d * Precision
          BY <1>1
    <3>5. q * D <= m * D + d * m
      <4>1. PICK x \in Int, y \in Int : x = n * (m * (Precision + 1)) /\ y = d * (m * (Precision + 1))
            BY <1>1
      <4>. QED BY <1>2, <3>1, <3>2, <3>3, <3>4, <4>1
    <3>6. (q - m) * D = q * D - m * D
          BY <1>2
    <3>7. q * D \in Int /\ m * D \in Int /\ d * m \in Int
          BY <1>2
    <3>. QED BY <3>4, <3>5, <3>6, <3>7
  <2>2. d * m < d * Precision
    <3>1. PICK x \in Nat : x = Precision /\ m + 1 <= x
          BY <1>1, <1>3
    <3>2. d * (m + 1) <= d * x
          BY <1>3, <3>1
    <3>3. d * (m + 1) = d * m + d
          OBVIOUS
    <3>. QED BY <1>3, <3>1, <3>2, <3>3
  <2>. QED BY <1>1, <1>2, <2>1, <2>2, WithinOne
<1>. QED BY <1>2, <1>3

-----------------------------------------------------------------------------
(* Type correctness. *)

\* What the formula gives on a day on which inflation may be issued.
LEMMA AmountsType ==
    ASSUME TypeOK, NEW total, NEW m \in Amounts[history.daycount], IssueInflation(total, m)
    PROVE  m.utility \in Nat /\ m.bppay \in Nat
<1>1. history.daycount \in Nat /\ history.daycount < MaxDays /\ MaxDays \in Nat
      BY ConstantsAssumption DEF TypeOK, IssueInflation, MaySetTotal
<1>2. history.daycount \in 0..MaxDays
      BY <1>1
<1>. QED BY <1>2, ConstantsAssumption

\* issue_inflation: what it issues is shared between eosio.bpay, whose part the
\* active producers are to get, and eosio.upay.
LEMMA IssueMoves ==
    ASSUME TypeOK, NEW total \in Totals, NEW m \in Amounts[history.daycount], IssueInflation(total, m)
    PROVE  \E utility \in Nat, bppay \in Nat, count \in Nat \ {0} :
              /\ count = Cardinality(ranking.active)
              /\ utility + bppay <= MaxSupply - supply
              /\ utility <= PeriodCap
              /\ history' = [daycount |-> history.daycount + 1, total_cpu_us |-> total.cpu,
                             utility_tokens |-> utility, bppay_tokens |-> bppay]
              /\ supply' = supply + utility + bppay
              /\ bpay' = bpay + bppay
              /\ upay' = upay + utility
              /\ producer_pay' = [o \in Oracles |->
                    IF o \in ranking.active THEN producer_pay[o] + EarnedPay(bppay, count)
                                            ELSE producer_pay[o]]
<1>1. /\ m.utility \in Nat /\ m.bppay \in Nat /\ total.cpu \in Nat /\ MaxSupply \in Nat
      /\ PeriodCap \in Nat /\ Precision \in Nat /\ PeriodCap < Precision
      BY AmountsType, ConstantsAssumption
<1>2. /\ supply \in 0..MaxSupply /\ bpay \in Nat /\ upay \in Nat
      /\ producer_pay \in [Oracles -> Nat] /\ history.daycount \in Nat /\ schedule_size \in Nat
      BY DEF TypeOK
<1>. DEFINE inflation == m.utility + m.bppay
            left == MaxSupply - supply
            count == Cardinality(ranking.active)
<1>3. left \in Nat /\ left > 0 /\ count \in Nat /\ count > 0 /\ inflation <= PeriodCap
      BY <1>1, <1>2 DEF IssueInflation
<1>4. PICK bppay \in IF inflation > left THEN Truncated(m.bppay, inflation, left)
                                         ELSE {m.bppay} :
         LET utility == IF inflation > left THEN left - bppay ELSE m.utility
         IN  /\ history' = [SetTotal(total, m) EXCEPT !.utility_tokens = utility,
                                                     !.bppay_tokens = bppay]
             /\ supply' = supply + utility + bppay
             /\ bpay' = bpay + bppay
             /\ upay' = upay + utility
             /\ producer_pay' = [o \in Oracles |->
                    IF o \in ranking.active THEN producer_pay[o] + EarnedPay(bppay, count)
                                            ELSE producer_pay[o]]
      BY Zenon DEF IssueInflation
<1>. DEFINE utility == IF inflation > left THEN left - bppay ELSE m.utility
<1>5. bppay \in Nat /\ utility \in Nat /\ utility + bppay <= left /\ utility <= PeriodCap
  <2>1. CASE inflation > left
    <3>1. bppay \in Truncated(m.bppay, inflation, left)
          BY <1>4, <2>1
    <3>2. inflation \in Nat /\ m.bppay <= inflation /\ inflation > 0 /\ left < Precision
          BY <1>1, <1>3, <2>1
    <3>3. bppay \in Nat /\ bppay <= left
      <4>. HIDE DEF inflation, left
      <4>. QED BY <1>1, <1>3, <3>1, <3>2, TruncatedFacts
    <3>4. utility = left - bppay /\ left <= PeriodCap
          BY <1>1, <1>3, <2>1
    <3>. HIDE DEF utility, inflation, left
    <3>. QED BY <1>1, <1>3, <3>3, <3>4
  <2>2. CASE ~(inflation > left)
        BY <1>1, <1>3, <1>4, <2>2
  <2>. QED BY <2>1, <2>2
<1>6. EarnedPay(bppay, count) \in Nat
  <2>. HIDE DEF count
  <2>. QED BY <1>3, <1>5 DEF EarnedPay
<1>7. history' = [SetTotal(total, m) EXCEPT !.utility_tokens = utility, !.bppay_tokens = bppay]
      BY <1>4
<1>8. producer_pay' = [o \in Oracles |->
          IF o \in ranking.active THEN producer_pay[o] + EarnedPay(bppay, count)
                                  ELSE producer_pay[o]]
      BY <1>4
<1>9. supply' = supply + utility + bppay /\ bpay' = bpay + bppay /\ upay' = upay + utility
      BY <1>4
<1>10. supply \in Nat /\ supply <= MaxSupply /\ bpay \in Nat /\ upay \in Nat
      BY <1>1, <1>2
<1>. HIDE DEF utility, count
<1>11. history' = [daycount |-> history.daycount + 1, total_cpu_us |-> total.cpu,
                  utility_tokens |-> utility, bppay_tokens |-> bppay]
      BY <1>7 DEF SetTotal
<1>. HIDE DEF inflation, left
<1>12. utility + bppay <= MaxSupply - supply
       BY <1>5 DEF left
<1>13. count = Cardinality(ranking.active) /\ count \in Nat \ {0}
       BY <1>3 DEF count
<1>. QED BY <1>5, <1>8, <1>9, <1>11, <1>12, <1>13

\* settotalusg keeps the tables well formed.
LEMMA SetTotalUsgType ==
    ASSUME TypeOK, DatasetsAreStored,
           NEW source \in Oracles, NEW t \in Totals, NEW commit \in Seq(Hashes), NEW p,
           SetTotalUsg(source, t, commit, p)
    PROVE  TypeOK' /\ DatasetsAreStored'
<1>. DEFINE row == [total |-> t, allocated |-> 0, hashes |-> <<TotalsHash(t)>>, commit |-> commit]
<1>1. <<TotalsHash(t)>> \in Seq(Hashes) /\ Len(<<TotalsHash(t)>>) = 1
  <2>1. TotalsHash(t) \in Hashes
        BY DEF Hashes
  <2>. QED BY <2>1
<1>2. row \in UsageRows
      BY <1>1 DEF UsageRows
<1>3. usage' = Put(usage, source, row) /\ submitting_oracles' = submitting_oracles \cup {source}
      BY DEF SetTotalUsg
<1>4. usage' \in [submitting_oracles' -> UsageRows] /\ submitting_oracles' \subseteq Oracles
      BY <1>2, <1>3 DEF TypeOK, Put
<1>5. DatasetsAreStored'
  <2>1. datasets' = datasets
        BY DEF SetTotalUsg
  <2>2. ASSUME NEW o \in DOMAIN usage', NEW i \in 2..Len(usage'[o].hashes)
        PROVE  usage'[o].hashes[i] \in DOMAIN datasets
    <3>1. CASE o = source
      <4>1. usage'[o] = row
            BY <1>3, <3>1 DEF Put
      <4>2. Len(usage'[o].hashes) = 1
            BY <1>1, <4>1
      <4>. QED BY <2>2, <4>2
    <3>2. CASE o # source
      <4>1. o \in DOMAIN usage /\ usage'[o] = usage[o]
            BY <1>3, <2>2, <3>2 DEF Put
      <4>. QED BY <2>2, <4>1 DEF DatasetsAreStored
    <3>. QED BY <3>1, <3>2
  <2>. QED BY <2>1, <2>2 DEF DatasetsAreStored
<1>6. /\ inflation_transferred' \in BOOLEAN
      /\ history' \in [daycount : Nat, total_cpu_us : Nat, utility_tokens : Nat, bppay_tokens : Nat]
      /\ producer_pay' \in [Oracles -> Nat]
      /\ supply' \in 0..MaxSupply
      /\ bpay' \in Nat
      /\ upay' \in Nat
  <2>1. CASE UNCHANGED <<inflation_transferred, history, supply, bpay, upay, producer_pay>>
        BY <2>1 DEF TypeOK
  <2>2. ASSUME NEW total \in Totals, NEW m \in Amounts[history.daycount], IssueInflation(total, m)
        PROVE  /\ history' \in [daycount : Nat, total_cpu_us : Nat,
                                 utility_tokens : Nat, bppay_tokens : Nat]
               /\ producer_pay' \in [Oracles -> Nat]
               /\ supply' \in 0..MaxSupply
               /\ bpay' \in Nat
               /\ upay' \in Nat
    <3>1. total.cpu \in Nat /\ MaxSupply \in Nat
          BY ConstantsAssumption
    <3>2. /\ supply \in 0..MaxSupply /\ bpay \in Nat /\ upay \in Nat
          /\ producer_pay \in [Oracles -> Nat] /\ history.daycount \in Nat
          BY DEF TypeOK
    <3>3. PICK utility \in Nat, bppay \in Nat, count \in Nat \ {0} :
              /\ utility + bppay <= MaxSupply - supply
              /\ history' = [daycount |-> history.daycount + 1, total_cpu_us |-> total.cpu,
                             utility_tokens |-> utility, bppay_tokens |-> bppay]
              /\ supply' = supply + utility + bppay
              /\ bpay' = bpay + bppay
              /\ upay' = upay + utility
              /\ producer_pay' = [o \in Oracles |->
                    IF o \in ranking.active THEN producer_pay[o] + EarnedPay(bppay, count)
                                            ELSE producer_pay[o]]
          BY <2>2, IssueMoves
    <3>4. history' \in [daycount : Nat, total_cpu_us : Nat, utility_tokens : Nat, bppay_tokens : Nat]
      <4>1. PICK day \in Nat : day = history.daycount + 1
            BY <3>2
      <4>2. PICK cpu \in Nat : cpu = total.cpu
            BY <3>1
      <4>3. history' = [daycount |-> day, total_cpu_us |-> cpu,
                        utility_tokens |-> utility, bppay_tokens |-> bppay]
            BY <3>3, <4>1, <4>2
      <4>. QED BY <4>3
    <3>5. producer_pay' \in [Oracles -> Nat]
      <4>1. EarnedPay(bppay, count) \in Nat
            BY DEF EarnedPay
      <4>2. PICK pay \in Nat : pay = EarnedPay(bppay, count)
            BY <4>1
      <4>3. producer_pay' = [o \in Oracles |->
                IF o \in ranking.active THEN producer_pay[o] + pay ELSE producer_pay[o]]
            BY <3>3, <4>2
      <4>4. \A o \in Oracles : producer_pay[o] \in Nat /\ producer_pay[o] + pay \in Nat
            BY <3>2
      <4>. QED BY <4>3, <4>4
    <3>6. supply' \in 0..MaxSupply /\ bpay' \in Nat /\ upay' \in Nat
      <4>1. supply' = supply + utility + bppay /\ bpay' = bpay + bppay /\ upay' = upay + utility
            /\ utility + bppay <= MaxSupply - supply
            BY <3>3
      <4>. QED BY <3>1, <3>2, <4>1
    <3>. QED BY <3>4, <3>5, <3>6
  <2>. QED BY <2>1, <2>2 DEF SetTotalUsg, TypeOK
<1>. HIDE DEF row
<1>. QED BY <1>4, <1>5, <1>6 DEF TypeOK, SetTotalUsg, chain

\* What addactusg does to ressysusage and resusagedata.
LEMMA AddActUsgTables ==
    ASSUME TypeOK, DatasetsAreStored,
           NEW source \in Oracles, NEW d \in Datasets, NEW dataset_id \in Nat \ {0}, NEW p,
           AddActUsg(source, dataset_id, d, p)
    PROVE  /\ source \in DOMAIN usage
           /\ dataset_id = Len(usage[source].hashes) /\ dataset_id \in Nat
           /\ usage' \in [submitting_oracles -> UsageRows]
           /\ usage'[source].total = usage[source].total
           /\ usage'[source].commit = usage[source].commit
           /\ usage'[source].hashes = Append(usage[source].hashes, DatasetHash(d))
           /\ Len(usage'[source].hashes) = dataset_id + 1
           /\ \A i \in 1..dataset_id : usage'[source].hashes[i] = usage[source].hashes[i]
           /\ usage'[source].hashes[dataset_id + 1] = DatasetHash(d)
           /\ \A o \in submitting_oracles : o # source => usage'[o] = usage[o]
           /\ DOMAIN datasets' = DOMAIN datasets \cup {DatasetHash(d)}
           /\ DOMAIN datasets' \subseteq Hashes
           /\ \A h \in DOMAIN datasets' : datasets'[h] \in Datasets
           /\ DatasetsAreStored'
<1>. DEFINE sum == usage[source].allocated + DatasetCpu(d)
            list == Append(usage[source].hashes, DatasetHash(d))
            row == [usage[source] EXCEPT !.allocated = sum, !.hashes = list]
<1>1. source \in DOMAIN usage /\ dataset_id = Len(usage[source].hashes)
      BY DEF AddActUsg, MayAddActUsg
<1>2. usage[source] \in UsageRows /\ DOMAIN usage = submitting_oracles
      BY <1>1 DEF TypeOK
<1>3. usage[source].hashes \in Seq(Hashes) /\ dataset_id \in Nat
      BY <1>1, <1>2 DEF UsageRows
<1>4. DatasetHash(d) \in Hashes
      BY DEF Hashes
<1>5. /\ list \in Seq(Hashes) /\ Len(list) = dataset_id + 1
      /\ list[dataset_id + 1] = DatasetHash(d)
      /\ \A i \in 1..dataset_id : list[i] = usage[source].hashes[i]
      BY <1>1, <1>3, <1>4, AppendProperties
<1>6. sum \in Nat
      BY <1>2, DatasetCpuIsNat DEF UsageRows
<1>7. usage' = [usage EXCEPT ![source] = row]
      BY <1>1, <1>2 DEF AddActUsg, UsageWith, UsageRows
<1>8. row \in UsageRows /\ row.hashes = list
      /\ row.commit = usage[source].commit /\ row.total = usage[source].total
  <2>. HIDE DEF sum, list
  <2>. QED BY <1>2, <1>5, <1>6 DEF UsageRows
<1>9. /\ usage' \in [submitting_oracles -> UsageRows] /\ usage'[source] = row
      /\ \A o \in submitting_oracles : o # source => usage'[o] = usage[o]
  <2>. HIDE DEF row
  <2>. QED BY <1>1, <1>2, <1>7, <1>8 DEF TypeOK
<1>10. /\ DOMAIN datasets' = DOMAIN datasets \cup {DatasetHash(d)}
       /\ DOMAIN datasets' \subseteq Hashes
       /\ \A h \in DOMAIN datasets' : datasets'[h] \in Datasets /\ DatasetHash(datasets'[h]) = h
  <2>1. datasets' = IF DatasetHash(d) \in DOMAIN datasets
                    THEN datasets ELSE Put(datasets, DatasetHash(d), d)
        BY DEF AddActUsg, DatasetsWith
  <2>2. /\ DOMAIN datasets \subseteq Hashes
        /\ \A h \in DOMAIN datasets : datasets[h] \in Datasets /\ DatasetHash(datasets[h]) = h
        BY DEF TypeOK, DatasetsAreStored
  <2>. QED BY <1>4, <2>1, <2>2 DEF Put
<1>11. ASSUME NEW o \in DOMAIN usage', NEW i \in 2..Len(usage'[o].hashes)
       PROVE  usage'[o].hashes[i] \in DOMAIN datasets'
  <2>1. CASE o # source
        BY <1>2, <1>9, <1>10, <1>11, <2>1 DEF DatasetsAreStored
  <2>2. CASE o = source
    <3>1. usage'[o].hashes = list
          BY <1>8, <1>9, <2>2
    <3>2. CASE i = dataset_id + 1
          BY <1>5, <1>10, <3>1, <3>2
    <3>3. CASE i # dataset_id + 1
      <4>1. i \in 2..dataset_id
            BY <1>3, <1>5, <1>11, <3>1, <3>3
      <4>2. list[i] = usage[source].hashes[i]
            BY <1>3, <1>5, <4>1
      <4>. QED BY <1>1, <1>10, <3>1, <4>1, <4>2 DEF DatasetsAreStored
    <3>. QED BY <3>2, <3>3
  <2>. QED BY <2>1, <2>2
<1>12. DatasetsAreStored'
       BY <1>10, <1>11 DEF DatasetsAreStored
<1>. HIDE DEF row, list
<1>13. usage'[source].total = usage[source].total /\ usage'[source].commit = usage[source].commit
       /\ usage'[source].hashes = list
       BY <1>8, <1>9
<1>. QED BY <1>1, <1>3, <1>5, <1>9, <1>10, <1>12, <1>13 DEF list

\* A hash agreed on after the first submission is that of a stored dataset.
LEMMA AgreedIsStored ==
    ASSUME NEW u, NEW S, DOMAIN u \subseteq Oracles, threshold \in Thresholds,
           \A o \in DOMAIN u : \A i \in 2..Len(u[o].hashes) : u[o].hashes[i] \in S,
           \A o \in DOMAIN u : Len(u[o].hashes) \in Nat,
           NEW k \in Nat, k >= 2, NEW h \in Agreed(u, k)
    PROVE  h \in S
<1>1. PICK o \in Voters(u, k, h) : TRUE
      BY AgreedHasHonest
<1>2. o \in DOMAIN u /\ k <= Len(u[o].hashes) /\ u[o].hashes[k] = h
      BY <1>1 DEF Voters
<1>3. k \in 2..Len(u[o].hashes)
      BY <1>2
<1>. QED BY <1>2, <1>3

\* The dataset that addactusg pays for is stored.
LEMMA PaidIsStored ==
    ASSUME TypeOK, DatasetsAreStored,
           NEW source \in Oracles, NEW d \in Datasets, NEW dataset_id \in Nat \ {0}, NEW p,
           AddActUsg(source, dataset_id, d, p), NEW h \in Modal(usage', dataset_id + 1)
    PROVE  datasets'[h] \in Datasets
<1>1. /\ usage' \in [submitting_oracles -> UsageRows]
      /\ dataset_id \in Nat
      /\ \A g \in DOMAIN datasets' : datasets'[g] \in Datasets
      /\ DatasetsAreStored'
      BY AddActUsgTables
<1>2. h \in Agreed(usage', dataset_id + 1)
      BY DEF Modal
<1>3. /\ DOMAIN usage' \subseteq Oracles
      /\ \A o \in DOMAIN usage' : Len(usage'[o].hashes) \in Nat
  <2>1. DOMAIN usage' = submitting_oracles /\ submitting_oracles \subseteq Oracles
        BY <1>1 DEF TypeOK
  <2>2. \A o \in submitting_oracles : usage'[o].hashes \in Seq(Hashes)
        BY <1>1 DEF UsageRows
  <2>. QED BY <2>1, <2>2, LenProperties
<1>4. dataset_id + 1 >= 2 /\ dataset_id + 1 \in Nat
      OBVIOUS
<1>5. h \in DOMAIN datasets'
      BY <1>1, <1>2, <1>3, <1>4, AgreedIsStored DEF DatasetsAreStored, TypeOK
<1>. QED BY <1>1, <1>5

\* Crediting the accounts of a dataset keeps balances natural numbers.
LEMMA CreditAccountsType ==
    ASSUME TypeOK, NEW d \in Datasets, CreditAccounts(d)
    PROVE  account_pay' \in [Accounts -> Nat]
<1>1. PICK payout :
          /\ \A a \in DOMAIN d.usage :
                payout[a] \in Truncated(d.usage[a], history.total_cpu_us, history.utility_tokens)
          /\ account_pay' = [a \in Accounts |->
                IF a \in DOMAIN d.usage THEN account_pay[a] + payout[a] ELSE account_pay[a]]
      BY Zenon DEF CreditAccounts
<1>2. history.total_cpu_us \in Nat /\ history.utility_tokens \in Nat
      BY DEF TypeOK
<1>3. \A a \in DOMAIN d.usage : d.usage[a] \in Nat
      BY ConstantsAssumption
<1>4. \A a \in DOMAIN d.usage : payout[a] \in Nat
      BY <1>1, <1>2, <1>3, TruncatedFacts
<1>. QED BY <1>1, <1>4 DEF TypeOK

\* addactusg keeps the tables well formed.
LEMMA AddActUsgType ==
    ASSUME TypeOK, DatasetsAreStored,
           NEW source \in Oracles, NEW d \in Datasets, NEW dataset_id \in Nat \ {0}, NEW p,
           AddActUsg(source, dataset_id, d, p)
    PROVE  TypeOK' /\ DatasetsAreStored'
<1>1. /\ usage' \in [submitting_oracles -> UsageRows]
      /\ source \in DOMAIN usage /\ dataset_id = Len(usage[source].hashes)
      /\ dataset_id \in Nat
      /\ DOMAIN datasets' \subseteq Hashes
      /\ \A h \in DOMAIN datasets' : datasets'[h] \in Datasets
      /\ DatasetsAreStored'
      BY AddActUsgTables
<1>2. /\ DOMAIN distributions' \subseteq Nat
      /\ \A k \in DOMAIN distributions' : distributions'[k] \in Datasets
      /\ account_pay' \in [Accounts -> Nat]
  <2>1. CASE UNCHANGED <<distributions, account_pay>>
        BY <2>1 DEF TypeOK
  <2>2. ASSUME NEW h \in Modal(usage', dataset_id + 1),
               CreditAccounts(datasets'[h]),
               distributions' = Put(distributions, dataset_id, datasets'[h])
        PROVE  /\ DOMAIN distributions' \subseteq Nat
               /\ \A k \in DOMAIN distributions' : distributions'[k] \in Datasets
               /\ account_pay' \in [Accounts -> Nat]
    <3>1. datasets'[h] \in Datasets
          BY PaidIsStored
    <3>. QED BY <1>1, <2>2, <3>1, CreditAccountsType DEF TypeOK, Put
  <2>3. \/ UNCHANGED <<distributions, account_pay>>
        \/ \E h \in Modal(usage', dataset_id + 1) :
              /\ CreditAccounts(datasets'[h])
              /\ distributions' = Put(distributions, dataset_id, datasets'[h])
        BY DEF AddActUsg
  <2>. QED BY <2>1, <2>2, <2>3
<1>. QED BY <1>1, <1>2 DEF TypeOK, AddActUsg, chain

\* Next keeps the tables well formed.
LEMMA TypeStep ==
    ASSUME TypeOK, DatasetsAreStored, [Next]_vars
    PROVE  TypeOK' /\ DatasetsAreStored'
<1>. USE ConstantsAssumption
<1>1. ASSUME NEW o \in Honest, HonestTotals(o)
      PROVE  TypeOK' /\ DatasetsAreStored'
  <2>1. PICK p \in Starts : SetTotalUsg(o, Reports[p].total, FullHashList(p), p)
        BY <1>1 DEF HonestTotals
  <2>2. o \in Oracles /\ Reports[p].total \in Totals /\ FullHashList(p) \in Seq(Hashes)
        BY FullHashListFacts DEF Honest
  <2>. QED BY <2>1, <2>2, SetTotalUsgType
<1>2. ASSUME NEW o \in Honest, HonestDataset(o)
      PROVE  TypeOK' /\ DatasetsAreStored'
  <2>0. PICK p \in Starts : \E i \in 1..Len(Reports[p].data) :
            AddActUsg(o, i, Reports[p].data[i], p)
        BY <1>2 DEF HonestDataset
  <2>1. PICK i \in 1..Len(Reports[p].data) : AddActUsg(o, i, Reports[p].data[i], p)
        BY <2>0
  <2>2. o \in Oracles /\ Reports[p].data \in Seq(Datasets)
        BY DEF Honest
  <2>3. Reports[p].data[i] \in Datasets /\ i \in Nat \ {0}
        BY <2>2, ElementOfSeq, LenProperties
  <2>. QED BY <2>1, <2>2, <2>3, AddActUsgType
<1>3. ASSUME NEW o \in Faulty, FaultyTotals(o)
      PROVE  TypeOK' /\ DatasetsAreStored'
  <2>1. PICK t \in Totals, c \in Commitments, p \in Starts : SetTotalUsg(o, t, c, p)
        BY <1>3 DEF FaultyTotals
  <2>. QED BY <2>1, CommitmentsType, SetTotalUsgType
<1>4. ASSUME NEW o \in Faulty, FaultyDataset(o)
      PROVE  TypeOK' /\ DatasetsAreStored'
  <2>1. PICK d \in Datasets, i \in 1..MaxDataset, p \in Starts : AddActUsg(o, i, d, p)
        BY <1>4 DEF FaultyDataset
  <2>2. i \in Nat \ {0}
        OBVIOUS
  <2>. QED BY <2>1, <2>2, AddActUsgType
<1>5. CASE NextPeriod
  <2>1. PICK c : sources' = [o \in Oracles |->
                    IF o \in submitting_oracles
                    THEN [score |-> sources[o].score + Points(o, c),
                          count |-> sources[o].count + 1]
                    ELSE sources[o]]
        BY <1>5 DEF NextPeriod
  <2>2. \A o \in Oracles : Points(o, c) \in Nat
        BY DEF Points
  <2>3. sources' \in [Oracles -> [score : Nat, count : Nat]]
    <3>1. sources \in [Oracles -> [score : Nat, count : Nat]]
          BY DEF TypeOK
    <3>2. \A o \in Oracles :
             /\ sources[o] \in [score : Nat, count : Nat]
             /\ [score |-> sources[o].score + Points(o, c), count |-> sources[o].count + 1]
                    \in [score : Nat, count : Nat]
          BY <2>2, <3>1
    <3>. QED BY <2>1, <3>2
  <2>4. usage' = <<>> /\ datasets' = <<>> /\ distributions' = <<>> /\ submitting_oracles' = {}
        BY <1>5 DEF NextPeriod
  <2>5. /\ usage' \in [{} -> UsageRows]
        /\ DOMAIN usage' = {} /\ DOMAIN datasets' = {} /\ DOMAIN distributions' = {}
        BY <2>4
  <2>6. period_start' \in Nat /\ inflation_transferred' = FALSE
    <3>1. period_start' = period_start + PeriodSeconds /\ inflation_transferred' = FALSE
          BY <1>5, Zenon DEF NextPeriod
    <3>2. period_start \in Nat /\ PeriodSeconds \in Nat
          BY ConstantsAssumption DEF TypeOK
    <3>. QED BY <3>1, <3>2
  <2>7. UNCHANGED <<active, threshold, history, account_pay, producer_pay, supply, bpay, upay,
                    ranking, schedule_size, now>>
        BY <1>5 DEF NextPeriod, tokens, chain
  <2>. QED BY <2>3, <2>4, <2>5, <2>6, <2>7 DEF TypeOK, DatasetsAreStored
<1>6. ASSUME NEW a \in Accounts, ClaimDistrib(a)
      PROVE  TypeOK' /\ DatasetsAreStored'
  <2>1. upay' \in Nat
        BY <1>6 DEF ClaimDistrib, TypeOK
  <2>2. account_pay' \in [Accounts -> Nat]
        BY <1>6 DEF ClaimDistrib, TypeOK
  <2>3. UNCHANGED <<active, threshold, period_start, submitting_oracles, inflation_transferred,
                    distributions, usage, datasets, history, sources, producer_pay, supply, bpay,
                    ranking, schedule_size, now>>
        BY <1>6 DEF ClaimDistrib, config, chain
  <2>. QED BY <2>1, <2>2, <2>3 DEF TypeOK, DatasetsAreStored
<1>7. ASSUME NEW o \in Oracles, ClaimRewards(o)
      PROVE  TypeOK' /\ DatasetsAreStored'
  <2>1. bpay' \in Nat
        BY <1>7 DEF ClaimRewards, TypeOK
  <2>2. producer_pay' \in [Oracles -> Nat]
        BY <1>7 DEF ClaimRewards, TypeOK
  <2>3. UNCHANGED <<active, threshold, period_start, submitting_oracles, inflation_transferred,
                    distributions, usage, datasets, history, sources, account_pay, supply, upay,
                    ranking, schedule_size, now>>
        BY <1>7 DEF ClaimRewards, config, chain
  <2>. QED BY <2>1, <2>2, <2>3 DEF TypeOK, DatasetsAreStored
<1>8. ASSUME NEW on \in BOOLEAN, ResActivate(on)
      PROVE  TypeOK' /\ DatasetsAreStored'
      BY <1>8 DEF ResActivate, TypeOK, DatasetsAreStored, tokens, chain
<1>9. CASE Reinitialise
      BY <1>9 DEF Reinitialise, InitResource, TypeOK, DatasetsAreStored, tokens, chain
<1>10. ASSUME NEW r \in Rankings, Vote(r)
       PROVE  TypeOK' /\ DatasetsAreStored'
       BY <1>10 DEF Vote, TypeOK, DatasetsAreStored, config, tokens
<1>11. CASE UpdateElectedProducers
  <2>1. Cardinality(ranking.active) \in Nat
    <3>1. ranking.active \subseteq Oracles
          BY DEF TypeOK
    <3>. QED BY <3>1, FS_Subset, FS_CardinalityType
  <2>. QED BY <1>11, <2>1 DEF UpdateElectedProducers, TypeOK, DatasetsAreStored, config, tokens
<1>12. CASE Tick
       BY <1>12 DEF Tick, TypeOK, DatasetsAreStored, config, tokens
<1>13. CASE UNCHANGED vars
       BY <1>13 DEF vars, TypeOK, DatasetsAreStored, config, tokens, chain
<1>. QED BY <1>1, <1>2, <1>3, <1>4, <1>5, <1>6, <1>7, <1>8, <1>9, <1>10, <1>11, <1>12, <1>13
         DEF Next

\* The initial tables are well formed.
LEMMA TypeInit == Init => TypeOK /\ DatasetsAreStored
<1>. SUFFICES ASSUME Init PROVE TypeOK /\ DatasetsAreStored
     OBVIOUS
<1>1. schedule_size \in Nat
  <2>1. ranking.active \subseteq Oracles
        BY ConstantsAssumption DEF Init
  <2>. QED BY <2>1, FS_Subset, FS_CardinalityType, ConstantsAssumption DEF Init
<1>2. /\ usage \in [{} -> UsageRows]
      /\ DOMAIN usage = {} /\ DOMAIN datasets = {} /\ DOMAIN distributions = {}
      BY DEF Init
<1>3. /\ history \in [daycount : Nat, total_cpu_us : Nat, utility_tokens : Nat, bppay_tokens : Nat]
      /\ sources \in [Oracles -> [score : Nat, count : Nat]]
      /\ account_pay \in [Accounts -> Nat]
      /\ producer_pay \in [Oracles -> Nat]
      BY DEF Init
<1>4. /\ active \in BOOLEAN /\ threshold \in Thresholds /\ period_start \in Nat
      /\ submitting_oracles = {} /\ inflation_transferred \in BOOLEAN
      /\ bpay \in Nat /\ upay \in Nat /\ ranking \in Rankings
      BY DEF Init
<1>5. supply \in 0..MaxSupply /\ now \in 0..MaxTime
      BY ConstantsAssumption DEF Init
<1>6. TypeOK
      BY <1>1, <1>2, <1>3, <1>4, <1>5 DEF TypeOK
<1>7. DatasetsAreStored
      BY <1>2 DEF DatasetsAreStored
<1>. QED BY <1>6, <1>7

\* The tables and the configuration of the resource oracle are always well
\* typed, and ressysusage has a row exactly for every submitting oracle.
THEOREM TypeCorrect == Spec => []TypeOK
<1>1. Init => TypeOK /\ DatasetsAreStored
      BY TypeInit
<1>2. TypeOK /\ DatasetsAreStored /\ [Next]_vars => (TypeOK /\ DatasetsAreStored)'
      BY TypeStep
<1>. QED BY <1>1, <1>2, PTL DEF Spec
-----------------------------------------------------------------------------
(* The consensus. *)

\* Where nobody has submitted, nothing is agreed.
LEMMA NothingAgreed ==
    ASSUME NEW u, DOMAIN u = {}, NEW k, threshold \in Thresholds
    PROVE  Agreed(u, k) = {}
<1>1. ASSUME NEW h \in Agreed(u, k) PROVE FALSE
  <2>1. PICK o \in Voters(u, k, h) : TRUE
        BY AgreedHasHonest
  <2>. QED BY <2>1 DEF Voters
<1>. QED BY <1>1

\* The tables ConsensusInv speaks of.
ConsensusVars == <<threshold, period_start, submitting_oracles, inflation_transferred,
                   distributions, usage, datasets, history>>

LEMMA ConsensusUnchanged ==
    ASSUME ConsensusInv, UNCHANGED ConsensusVars
    PROVE  ConsensusInv'
<1>1. UNCHANGED <<threshold, period_start, submitting_oracles, inflation_transferred,
                  distributions, usage, datasets, history>>
      BY DEF ConsensusVars
<1>2. InflationIsTrue' /\ DistributionsAreTrue'
      BY <1>1 DEF ConsensusInv, InflationIsTrue, DistributionsAreTrue
<1>3. HonestRowsAreTrue' /\ DatasetsAreStored'
      BY <1>1 DEF ConsensusInv, HonestRowsAreTrue, DatasetsAreStored
<1>4. PaymentsNeedSubmissions' /\ AgreementsAreServed'
      BY <1>1 DEF ConsensusInv, PaymentsNeedSubmissions, AgreementsAreServed, Agreed
<1>. QED BY <1>2, <1>3, <1>4 DEF ConsensusInv

\* settotalusg keeps the consensus, if an honest caller tells the truth.
LEMMA SetTotalUsgConsensus ==
    ASSUME TypeOK, ConsensusInv,
           NEW source \in Oracles, NEW t \in Totals, NEW commit \in Seq(Hashes),
           NEW p \in Starts,
           source \in Honest => t = Reports[p].total /\ commit = FullHashList(p),
           SetTotalUsg(source, t, commit, p)
    PROVE  ConsensusInv'
<1>. DEFINE row == [total |-> t, allocated |-> 0, hashes |-> <<TotalsHash(t)>>, commit |-> commit]
<1>1. /\ usage' = Put(usage, source, row) /\ source \notin DOMAIN usage
      /\ submitting_oracles' = submitting_oracles \cup {source}
      /\ p = period_start
      /\ UNCHANGED <<threshold, period_start, distributions, datasets>>
      BY DEF SetTotalUsg, MaySetTotalUsg, IsOpenPeriod
<1>2. TypeOK' /\ DatasetsAreStored'
      BY SetTotalUsgType DEF ConsensusInv
<1>3. DOMAIN usage = submitting_oracles /\ DOMAIN usage' = DOMAIN usage \cup {source}
      /\ DOMAIN usage' \subseteq Oracles
      BY <1>1, <1>2 DEF TypeOK, Put
<1>4. /\ usage'[source].hashes = <<TotalsHash(t)>> /\ usage'[source].commit = commit
      /\ Len(usage'[source].hashes) = 1 /\ usage'[source].hashes[1] = TotalsHash(t)
      BY <1>1 DEF Put
<1>5. \A o \in DOMAIN usage : o # source /\ usage'[o] = usage[o]
      BY <1>1 DEF Put
<1>. HIDE DEF row
<1>6. HonestRowsAreTrue'
  <2>1. ASSUME NEW o \in Honest \cap DOMAIN usage'
        PROVE  /\ period_start' \in Starts
               /\ usage'[o].commit = FullHashList(period_start')
               /\ Len(usage'[o].hashes) \in 1..Len(FullHashList(period_start'))
               /\ \A i \in 1..Len(usage'[o].hashes) :
                     usage'[o].hashes[i] = FullHashList(period_start')[i]
    <3>1. CASE o = source
      <4>1. Len(FullHashList(p)) = 1 + Len(Reports[p].data) /\ Len(Reports[p].data) \in Nat
            /\ FullHashList(p)[1] = TotalsHash(Reports[p].total)
            BY FullHashListFacts, ConstantsAssumption
      <4>2. t = Reports[p].total /\ commit = FullHashList(p)
            BY <2>1, <3>1
      <4>0. Len(usage'[o].hashes) = 1
            BY <1>4, <3>1
      <4>3. Len(usage'[o].hashes) \in 1..Len(FullHashList(p))
            BY <4>0, <4>1
      <4>4. \A i \in 1..Len(usage'[o].hashes) : i = 1
            BY <4>0
      <4>. QED BY <1>1, <1>4, <3>1, <4>1, <4>2, <4>3, <4>4
    <3>2. CASE o # source
      <4>1. o \in Honest \cap DOMAIN usage /\ usage'[o] = usage[o]
            BY <1>3, <1>5, <3>2
      <4>. QED BY <1>1, <4>1 DEF ConsensusInv, HonestRowsAreTrue
    <3>. QED BY <3>1, <3>2
  <2>. QED BY <2>1 DEF HonestRowsAreTrue
<1>7. ASSUME NEW total \in Totals, TotalsHash(total) \in Modal(usage', 1)
      PROVE  total.cpu = Reports[period_start].total.cpu
  <2>1. TotalsHash(total) \in Agreed(usage', 1) /\ threshold \in Thresholds
        BY <1>7 DEF Modal, TypeOK
  <2>2. PICK o \in Voters(usage', 1, TotalsHash(total)) : o \in Honest
        BY <1>3, <2>1, AgreedHasHonest
  <2>3. o \in Honest \cap DOMAIN usage' /\ usage'[o].hashes[1] = TotalsHash(total)
        /\ 1 <= Len(usage'[o].hashes)
        BY <2>2 DEF Voters
  <2>4. usage'[o].hashes[1] = FullHashList(period_start)[1]
    <3>0. usage'[o] \in UsageRows
          BY <1>2, <2>3 DEF TypeOK
    <3>1. Len(usage'[o].hashes) \in Nat
          BY <3>0, LenProperties DEF UsageRows
    <3>. QED BY <1>1, <1>6, <2>3, <3>1 DEF HonestRowsAreTrue
  <2>5. TotalsHash(total) = TotalsHash(Reports[period_start].total)
        BY <1>1, <2>3, <2>4, FullHashListFacts
  <2>. QED BY <2>5 DEF TotalsHash
<1>8. InflationIsTrue'
  <2>1. CASE inflation_transferred
        BY <1>1, <2>1 DEF SetTotalUsg, ConsensusInv, InflationIsTrue
  <2>2. CASE ~inflation_transferred /\ ~inflation_transferred'
        BY <2>2 DEF InflationIsTrue
  <2>3. CASE ~inflation_transferred /\ inflation_transferred'
    <3>1. PICK total \in Totals, m \in Amounts[history.daycount] :
              TotalsHash(total) \in Modal(usage', 1) /\ IssueInflation(total, m)
          BY <2>3 DEF SetTotalUsg
    <3>2. history'.total_cpu_us = total.cpu
          BY <3>1 DEF IssueInflation, SetTotal
    <3>. QED BY <1>1, <1>7, <3>1, <3>2 DEF InflationIsTrue
  <2>4. inflation_transferred \in BOOLEAN /\ inflation_transferred' \in BOOLEAN
        BY <1>2 DEF TypeOK
  <2>. QED BY <2>1, <2>2, <2>3, <2>4
<1>9. DistributionsAreTrue'
      BY <1>1 DEF ConsensusInv, DistributionsAreTrue
<1>10. PaymentsNeedSubmissions'
       BY <1>1 DEF PaymentsNeedSubmissions
<1>11. AgreementsAreServed'
  <2>1. Agreed(usage', 1) # {} => inflation_transferred'
    <3>1. \/ inflation_transferred /\ inflation_transferred' = inflation_transferred
          \/ Agreed(Put(usage, source, row), 1) = {}
          \/ inflation_transferred' = TRUE
          BY Zenon DEF SetTotalUsg, row
    <3>. QED BY <1>1, <3>1
  <2>2. ASSUME NEW o \in DOMAIN usage', NEW k \in 2..Len(usage'[o].hashes),
               Agreed(usage', k) # {}
        PROVE  k - 1 \in DOMAIN distributions
    <3>0. o # source
      <4>1. 2..1 = {}
            OBVIOUS
      <4>. QED BY <1>4, <2>2, <4>1
    <3>1. o \in DOMAIN usage /\ usage'[o] = usage[o]
          BY <1>3, <1>5, <2>2, <3>0
    <3>2. ASSUME NEW h PROVE Voters(usage', k, h) = Voters(usage, k, h)
          BY <1>3, <1>4, <1>5, <2>2 DEF Voters
    <3>3. Agreed(usage', k) = Agreed(usage, k)
          BY <3>2 DEF Agreed
    <3>. QED BY <2>2, <3>1, <3>3 DEF ConsensusInv, AgreementsAreServed
  <2>. QED BY <1>1, <2>1, <2>2 DEF AgreementsAreServed, Agreed
<1>. QED BY <1>2, <1>6, <1>8, <1>9, <1>10, <1>11 DEF ConsensusInv

\* Dataset d is the one that is true of the period at p under the given id.
IsTrueDataset(p, dataset_id, d) ==
    dataset_id \in 1..Len(Reports[p].data) /\ d = Reports[p].data[dataset_id]

\* addactusg keeps the consensus, if an honest caller tells the truth.
LEMMA AddActUsgConsensus ==
    ASSUME TypeOK, ConsensusInv,
           NEW source \in Oracles, NEW d \in Datasets, NEW dataset_id \in Nat \ {0},
           NEW p \in Starts,
           source \in Honest => IsTrueDataset(p, dataset_id, d),
           AddActUsg(source, dataset_id, d, p)
    PROVE  ConsensusInv'
<1>1. /\ p = period_start /\ inflation_transferred
      /\ UNCHANGED <<threshold, period_start, submitting_oracles, inflation_transferred, history>>
      BY DEF AddActUsg, MayAddActUsg, IsOpenPeriod
<1>2. TypeOK' /\ DatasetsAreStored'
      BY AddActUsgType DEF ConsensusInv
<1>3. /\ source \in DOMAIN usage /\ dataset_id = Len(usage[source].hashes)
      /\ usage'[source].commit = usage[source].commit
      /\ Len(usage'[source].hashes) = dataset_id + 1
      /\ \A i \in 1..dataset_id : usage'[source].hashes[i] = usage[source].hashes[i]
      /\ usage'[source].hashes[dataset_id + 1] = DatasetHash(d)
      /\ \A o \in submitting_oracles : o # source => usage'[o] = usage[o]
  <2>1. DatasetsAreStored
        BY DEF ConsensusInv
  <2>. QED BY <2>1, AddActUsgTables
<1>4. DOMAIN usage = submitting_oracles /\ DOMAIN usage' = submitting_oracles
      /\ submitting_oracles \subseteq Oracles
      BY <1>1, <1>2 DEF TypeOK
<1>5. /\ Len(FullHashList(period_start)) = 1 + Len(Reports[period_start].data)
      /\ Len(Reports[period_start].data) \in Nat
      /\ \A i \in 1..Len(Reports[period_start].data) :
            FullHashList(period_start)[i + 1] = DatasetHash(Reports[period_start].data[i])
  <2>1. period_start \in Starts
        BY <1>1
  <2>2. Reports[period_start].data \in Seq(Datasets)
        BY <2>1, ConstantsAssumption
  <2>3. Len(Reports[period_start].data) \in Nat
        BY <2>2, LenProperties
  <2>. QED BY <2>1, <2>3, FullHashListFacts
<1>6. HonestRowsAreTrue'
  <2>1. ASSUME NEW o \in Honest \cap DOMAIN usage'
        PROVE  /\ period_start' \in Starts
               /\ usage'[o].commit = FullHashList(period_start')
               /\ Len(usage'[o].hashes) \in 1..Len(FullHashList(period_start'))
               /\ \A i \in 1..Len(usage'[o].hashes) :
                     usage'[o].hashes[i] = FullHashList(period_start')[i]
    <3>1. /\ period_start \in Starts
          /\ usage[o].commit = FullHashList(period_start)
          /\ Len(usage[o].hashes) \in 1..Len(FullHashList(period_start))
          /\ \A i \in 1..Len(usage[o].hashes) :
                usage[o].hashes[i] = FullHashList(period_start)[i]
          BY <1>4 DEF ConsensusInv, HonestRowsAreTrue
    <3>2. CASE o # source
          BY <1>1, <1>3, <1>4, <3>1, <3>2
    <3>3. CASE o = source
      <4>1. dataset_id \in 1..Len(Reports[period_start].data)
            /\ d = Reports[period_start].data[dataset_id]
            BY <1>1, <2>1, <3>3 DEF IsTrueDataset
      <4>2. FullHashList(period_start)[dataset_id + 1] = DatasetHash(d)
            BY <1>5, <4>1
      <4>3. Len(usage'[o].hashes) \in 1..Len(FullHashList(period_start))
            BY <1>3, <1>5, <3>3, <4>1
      <4>4. ASSUME NEW i \in 1..Len(usage'[o].hashes)
            PROVE  usage'[o].hashes[i] = FullHashList(period_start)[i]
        <5>1. CASE i = dataset_id + 1
              BY <1>3, <3>3, <4>2, <5>1
        <5>2. CASE i # dataset_id + 1
          <6>1. i \in 1..dataset_id
                BY <1>3, <3>3, <4>4, <5>2
          <6>. QED BY <1>3, <3>1, <3>3, <6>1
        <5>. QED BY <5>1, <5>2
      <4>. QED BY <1>1, <1>3, <3>1, <3>3, <4>3, <4>4
    <3>. QED BY <3>2, <3>3
  <2>. QED BY <2>1 DEF HonestRowsAreTrue
<1>7. ASSUME NEW h \in Modal(usage', dataset_id + 1)
      PROVE  /\ dataset_id \in 1..Len(Reports[period_start].data)
             /\ datasets'[h].text = Reports[period_start].data[dataset_id].text
  <2>1. h \in Agreed(usage', dataset_id + 1) /\ threshold \in Thresholds
        BY DEF Modal, TypeOK
  <2>2. PICK o \in Voters(usage', dataset_id + 1, h) : o \in Honest
        BY <1>4, <2>1, AgreedHasHonest
  <2>3. o \in Honest \cap DOMAIN usage' /\ usage'[o].hashes[dataset_id + 1] = h
        /\ dataset_id + 1 <= Len(usage'[o].hashes)
        BY <2>2 DEF Voters
  <2>4. /\ Len(usage'[o].hashes) \in 1..Len(FullHashList(period_start))
        /\ \A i \in 1..Len(usage'[o].hashes) :
               usage'[o].hashes[i] = FullHashList(period_start)[i]
        BY <1>1, <1>6, <2>3 DEF HonestRowsAreTrue
  <2>5. dataset_id \in 1..Len(Reports[period_start].data)
        BY <1>5, <2>3, <2>4
  <2>6. dataset_id + 1 \in 1..Len(usage'[o].hashes)
        BY <2>3, <2>4
  <2>7. h = DatasetHash(Reports[period_start].data[dataset_id])
        BY <1>5, <2>3, <2>4, <2>5, <2>6
  <2>8. h \in DOMAIN datasets'
    <3>1. dataset_id + 1 \in 2..Len(usage'[o].hashes)
          BY <2>6
    <3>. QED BY <1>2, <2>3, <3>1 DEF DatasetsAreStored
  <2>9. DatasetHash(datasets'[h]) = h
        BY <1>2, <2>8 DEF DatasetsAreStored
  <2>. QED BY <2>5, <2>7, <2>9 DEF DatasetHash
<1>8. \/ /\ DistributionsAreTrue'
         /\ dataset_id \in DOMAIN distributions'
         /\ DOMAIN distributions \subseteq DOMAIN distributions'
      \/ /\ distributions' = distributions
         /\ dataset_id \in DOMAIN distributions \/ Agreed(usage', dataset_id + 1) = {}
  <2>1. CASE \E h \in Modal(usage', dataset_id + 1) :
                 distributions' = Put(distributions, dataset_id, datasets'[h])
    <3>1. PICK h \in Modal(usage', dataset_id + 1) :
                 distributions' = Put(distributions, dataset_id, datasets'[h])
          BY <2>1
    <3>2. DOMAIN distributions' = DOMAIN distributions \cup {dataset_id}
          BY <3>1 DEF Put
    <3>3. ASSUME NEW k \in DOMAIN distributions'
          PROVE  /\ period_start' \in Starts
                 /\ k \in 1..Len(Reports[period_start'].data)
                 /\ distributions'[k].text = Reports[period_start'].data[k].text
      <4>1. CASE k = dataset_id
        <5>1. distributions'[k] = datasets'[h]
              BY <3>1, <4>1 DEF Put
        <5>. QED BY <1>1, <1>7, <4>1, <5>1
      <4>2. CASE k # dataset_id
        <5>1. k \in DOMAIN distributions /\ distributions'[k] = distributions[k]
              BY <3>1, <3>2, <3>3, <4>2 DEF Put
        <5>. QED BY <1>1, <5>1 DEF ConsensusInv, DistributionsAreTrue
      <4>. QED BY <4>1, <4>2
    <3>. QED BY <3>2, <3>3 DEF DistributionsAreTrue
  <2>. QED BY <2>1 DEF AddActUsg
<1>9. DistributionsAreTrue' /\ DOMAIN distributions \subseteq DOMAIN distributions'
      BY <1>1, <1>8 DEF ConsensusInv, DistributionsAreTrue
<1>10. InflationIsTrue' /\ PaymentsNeedSubmissions'
       BY <1>1, <1>3, <1>4 DEF ConsensusInv, InflationIsTrue, PaymentsNeedSubmissions
<1>11. ASSUME NEW o \in DOMAIN usage', NEW k \in 2..Len(usage'[o].hashes),
              Agreed(usage', k) # {}
       PROVE  k - 1 \in DOMAIN distributions'
  <2>1. CASE k = dataset_id + 1
        BY <1>8, <1>11, <2>1
  <2>2. CASE k # dataset_id + 1
    <3>1. ASSUME NEW h PROVE Voters(usage', k, h) = Voters(usage, k, h)
      <4>1. ASSUME NEW v \in submitting_oracles
            PROVE  k <= Len(usage'[v].hashes) /\ usage'[v].hashes[k] = h
                   <=> k <= Len(usage[v].hashes) /\ usage[v].hashes[k] = h
        <5>1. CASE v # source
              BY <1>3, <4>1, <5>1
        <5>2. CASE v = source
              BY <1>3, <1>11, <2>2, <5>2
        <5>. QED BY <5>1, <5>2
      <4>. QED BY <1>4, <4>1 DEF Voters
    <3>2. Agreed(usage, k) # {}
          BY <1>11, <3>1 DEF Agreed
    <3>3. o \in DOMAIN usage /\ k \in 2..Len(usage[o].hashes)
          BY <1>3, <1>4, <1>11, <2>2
    <3>. QED BY <1>9, <3>2, <3>3 DEF ConsensusInv, AgreementsAreServed
  <2>. QED BY <2>1, <2>2
<1>12. AgreementsAreServed'
       BY <1>1, <1>11 DEF AgreementsAreServed, Agreed
<1>. QED BY <1>2, <1>6, <1>9, <1>10, <1>12 DEF ConsensusInv

\* With careful governance, Next keeps the consensus.
LEMMA ConsensusStep ==
    ASSUME CarefulGovernance, TypeOK, ConsensusInv, [Next]_vars
    PROVE  ConsensusInv'
<1>. USE ConstantsAssumption
<1>1. ASSUME NEW o \in Honest, HonestTotals(o)
      PROVE  ConsensusInv'
  <2>1. PICK p \in Starts : SetTotalUsg(o, Reports[p].total, FullHashList(p), p)
        BY <1>1 DEF HonestTotals
  <2>2. o \in Oracles /\ Reports[p].total \in Totals /\ FullHashList(p) \in Seq(Hashes)
        BY FullHashListFacts DEF Honest
  <2>. QED BY <2>1, <2>2, SetTotalUsgConsensus
<1>2. ASSUME NEW o \in Honest, HonestDataset(o)
      PROVE  ConsensusInv'
  <2>1. PICK p \in Starts : \E i \in 1..Len(Reports[p].data) :
            AddActUsg(o, i, Reports[p].data[i], p)
        BY <1>2 DEF HonestDataset
  <2>2. PICK i \in 1..Len(Reports[p].data) : AddActUsg(o, i, Reports[p].data[i], p)
        BY <2>1
  <2>3. o \in Oracles /\ Reports[p].data \in Seq(Datasets)
        BY DEF Honest
  <2>4. Reports[p].data[i] \in Datasets /\ i \in Nat \ {0}
        BY <2>3, ElementOfSeq, LenProperties
  <2>. QED BY <2>2, <2>3, <2>4, AddActUsgConsensus DEF IsTrueDataset
<1>3. ASSUME NEW o \in Faulty, FaultyTotals(o)
      PROVE  ConsensusInv'
  <2>1. PICK t \in Totals, c \in Commitments, p \in Starts : SetTotalUsg(o, t, c, p)
        BY <1>3 DEF FaultyTotals
  <2>2. c \in Seq(Hashes) /\ o \in Oracles /\ o \notin Honest
        BY CommitmentsType DEF Honest
  <2>. QED BY <2>1, <2>2, SetTotalUsgConsensus
<1>4. ASSUME NEW o \in Faulty, FaultyDataset(o)
      PROVE  ConsensusInv'
  <2>1. PICK d \in Datasets, i \in 1..MaxDataset, p \in Starts : AddActUsg(o, i, d, p)
        BY <1>4 DEF FaultyDataset
  <2>2. i \in Nat \ {0} /\ o \in Oracles /\ o \notin Honest
        BY DEF Honest
  <2>. QED BY <2>1, <2>2, AddActUsgConsensus
<1>5. CASE NextPeriod
  <2>1. usage' = <<>> /\ datasets' = <<>> /\ distributions' = <<>>
        /\ inflation_transferred' = FALSE /\ threshold' = threshold
        BY <1>5 DEF NextPeriod
  <2>2. DOMAIN usage' = {} /\ DOMAIN datasets' = {} /\ DOMAIN distributions' = {}
        BY <2>1
  <2>3. Agreed(usage', 1) = {}
        BY <2>2, NothingAgreed DEF TypeOK
  <2>4. AgreementsAreServed'
        BY <2>1, <2>2, <2>3 DEF AgreementsAreServed, Agreed
  <2>. QED BY <2>1, <2>2, <2>4 DEF ConsensusInv, InflationIsTrue, DistributionsAreTrue,
               HonestRowsAreTrue, DatasetsAreStored, PaymentsNeedSubmissions
<1>6. ASSUME NEW a \in Accounts, ClaimDistrib(a)
      PROVE  ConsensusInv'
      BY <1>6, ConsensusUnchanged DEF ClaimDistrib, ConsensusVars, config
<1>7. ASSUME NEW o \in Oracles, ClaimRewards(o)
      PROVE  ConsensusInv'
      BY <1>7, ConsensusUnchanged DEF ClaimRewards, ConsensusVars, config
<1>8. ASSUME NEW on \in BOOLEAN, ResActivate(on)
      PROVE  ConsensusInv'
      BY <1>8, ConsensusUnchanged DEF ResActivate, ConsensusVars
<1>9. CASE Reinitialise
  <2>1. PICK t \in Thresholds, start \in Starts :
            /\ submitting_oracles # {} => t = threshold /\ start = period_start
            /\ InitResource(t, start)
        BY <1>9 DEF Reinitialise
  <2>2. CASE submitting_oracles # {}
        BY <2>1, <2>2, ConsensusUnchanged DEF InitResource, ConsensusVars
  <2>3. CASE submitting_oracles = {}
    <3>1. UNCHANGED <<submitting_oracles, inflation_transferred, distributions, usage, datasets>>
          /\ threshold' \in Thresholds
          BY <2>1 DEF InitResource
    <3>2. DOMAIN usage = {} /\ DOMAIN distributions = {} /\ ~inflation_transferred
          BY <2>3 DEF TypeOK, ConsensusInv, PaymentsNeedSubmissions
    <3>3. Agreed(usage, 1)' = {}
      <4>1. ASSUME NEW h PROVE Cardinality(Voters(usage', 1, h)) = 0
        <5>1. Voters(usage', 1, h) = {}
              BY <3>1, <3>2 DEF Voters
        <5>. QED BY <5>1, FS_EmptySet
      <4>2. threshold' \in Nat /\ threshold' > 0
        <5>1. IsFiniteSet(Faulty)
              BY FS_Subset
        <5>2. Cardinality(Faulty) \in Nat
              BY <5>1, FS_CardinalityType
        <5>. QED BY <3>1, <5>2, FaultyAssumption
      <4>. QED BY <4>1, <4>2 DEF Agreed
    <3>4. AgreementsAreServed'
          BY <3>1, <3>2, <3>3 DEF AgreementsAreServed
    <3>. QED BY <3>1, <3>2, <3>4 DEF ConsensusInv, InflationIsTrue, DistributionsAreTrue,
                 HonestRowsAreTrue, DatasetsAreStored, PaymentsNeedSubmissions
  <2>. QED BY <2>2, <2>3
<1>10. ASSUME NEW r \in Rankings, Vote(r)
       PROVE  ConsensusInv'
       BY <1>10, ConsensusUnchanged DEF Vote, ConsensusVars, config
<1>11. CASE UpdateElectedProducers
       BY <1>11, ConsensusUnchanged DEF UpdateElectedProducers, ConsensusVars, config
<1>12. CASE Tick
       BY <1>12, ConsensusUnchanged DEF Tick, ConsensusVars, config
<1>13. CASE UNCHANGED vars
       BY <1>13, ConsensusUnchanged DEF vars, ConsensusVars, config
<1>. QED BY <1>1, <1>2, <1>3, <1>4, <1>5, <1>6, <1>7, <1>8, <1>9, <1>10, <1>11, <1>12, <1>13
         DEF Next

\* Nothing is agreed at the start.
LEMMA ConsensusInit == Init => ConsensusInv
<1>. SUFFICES ASSUME Init PROVE ConsensusInv
     OBVIOUS
<1>1. DOMAIN usage = {} /\ DOMAIN datasets = {} /\ DOMAIN distributions = {}
      /\ ~inflation_transferred /\ threshold \in Thresholds
      BY DEF Init
<1>2. Agreed(usage, 1) = {}
      BY <1>1, NothingAgreed
<1>. QED BY <1>1, <1>2 DEF ConsensusInv, InflationIsTrue, DistributionsAreTrue,
             HonestRowsAreTrue, DatasetsAreStored, PaymentsNeedSubmissions, AgreementsAreServed

\* The inductive invariant holds in every reachable state.
THEOREM ConsensusIsInductive ==
    ASSUME CarefulGovernance
    PROVE  Spec => [](TypeOK /\ ConsensusInv)
<1>1. Init => TypeOK /\ ConsensusInv
      BY TypeInit, ConsensusInit
<1>2. TypeOK /\ ConsensusInv /\ [Next]_vars => (TypeOK /\ ConsensusInv)'
  <2>. SUFFICES ASSUME TypeOK, ConsensusInv, [Next]_vars
                PROVE  (TypeOK /\ ConsensusInv)'
       OBVIOUS
  <2>1. TypeOK'
        BY TypeStep DEF ConsensusInv
  <2>2. ConsensusInv'
        BY ConsensusStep
  <2>. QED BY <2>1, <2>2
<1>. QED BY <1>1, <1>2, PTL DEF Spec

\* However many faulty oracles below the threshold there are, whatever they
\* send and in whatever order, the inflation of a period is computed from
\* the totals that are true of it.
THEOREM InflationCorrect ==
    ASSUME CarefulGovernance
    PROVE  Spec => []InflationIsTrue
<1>1. ConsensusInv => InflationIsTrue
      BY DEF ConsensusInv
<1>. QED BY <1>1, ConsensusIsInductive, PTL

\* Under the same assumption every dataset paid out has the text of the one
\* that is true of the period under its id.
THEOREM DistributionsCorrect ==
    ASSUME CarefulGovernance
    PROVE  Spec => []DistributionsAreTrue
<1>1. ConsensusInv => DistributionsAreTrue
      BY DEF ConsensusInv
<1>. QED BY <1>1, ConsensusIsInductive, PTL

\* The modal commitment nextperiod finds is that of the honest oracles.
LEMMA ModalIsTrue ==
    ASSUME TypeOK, ConsensusInv, NEW c \in Commitments, MayClose(c)
    PROVE  period_start \in Starts /\ c = FullHashList(period_start)
<1>1. Cardinality(Revealed(c)) >= threshold
      BY DEF MayClose
<1>2. Revealed(c) \in SUBSET Oracles /\ threshold \in Thresholds
      /\ DOMAIN usage = submitting_oracles
      BY DEF Revealed, Committed, TypeOK
<1>3. PICK o \in Revealed(c) : o \in Honest
      BY <1>1, <1>2, QuorumHasHonest
<1>4. o \in Honest \cap DOMAIN usage /\ usage[o].commit = c
      BY <1>2, <1>3 DEF Revealed, Committed
<1>. QED BY <1>4 DEF ConsensusInv, HonestRowsAreTrue

\* nextperiod finds every submission of the report agreed upon, and so paid.
LEMMA NextPeriodFindsPaid ==
    ASSUME TypeOK, ConsensusInv, NextPeriod
    PROVE  /\ inflation_transferred
           /\ DOMAIN distributions = 1..Len(Reports[period_start].data)
<1>1. PICK c \in Commitments : Cardinality(Revealed(c)) >= threshold
      BY DEF NextPeriod, MayClose
<1>2. Revealed(c) \in SUBSET Oracles /\ threshold \in Thresholds
      /\ DOMAIN usage = submitting_oracles
      BY DEF Revealed, Committed, TypeOK
<1>3. PICK o \in Revealed(c) : o \in Honest
      BY <1>1, <1>2, QuorumHasHonest
<1>4. o \in Honest \cap DOMAIN usage /\ usage[o].commit = c /\ usage[o].hashes = c
      BY <1>2, <1>3 DEF Revealed, Committed
<1>5. period_start \in Starts /\ c = FullHashList(period_start)
      BY <1>4 DEF ConsensusInv, HonestRowsAreTrue
<1>6. /\ c \in Seq(Hashes) /\ Len(c) = 1 + Len(Reports[period_start].data)
      /\ Len(Reports[period_start].data) \in Nat
  <2>1. Reports[period_start].data \in Seq(Datasets)
        BY <1>5, ConstantsAssumption
  <2>. QED BY <1>5, <2>1, FullHashListFacts, LenProperties
<1>7. ASSUME NEW k \in 1..Len(c)
      PROVE  Agreed(usage, k) # {}
  <2>1. c[k] \in Hashes
        BY <1>6, ElementOfSeq
  <2>2. Revealed(c) \subseteq Voters(usage, k, c[k])
        BY <1>2, <1>6 DEF Revealed, Committed, Voters
  <2>3. Voters(usage, k, c[k]) \subseteq Oracles
        BY <1>2 DEF Voters, TypeOK
  <2>4. IsFiniteSet(Voters(usage, k, c[k]))
        BY <2>3, FS_Subset, ConstantsAssumption
  <2>5. /\ IsFiniteSet(Revealed(c))
        /\ Cardinality(Revealed(c)) <= Cardinality(Voters(usage, k, c[k]))
        BY <2>2, <2>4, FS_Subset
  <2>6. Cardinality(Revealed(c)) \in Nat /\ Cardinality(Voters(usage, k, c[k])) \in Nat
        BY <2>4, <2>5, FS_CardinalityType
  <2>7. threshold \in Nat
        BY <1>2, ConstantsAssumption
  <2>8. Cardinality(Voters(usage, k, c[k])) >= threshold
        BY <1>1, <2>5, <2>6, <2>7
  <2>. QED BY <2>1, <2>8 DEF Agreed
<1>8. inflation_transferred
  <2>1. 1 \in 1..Len(c)
        BY <1>6
  <2>. QED BY <1>7, <2>1 DEF ConsensusInv, AgreementsAreServed
<1>9. ASSUME NEW k \in 1..Len(Reports[period_start].data)
      PROVE  k \in DOMAIN distributions
  <2>1. k + 1 \in 2..Len(c) /\ k + 1 \in 1..Len(c) /\ (k + 1) - 1 = k
        BY <1>6
  <2>2. Agreed(usage, k + 1) # {}
        BY <1>7, <2>1
  <2>3. (k + 1) - 1 \in DOMAIN distributions
        BY <1>4, <2>1, <2>2 DEF ConsensusInv, AgreementsAreServed
  <2>. QED BY <2>1, <2>3
<1>10. DOMAIN distributions \subseteq 1..Len(Reports[period_start].data)
       BY DEF ConsensusInv, DistributionsAreTrue
<1>. QED BY <1>8, <1>9, <1>10

\* Only nextperiod erases submissions.
LEMMA OnlyNextPeriodCloses ==
    ASSUME TypeOK, TypeOK', [Next]_vars, ClosesPeriod
    PROVE  NextPeriod
<1>1. usage # <<>> /\ DOMAIN usage' = {} /\ usage' # usage /\ submitting_oracles' = {}
  <2>1. usage # <<>> /\ usage' = <<>>
        BY DEF ClosesPeriod
  <2>2. DOMAIN usage' = {}
        BY <2>1
  <2>3. DOMAIN usage' = submitting_oracles'
        BY DEF TypeOK
  <2>. QED BY <2>1, <2>2, <2>3
<1>2. ASSUME NEW s, NEW t, NEW c, NEW p, SetTotalUsg(s, t, c, p) PROVE FALSE
      BY <1>1, <1>2 DEF SetTotalUsg, MaySetTotalUsg
<1>3. ASSUME NEW s, NEW i, NEW d, NEW p, AddActUsg(s, i, d, p) PROVE FALSE
  <2>1. s \in DOMAIN usage /\ submitting_oracles' = submitting_oracles
        BY <1>3 DEF AddActUsg, MayAddActUsg
  <2>2. DOMAIN usage = submitting_oracles
        BY DEF TypeOK
  <2>. QED BY <1>1, <2>1, <2>2
<1>4. ASSUME usage' = usage PROVE FALSE
      BY <1>1, <1>4
<1>5. ASSUME NEW o, HonestTotals(o) \/ HonestDataset(o) \/ FaultyTotals(o) \/ FaultyDataset(o)
      PROVE  FALSE
      BY <1>2, <1>3, <1>5 DEF HonestTotals, HonestDataset, FaultyTotals, FaultyDataset
<1>6. ASSUME \/ \E a \in Accounts : ClaimDistrib(a)
             \/ \E o \in Oracles : ClaimRewards(o)
             \/ \E on \in BOOLEAN : ResActivate(on)
             \/ Reinitialise
             \/ \E r \in Rankings : Vote(r)
             \/ UpdateElectedProducers
             \/ Tick
             \/ UNCHANGED vars
      PROVE  FALSE
      BY <1>4, <1>6 DEF ClaimDistrib, ClaimRewards, ResActivate, Reinitialise, InitResource,
             Vote, UpdateElectedProducers, Tick, vars
<1>. QED BY <1>5, <1>6 DEF Next

\* Under the same assumption nextperiod never closes a period whose inflation
\* or whose account distributions are not all made.
THEOREM AdvanceCorrect ==
    ASSUME CarefulGovernance
    PROVE  Spec => AdvanceIsComplete
<1>1. TypeOK /\ ConsensusInv /\ TypeOK' /\ [Next]_vars => [ClosesPaidPeriod]_vars
  <2>. SUFFICES ASSUME TypeOK, ConsensusInv, TypeOK', [Next]_vars, ClosesPeriod
                PROVE  /\ inflation_transferred
                       /\ DOMAIN distributions = 1..Len(Reports[period_start].data)
       BY DEF ClosesPaidPeriod
  <2>1. NextPeriod
        BY OnlyNextPeriodCloses
  <2>. QED BY <2>1, NextPeriodFindsPaid
<1>2. Spec => [](TypeOK /\ ConsensusInv)
      BY ConsensusIsInductive
<1>. QED BY <1>1, <1>2, PTL DEF Spec, AdvanceIsComplete
\* nextperiod scores by the true report.
LEMMA NextPeriodScores ==
    ASSUME TypeOK, ConsensusInv, NextPeriod
    PROVE  /\ \A o \in Honest \cap DOMAIN usage :
                 usage[o].hashes = FullHashList(period_start) =>
                     sources'[o].score = sources[o].score + 10
           /\ \A o \in Oracles :
                 sources'[o].score >= sources[o].score + 10 =>
                     o \in DOMAIN usage /\ usage[o].hashes = FullHashList(period_start)
<1>1. PICK c \in Commitments :
          /\ MayClose(c)
          /\ sources' = [o \in Oracles |->
                IF o \in submitting_oracles
                THEN [score |-> sources[o].score + Points(o, c), count |-> sources[o].count + 1]
                ELSE sources[o]]
      BY DEF NextPeriod
<1>2. c = FullHashList(period_start)
      BY <1>1, ModalIsTrue
<1>3. DOMAIN usage = submitting_oracles /\ submitting_oracles \subseteq Oracles
      /\ \A o \in Oracles : sources[o].score \in Nat
      BY DEF TypeOK
<1>4. ASSUME NEW o \in Honest \cap DOMAIN usage, usage[o].hashes = FullHashList(period_start)
      PROVE  sources'[o].score = sources[o].score + 10
  <2>1. o \in Revealed(c)
        BY <1>2, <1>3, <1>4 DEF Revealed, Committed, ConsensusInv, HonestRowsAreTrue
  <2>2. Points(o, c) = 10
        BY <2>1 DEF Points
  <2>. QED BY <1>1, <1>3, <2>2
<1>5. ASSUME NEW o \in Oracles, sources'[o].score >= sources[o].score + 10
      PROVE  o \in DOMAIN usage /\ usage[o].hashes = FullHashList(period_start)
  <2>1. CASE o \notin submitting_oracles
    <3>1. sources'[o].score = sources[o].score
          BY <1>1, <2>1
    <3>. QED BY <1>3, <1>5, <3>1
  <2>2. CASE o \in submitting_oracles /\ o \notin Revealed(c)
    <3>1. Points(o, c) \in {0, 1}
          BY <2>2 DEF Points
    <3>2. sources'[o].score = sources[o].score + Points(o, c)
          BY <1>1, <2>2
    <3>. QED BY <1>3, <1>5, <3>1, <3>2
  <2>3. CASE o \in submitting_oracles /\ o \in Revealed(c)
        BY <1>2, <1>3, <2>3 DEF Revealed
  <2>. QED BY <2>1, <2>2, <2>3
<1>. QED BY <1>4, <1>5

\* Under the same assumption an honest oracle that has sent everything gets
\* full marks from nextperiod, and nobody gets them for anything else.
THEOREM ScoreCorrect ==
    ASSUME CarefulGovernance
    PROVE  Spec => HonestScore
<1>1. TypeOK /\ ConsensusInv /\ TypeOK' /\ [Next]_vars => [ScoresTruth]_vars
  <2>. SUFFICES ASSUME TypeOK, ConsensusInv, TypeOK', [Next]_vars
                PROVE  ScoresTruth
       OBVIOUS
  <2>1. ASSUME ClosesPeriod PROVE NextPeriod
        BY <2>1, OnlyNextPeriodCloses
  <2>. QED BY <2>1, NextPeriodScores DEF ScoresTruth
<1>2. Spec => [](TypeOK /\ ConsensusInv)
      BY ConsensusIsInductive
<1>. QED BY <1>1, <1>2, PTL DEF Spec, HonestScore
-----------------------------------------------------------------------------
(* Whatever governance re-initialises. *)

LEMMA PaymentsUnchanged ==
    ASSUME DistributionsAreBacked, UNCHANGED <<inflation_transferred, distributions, usage>>
    PROVE  DistributionsAreBacked'
BY DEF DistributionsAreBacked, DistributionsFollowInflation, DistributionsAreSubmitted, Voters

\* A row more does not take a submission from the others.
LEMMA SetTotalUsgPayments ==
    ASSUME TypeOK, DistributionsAreBacked,
           NEW source, NEW t, NEW commit, NEW p,
           SetTotalUsg(source, t, commit, p)
    PROVE  DistributionsAreBacked'
<1>1. /\ source \notin DOMAIN usage
      /\ UNCHANGED distributions
      /\ inflation_transferred => inflation_transferred'
      /\ \E row : usage' = Put(usage, source, row)
      BY DEF SetTotalUsg, MaySetTotalUsg
<1>2. DOMAIN usage \subseteq DOMAIN usage' /\ \A o \in DOMAIN usage : usage'[o] = usage[o]
      BY <1>1 DEF Put
<1>3. ASSUME NEW k, NEW h PROVE Voters(usage, k, h) \subseteq Voters(usage', k, h)
      BY <1>2 DEF Voters
<1>4. DistributionsAreSubmitted'
      BY <1>1, <1>3 DEF DistributionsAreBacked, DistributionsAreSubmitted
<1>5. DistributionsFollowInflation'
      BY <1>1 DEF DistributionsAreBacked, DistributionsFollowInflation
<1>. QED BY <1>4, <1>5 DEF DistributionsAreBacked

\* A submission more takes none back, and what it has paid is submitted.
LEMMA AddActUsgPayments ==
    ASSUME TypeOK, DatasetsAreStored, DistributionsAreBacked,
           NEW source \in Oracles, NEW d \in Datasets, NEW dataset_id \in Nat \ {0}, NEW p,
           AddActUsg(source, dataset_id, d, p)
    PROVE  DistributionsAreBacked'
<1>1. /\ source \in DOMAIN usage /\ dataset_id = Len(usage[source].hashes)
      /\ usage' \in [submitting_oracles -> UsageRows]
      /\ Len(usage'[source].hashes) = dataset_id + 1
      /\ \A i \in 1..dataset_id : usage'[source].hashes[i] = usage[source].hashes[i]
      /\ \A o \in submitting_oracles : o # source => usage'[o] = usage[o]
      /\ DatasetsAreStored'
      BY AddActUsgTables
<1>2. DOMAIN usage = submitting_oracles /\ DOMAIN usage' = submitting_oracles
      /\ submitting_oracles \subseteq Oracles /\ threshold \in Thresholds
      /\ DOMAIN distributions \subseteq Nat
      BY <1>1 DEF TypeOK
<1>3. ASSUME NEW k \in Nat, NEW h PROVE Voters(usage, k + 1, h) \subseteq Voters(usage', k + 1, h)
  <2>1. ASSUME NEW o \in Voters(usage, k + 1, h) PROVE o \in Voters(usage', k + 1, h)
    <3>1. o \in DOMAIN usage /\ k + 1 <= Len(usage[o].hashes) /\ usage[o].hashes[k + 1] = h
          BY DEF Voters
    <3>2. CASE o # source
          BY <1>1, <1>2, <3>1, <3>2 DEF Voters
    <3>3. CASE o = source
      <4>1. k + 1 \in 1..dataset_id
            BY <1>1, <3>1, <3>3
      <4>2. usage'[o].hashes[k + 1] = h /\ k + 1 <= Len(usage'[o].hashes)
            BY <1>1, <3>1, <3>3, <4>1
      <4>. QED BY <1>2, <3>1, <4>2 DEF Voters
    <3>. QED BY <3>2, <3>3
  <2>. QED BY <2>1
<1>4. inflation_transferred'
      BY DEF AddActUsg, MayAddActUsg
<1>5. CASE UNCHANGED distributions
      BY <1>2, <1>3, <1>4, <1>5
      DEF DistributionsAreBacked, DistributionsFollowInflation, DistributionsAreSubmitted
<1>6. ASSUME NEW h \in Modal(usage', dataset_id + 1),
             distributions' = Put(distributions, dataset_id, datasets'[h])
      PROVE  DistributionsAreSubmitted'
  <2>1. h \in Agreed(usage', dataset_id + 1)
        BY DEF Modal
  <2>2. \A o \in DOMAIN usage' : Len(usage'[o].hashes) \in Nat
    <3>1. \A o \in submitting_oracles : usage'[o].hashes \in Seq(Hashes)
          BY <1>1 DEF UsageRows
    <3>. QED BY <1>2, <3>1, LenProperties
  <2>3. h \in DOMAIN datasets'
    <3>1. dataset_id + 1 >= 2 /\ dataset_id + 1 \in Nat /\ DOMAIN usage' \subseteq Oracles
          BY <1>2
    <3>. QED BY <1>1, <1>2, <2>1, <2>2, <3>1, AgreedIsStored DEF DatasetsAreStored
  <2>4. DatasetHash(datasets'[h]) = h
        BY <1>1, <2>3 DEF DatasetsAreStored
  <2>5. Voters(usage', dataset_id + 1, h) # {}
        BY <1>2, <2>1, AgreedHasHonest
  <2>6. ASSUME NEW k \in DOMAIN distributions'
        PROVE  Voters(usage', k + 1, DatasetHash(distributions'[k])) # {}
    <3>1. CASE k = dataset_id
          BY <1>6, <2>4, <2>5, <3>1 DEF Put
    <3>2. CASE k # dataset_id
      <4>1. k \in DOMAIN distributions /\ distributions'[k] = distributions[k]
            BY <1>6, <3>2 DEF Put
      <4>. QED BY <1>2, <1>3, <4>1 DEF DistributionsAreBacked, DistributionsAreSubmitted
    <3>. QED BY <3>1, <3>2
  <2>. QED BY <2>6 DEF DistributionsAreSubmitted
<1>7. \/ UNCHANGED distributions
      \/ \E h \in Modal(usage', dataset_id + 1) :
            distributions' = Put(distributions, dataset_id, datasets'[h])
      BY DEF AddActUsg
<1>. QED BY <1>4, <1>5, <1>6, <1>7 DEF DistributionsAreBacked, DistributionsFollowInflation

LEMMA PaymentsStep ==
    ASSUME TypeOK, DatasetsAreStored, DistributionsAreBacked, [Next]_vars
    PROVE  DistributionsAreBacked'
<1>. USE ConstantsAssumption
<1>1. ASSUME NEW o, HonestTotals(o) \/ FaultyTotals(o)
      PROVE  DistributionsAreBacked'
      BY <1>1, SetTotalUsgPayments DEF HonestTotals, FaultyTotals
<1>2. ASSUME NEW o \in Honest, HonestDataset(o)
      PROVE  DistributionsAreBacked'
  <2>1. PICK p \in Starts : \E i \in 1..Len(Reports[p].data) :
            AddActUsg(o, i, Reports[p].data[i], p)
        BY <1>2 DEF HonestDataset
  <2>2. PICK i \in 1..Len(Reports[p].data) : AddActUsg(o, i, Reports[p].data[i], p)
        BY <2>1
  <2>3. o \in Oracles /\ Reports[p].data \in Seq(Datasets)
        BY DEF Honest
  <2>4. Reports[p].data[i] \in Datasets /\ i \in Nat \ {0}
        BY <2>3, ElementOfSeq, LenProperties
  <2>. QED BY <2>2, <2>3, <2>4, AddActUsgPayments
<1>3. ASSUME NEW o \in Faulty, FaultyDataset(o)
      PROVE  DistributionsAreBacked'
  <2>1. PICK d \in Datasets, i \in 1..MaxDataset, p \in Starts : AddActUsg(o, i, d, p)
        BY <1>3 DEF FaultyDataset
  <2>2. i \in Nat \ {0} /\ o \in Oracles
        OBVIOUS
  <2>. QED BY <2>1, <2>2, AddActUsgPayments
<1>4. CASE NextPeriod
  <2>1. DOMAIN distributions' = {}
        BY <1>4 DEF NextPeriod
  <2>. QED BY <2>1 DEF DistributionsAreBacked, DistributionsFollowInflation, DistributionsAreSubmitted
<1>5. ASSUME \/ \E a \in Accounts : ClaimDistrib(a)
             \/ \E o \in Oracles : ClaimRewards(o)
             \/ \E on \in BOOLEAN : ResActivate(on)
             \/ Reinitialise
             \/ \E r \in Rankings : Vote(r)
             \/ UpdateElectedProducers
             \/ Tick
             \/ UNCHANGED vars
      PROVE  UNCHANGED <<inflation_transferred, distributions, usage>>
      BY <1>5 DEF ClaimDistrib, ClaimRewards, ResActivate, Reinitialise, InitResource, Vote,
             UpdateElectedProducers, Tick, config, vars
<1>. QED BY <1>1, <1>2, <1>3, <1>4, <1>5, PaymentsUnchanged DEF Next

\* Whatever governance re-initialises at whatever time, and whoever is faulty
\* below the threshold: the payments of a period follow its inflation, and
\* the hash of each is still in some oracle's list under its id.
THEOREM PaymentsAreInductive == Spec => [](TypeOK /\ DatasetsAreStored /\ DistributionsAreBacked)
<1>1. Init => TypeOK /\ DatasetsAreStored /\ DistributionsAreBacked
  <2>1. Init => DistributionsAreBacked
        BY DEF Init, DistributionsAreBacked, DistributionsFollowInflation, DistributionsAreSubmitted
  <2>. QED BY <2>1, TypeInit
<1>2. TypeOK /\ DatasetsAreStored /\ DistributionsAreBacked /\ [Next]_vars
          => (TypeOK /\ DatasetsAreStored /\ DistributionsAreBacked)'
      BY TypeStep, PaymentsStep
<1>. QED BY <1>1, <1>2, PTL DEF Spec

\* A dataset is never paid before the inflation it is paid from, and what
\* counts as distributed is what an oracle's list still holds.
THEOREM DistributionsBacked == Spec => []DistributionsAreBacked
BY PaymentsAreInductive, PTL

-----------------------------------------------------------------------------
(***************************************************************************)
(* ResourceOracle implements Periods for every choice of its constants, as *)
(* long as governance is careful.                                          *)
(***************************************************************************)
\* A step that changes none of it is a stutter of Periods.
LEMMA TruthUnchanged ==
    ASSUME UNCHANGED <<period_start, inflation_transferred, distributions, history, supply>>
    PROVE  UNCHANGED Truth!vars
BY DEF Truth!vars, issuedTotals, paidTexts

\* The first state is one of Periods.
LEMMA TruthInit == Init => Truth!Init
<1>. SUFFICES ASSUME Init PROVE Truth!Init
     OBVIOUS
<1>1. distributions = <<>> /\ ~inflation_transferred /\ history.daycount = 0
      /\ period_start = 0 /\ supply = InitialSupply
      BY DEF Init
<1>2. paidTexts = <<>>
      BY <1>1 DEF paidTexts
<1>. QED BY <1>1, <1>2 DEF Truth!Init, issuedTotals

\* Inflation is issued within the limits of a period and of the supply.
LEMMA IssueIsBounded ==
    ASSUME TypeOK, NEW t \in Totals, NEW m \in Amounts[history.daycount], IssueInflation(t, m), TypeOK'
    PROVE  /\ supply' \in supply..(supply + PeriodCap)
           /\ supply' <= MaxSupply
           /\ history.daycount < MaxDays
           /\ history'.daycount = history.daycount + 1
<1>. DEFINE inflation == m.utility + m.bppay
            supply_remaining == MaxSupply - supply
<1>0. m.utility \in Nat /\ m.bppay \in Nat /\ PeriodCap \in Nat /\ MaxSupply \in Nat
      BY AmountsType, ConstantsAssumption
<1>1. supply \in 0..MaxSupply /\ supply' \in 0..MaxSupply
      BY DEF TypeOK
<1>2. inflation <= PeriodCap /\ supply_remaining > 0
      /\ history.daycount < MaxDays
      BY DEF IssueInflation, MaySetTotal
<1>3. PICK bppay \in IF inflation > supply_remaining
                     THEN Truncated(m.bppay, inflation, supply_remaining)
                     ELSE {m.bppay} :
            LET utility == IF inflation > supply_remaining
                           THEN supply_remaining - bppay
                           ELSE m.utility
            IN  /\ history' = [SetTotal(t, m) EXCEPT !.utility_tokens = utility,
                                                     !.bppay_tokens = bppay]
                /\ supply' = supply + utility + bppay
      BY DEF IssueInflation
<1>4. history'.daycount = history.daycount + 1
      BY <1>3 DEF SetTotal
<1>5. CASE inflation > supply_remaining
  <2>0. inflation \in Nat /\ supply_remaining \in Nat
        BY <1>0, <1>1
  <2>1. bppay \in Nat
    <3>1. bppay \in Truncated(m.bppay, inflation, supply_remaining)
          BY <1>3, <1>5
    <3>. HIDE DEF inflation, supply_remaining
    <3>. QED BY <1>0, <2>0, <3>1, TruncatedFacts
  <2>2. supply' = supply + (supply_remaining - bppay) + bppay
        BY <1>3, <1>5
  <2>3. supply' = MaxSupply
        BY <1>0, <1>1, <2>1, <2>2
  <2>. QED BY <1>0, <1>1, <1>2, <1>4, <1>5, <2>3
<1>6. CASE ~(inflation > supply_remaining)
  <2>1. supply' = supply + inflation
        BY <1>0, <1>1, <1>3, <1>6
  <2>. QED BY <1>0, <1>1, <1>2, <1>4, <2>1
<1>. QED BY <1>5, <1>6

\* settotalusg issues the inflation of the period, or nothing.
LEMMA SetTotalUsgTruth ==
    ASSUME TypeOK, ConsensusInv, TypeOK', ConsensusInv',
           NEW source \in Oracles, NEW t \in Totals, NEW commit, NEW p \in Starts,
           SetTotalUsg(source, t, commit, p)
    PROVE  [Truth!Next]_(Truth!vars)
<1>1. UNCHANGED <<period_start, distributions>> /\ p = period_start
      BY DEF SetTotalUsg, MaySetTotalUsg, IsOpenPeriod
<1>2. CASE UNCHANGED <<inflation_transferred, history, supply>>
      BY <1>1, <1>2, TruthUnchanged
<1>3. ASSUME ~inflation_transferred, inflation_transferred' = TRUE,
             NEW total \in Totals, NEW m \in Amounts[history.daycount], IssueInflation(total, m)
      PROVE  Truth!Issue
  <2>1. /\ supply' \in supply..(supply + PeriodCap)
        /\ supply' <= MaxSupply
        /\ history.daycount < MaxDays
        /\ history'.daycount = history.daycount + 1
        BY <1>3, IssueIsBounded
  <2>2. history'.total_cpu_us = Reports[period_start].total.cpu
        BY <1>1, <1>3 DEF ConsensusInv, InflationIsTrue
  <2>. QED BY <1>1, <1>3, <2>1, <2>2 DEF Truth!Issue, issuedTotals, paidTexts, Starts
<1>4. \/ UNCHANGED <<inflation_transferred, history, supply>>
      \/ /\ ~inflation_transferred
         /\ inflation_transferred' = TRUE
         /\ \E total \in Totals, m \in Amounts[history.daycount] : IssueInflation(total, m)
      BY DEF SetTotalUsg
<1>. QED BY <1>2, <1>3, <1>4 DEF Truth!Next

\* addactusg pays a dataset of the period, or nothing.
LEMMA AddActUsgTruth ==
    ASSUME TypeOK, ConsensusInv, TypeOK', ConsensusInv',
           NEW source, NEW dataset_id \in Nat, NEW d, NEW p \in Starts,
           AddActUsg(source, dataset_id, d, p)
    PROVE  [Truth!Next]_(Truth!vars)
<1>1. /\ UNCHANGED <<period_start, inflation_transferred, history, supply>>
      /\ inflation_transferred /\ p = period_start
      BY DEF AddActUsg, MayAddActUsg, IsOpenPeriod
<1>2. CASE UNCHANGED distributions
      BY <1>1, <1>2, TruthUnchanged
<1>3. ASSUME dataset_id \notin DOMAIN distributions,
             NEW paidset, distributions' = Put(distributions, dataset_id, paidset)
      PROVE  Truth!Next
  <2>1. DOMAIN distributions' = DOMAIN distributions \cup {dataset_id}
        /\ distributions'[dataset_id] = paidset
        /\ \A k \in DOMAIN distributions : distributions'[k] = distributions[k]
        BY <1>3 DEF Put
  <2>2. dataset_id \in 1..Len(Reports[period_start].data)
        /\ paidset.text = Reports[period_start].data[dataset_id].text
        BY <1>1, <2>1 DEF ConsensusInv, DistributionsAreTrue
  <2>3. paidTexts' = [i \in DOMAIN paidTexts \cup {dataset_id} |->
                        IF i = dataset_id THEN Reports[period_start].data[dataset_id].text
                        ELSE paidTexts[i]]
        BY <1>3, <2>1, <2>2 DEF paidTexts
  <2>4. Truth!Pay(dataset_id)
        BY <1>1, <1>3, <2>3 DEF Truth!Pay, issuedTotals, paidTexts
  <2>. QED BY <1>1, <2>2, <2>4 DEF Truth!Next, Starts
<1>4. \/ UNCHANGED distributions
      \/ /\ dataset_id \notin DOMAIN distributions
         /\ \E paidset : distributions' = Put(distributions, dataset_id, paidset)
      BY DEF AddActUsg
<1>. QED BY <1>2, <1>3, <1>4

\* nextperiod closes the period.
LEMMA NextPeriodTruth ==
    ASSUME TypeOK, ConsensusInv, NextPeriod
    PROVE  Truth!Close
<1>1. inflation_transferred /\ DOMAIN distributions = 1..Len(Reports[period_start].data)
      /\ period_start \in Starts
      BY NextPeriodFindsPaid DEF ConsensusInv, InflationIsTrue
<1>2. /\ period_start' = period_start + PeriodSeconds
      /\ inflation_transferred' = FALSE
      /\ distributions' = <<>>
      /\ UNCHANGED <<history, supply>>
      BY DEF NextPeriod, tokens
<1>3. paidTexts' = <<>>
      BY <1>2 DEF paidTexts
<1>. QED BY <1>1, <1>2, <1>3 DEF Truth!Close, issuedTotals, paidTexts, Starts

\* initresource restarts a period in which nothing is paid.
LEMMA ReinitialiseTruth ==
    ASSUME CarefulGovernance, TypeOK, ConsensusInv, Reinitialise
    PROVE  [Truth!Next]_(Truth!vars)
<1>1. PICK t \in Thresholds, begin \in Starts :
          /\ submitting_oracles # {} => t = threshold /\ begin = period_start
          /\ InitResource(t, begin)
      BY DEF Reinitialise
<1>2. UNCHANGED <<inflation_transferred, distributions, history, supply>>
      /\ period_start' = begin
      BY <1>1 DEF InitResource, tokens
<1>3. CASE submitting_oracles # {}
      BY <1>1, <1>2, <1>3, TruthUnchanged
<1>4. CASE submitting_oracles = {}
  <2>1. ~inflation_transferred /\ DOMAIN distributions = {}
        BY <1>4 DEF ConsensusInv, PaymentsNeedSubmissions
  <2>2. Truth!Restart(begin)
        BY <1>2, <2>1 DEF Truth!Restart, issuedTotals, paidTexts
  <2>. QED BY <2>2 DEF Truth!Next, Starts
<1>. QED BY <1>3, <1>4

\* Every step is one of Periods or a stutter.
LEMMA TruthStep ==
    ASSUME CarefulGovernance, TypeOK, ConsensusInv, TypeOK', ConsensusInv', [Next]_vars
    PROVE  [Truth!Next]_(Truth!vars)
<1>. USE ConstantsAssumption
<1>1. ASSUME NEW o \in Honest, HonestTotals(o)
      PROVE  [Truth!Next]_(Truth!vars)
  <2>1. PICK p \in Starts : SetTotalUsg(o, Reports[p].total, FullHashList(p), p)
        BY <1>1 DEF HonestTotals
  <2>2. o \in Oracles /\ Reports[p].total \in Totals
        BY DEF Honest
  <2>. QED BY <2>1, <2>2, SetTotalUsgTruth
<1>2. ASSUME NEW o \in Honest, HonestDataset(o)
      PROVE  [Truth!Next]_(Truth!vars)
  <2>1. PICK p \in Starts : \E i \in 1..Len(Reports[p].data) :
            AddActUsg(o, i, Reports[p].data[i], p)
        BY <1>2 DEF HonestDataset
  <2>2. PICK i \in 1..Len(Reports[p].data) : AddActUsg(o, i, Reports[p].data[i], p)
        BY <2>1
  <2>3. i \in Nat
        OBVIOUS
  <2>. QED BY <2>2, <2>3, AddActUsgTruth
<1>3. ASSUME NEW o \in Faulty, FaultyTotals(o)
      PROVE  [Truth!Next]_(Truth!vars)
  <2>1. PICK t \in Totals, c \in Commitments, p \in Starts : SetTotalUsg(o, t, c, p)
        BY <1>3 DEF FaultyTotals
  <2>2. o \in Oracles
        OBVIOUS
  <2>. QED BY <2>1, <2>2, SetTotalUsgTruth
<1>4. ASSUME NEW o \in Faulty, FaultyDataset(o)
      PROVE  [Truth!Next]_(Truth!vars)
  <2>1. PICK d \in Datasets, i \in 1..MaxDataset, p \in Starts : AddActUsg(o, i, d, p)
        BY <1>4 DEF FaultyDataset
  <2>2. i \in Nat
        OBVIOUS
  <2>. QED BY <2>1, <2>2, AddActUsgTruth
<1>5. CASE NextPeriod
      BY <1>5, NextPeriodTruth DEF Truth!Next
<1>6. CASE Reinitialise
      BY <1>6, ReinitialiseTruth
<1>7. ASSUME \/ \E a \in Accounts : ClaimDistrib(a)
             \/ \E o \in Oracles : ClaimRewards(o)
             \/ \E on \in BOOLEAN : ResActivate(on)
             \/ \E r \in Rankings : Vote(r)
             \/ UpdateElectedProducers
             \/ Tick
             \/ UNCHANGED vars
      PROVE  UNCHANGED <<period_start, inflation_transferred, distributions, history, supply>>
      BY <1>7 DEF ClaimDistrib, ClaimRewards, ResActivate, Vote, UpdateElectedProducers, Tick,
             config, tokens, vars
<1>. QED BY <1>1, <1>2, <1>3, <1>4, <1>5, <1>6, <1>7, TruthUnchanged DEF Next

\* The oracles pay exactly what is true of each period, once and in order:
\* each behaviour of ResourceOracle is one of Periods.
THEOREM PeriodsAreImplemented ==
    ASSUME CarefulGovernance
    PROVE  Spec => ImplementsPeriods
<1>1. Spec => [](TypeOK /\ ConsensusInv)
      BY ConsensusIsInductive
<1>2. (TypeOK /\ ConsensusInv) /\ (TypeOK /\ ConsensusInv)' /\ [Next]_vars
          => [Truth!Next]_(Truth!vars)
      BY TruthStep
<1>. QED BY <1>1, <1>2, TruthInit, PTL DEF Spec, ImplementsPeriods, Truth!Spec

-----------------------------------------------------------------------------
(***************************************************************************)
(* Solvency: what is owed to the producers and to the accounts never       *)
(* exceeds what eosio.bpay and eosio.upay hold.  Each needs only that no   *)
(* rounding gives more than there is, the second also that the datasets of *)
(* a period do not use more than its total.                                *)
(***************************************************************************)
\* The active producers together get no more than their part.
LEMMA IssueBpay ==
    ASSUME TypeOK, BpaySolvent, NEW total \in Totals, NEW m \in Amounts[history.daycount], IssueInflation(total, m)
    PROVE  BpaySolvent'
<1>1. PICK bppay \in Nat, count \in Nat \ {0} :
          /\ count = Cardinality(ranking.active)
          /\ bpay' = bpay + bppay
          /\ producer_pay' = [o \in Oracles |->
                IF o \in ranking.active THEN producer_pay[o] + EarnedPay(bppay, count)
                                        ELSE producer_pay[o]]
      BY IssueMoves
<1>2. PICK pay \in Nat : pay = EarnedPay(bppay, count)
      BY DEF EarnedPay
<1>3. count * pay <= bppay
  <2>1. \A n \in Nat, c \in Nat \ {0} : c * (n \div c) <= n
        OBVIOUS
  <2>. QED BY <1>2, <2>1 DEF EarnedPay
<1>4. IsFiniteSet(Oracles) /\ ranking.active \in SUBSET Oracles /\ IsFiniteSet(ranking.active)
  <2>1. ranking.active \subseteq Oracles
        BY ConstantsAssumption DEF TypeOK
  <2>. QED BY <2>1, ConstantsAssumption, FS_Subset
<1>5. producer_pay \in [Oracles -> Nat] /\ bpay \in Nat
      BY DEF TypeOK
<1>. DEFINE all == [o \in Oracles |-> pay]
            share == [o \in Oracles |-> IF o \in ranking.active THEN pay ELSE 0]
<1>6. SumFunctionOnSet(share, Oracles) = SumFunctionOnSet(all, ranking.active)
      BY <1>4, SumExtends
<1>7. SumFunctionOnSet(all, ranking.active) = count * pay
  <2>1. \A o \in ranking.active : all[o] = pay
        BY <1>4
  <2>. HIDE DEF all
  <2>. QED BY <1>1, <1>4, <2>1, SumConstant
<1>8. PICK paid : paid = producer_pay'
      OBVIOUS
<1>9. /\ DOMAIN paid = Oracles
      /\ \A o \in Oracles : /\ producer_pay[o] \in Int /\ share[o] \in Int
                            /\ paid[o] = producer_pay[o] + share[o]
      BY <1>1, <1>2, <1>5, <1>8
<1>. HIDE DEF all, share
<1>10. SumFunctionOnSet(paid, Oracles)
           = SumFunctionOnSet(producer_pay, Oracles) + SumFunctionOnSet(share, Oracles)
       BY <1>4, <1>9, SumPlus
<1>11. SumFunctionOnSet(producer_pay, Oracles) \in Int /\ SumFunctionOnSet(share, Oracles) \in Int
       BY <1>4, <1>9, SumInt
<1>12. SumFunctionOnSet(producer_pay, Oracles) <= bpay
       BY <1>5 DEF BpaySolvent, SumFunction
<1>13. SumFunctionOnSet(paid, Oracles) <= bpay'
  <2>1. count * pay \in Nat
        OBVIOUS
  <2>. QED BY <1>1, <1>3, <1>5, <1>6, <1>7, <1>10, <1>11, <1>12, <2>1
<1>. QED BY <1>8, <1>9, <1>13 DEF BpaySolvent, SumFunction

\* A claim takes from the balance what it erases from the table.
LEMMA ClaimMoves ==
    ASSUME NEW S, IsFiniteSet(S), NEW f \in [S -> Nat], NEW x \in S,
           NEW b \in Nat, SumFunction(f) <= b
    PROVE  SumFunction([f EXCEPT ![x] = 0]) <= b - f[x]
<1>. DEFINE g == [f EXCEPT ![x] = 0]
<1>1. /\ DOMAIN f = S /\ DOMAIN g = S /\ f[x] \in Nat
      /\ \A y \in S : f[y] \in Int /\ g[y] \in Int
      /\ \A y \in S \ {x} : f[y] = g[y]
      /\ At(f, x) = f[x] /\ At(g, x) = 0
      BY DEF At
<1>. HIDE DEF g
<1>2. Moves(SumFunction(f), SumFunction(g), f[x], 0)
      BY <1>1, SumChanges
<1>3. SumFunction(g) <= b - f[x]
      BY <1>1, <1>2 DEF Moves
<1>. QED BY <1>3 DEF g

LEMMA BpayStep ==
    ASSUME TypeOK, BpaySolvent, [Next]_vars
    PROVE  BpaySolvent'
<1>1. ASSUME UNCHANGED <<producer_pay, bpay>> PROVE BpaySolvent'
      BY <1>1 DEF BpaySolvent
<1>2. ASSUME NEW o, NEW t, NEW c, NEW p, SetTotalUsg(o, t, c, p)
      PROVE  BpaySolvent'
      BY <1>1, <1>2, IssueBpay DEF SetTotalUsg
<1>3. ASSUME NEW o, NEW i, NEW d, NEW p, AddActUsg(o, i, d, p)
      PROVE  BpaySolvent'
      BY <1>1, <1>3 DEF AddActUsg
<1>4. ASSUME NEW o \in Oracles, ClaimRewards(o)
      PROVE  BpaySolvent'
  <2>1. producer_pay \in [Oracles -> Nat] /\ bpay \in Nat /\ IsFiniteSet(Oracles)
        BY ConstantsAssumption DEF TypeOK
  <2>2. bpay' = bpay - producer_pay[o] /\ producer_pay' = [producer_pay EXCEPT ![o] = 0]
        BY <1>4 DEF ClaimRewards
  <2>3. SumFunction([producer_pay EXCEPT ![o] = 0]) <= bpay - producer_pay[o]
        BY <2>1, ClaimMoves DEF BpaySolvent
  <2>. QED BY <2>2, <2>3 DEF BpaySolvent
<1>5. CASE \/ NextPeriod
           \/ \E a \in Accounts : ClaimDistrib(a)
           \/ \E on \in BOOLEAN : ResActivate(on)
           \/ Reinitialise
           \/ \E r \in Rankings : Vote(r)
           \/ UpdateElectedProducers
           \/ Tick
           \/ UNCHANGED vars
  <2>1. UNCHANGED <<producer_pay, bpay>>
        BY <1>5 DEF NextPeriod, ClaimDistrib, ResActivate, Reinitialise, InitResource, Vote,
                    UpdateElectedProducers, Tick, tokens, vars
  <2>. QED BY <1>1, <2>1
<1>6. ASSUME NEW o, HonestTotals(o) \/ HonestDataset(o) \/ FaultyTotals(o) \/ FaultyDataset(o)
      PROVE  BpaySolvent'
      BY <1>2, <1>3, <1>6 DEF HonestTotals, HonestDataset, FaultyTotals, FaultyDataset
<1>. QED BY <1>4, <1>5, <1>6 DEF Next

\* Every producer's claimrewards can be paid, whoever votes the active
\* producers in and out between the issues, and whatever the division rounds.
THEOREM BpayCorrect == Spec => []BpaySolvent
<1>1. Init => BpaySolvent
  <2>. SUFFICES ASSUME Init PROVE BpaySolvent
       OBVIOUS
  <2>1. IsFiniteSet(Oracles) /\ DOMAIN producer_pay = Oracles /\ bpay = 0
        /\ \A o \in Oracles : producer_pay[o] = 0
        BY ConstantsAssumption DEF Init
  <2>2. SumFunction(producer_pay) = 0
        BY <2>1, SumZero DEF SumFunction
  <2>. QED BY <2>1, <2>2 DEF BpaySolvent
<1>2. TypeOK /\ BpaySolvent /\ [Next]_vars => BpaySolvent'
      BY BpayStep
<1>. QED BY <1>1, <1>2, TypeCorrect, PTL DEF Spec

-----------------------------------------------------------------------------
(***************************************************************************)
(* What is paid from eosio.upay.  A dataset is paid in proportion to its   *)
(* part of the true total; that all of them are not more than the total    *)
(* follows from what addactusg checks of the honest oracle that has sent   *)
(* the most of them: the others that agreed may each have sent less.       *)
(***************************************************************************)
TrueCpu(p) == [i \in 1..Len(Reports[p].data) |-> DatasetCpu(Reports[p].data[i])]

\* The usage in the first n datasets that are true of the period p.
SentCpu(p, n) == SumFunctionOnSet(TrueCpu(p), 1..n)

PaidDatasets == [k \in DOMAIN distributions |-> DatasetCpu(distributions[k])]
PaidCpu == SumFunction(PaidDatasets)

\* The honest oracles' rows add up.
HonestRowsAddUp ==
    \A o \in Honest \cap DOMAIN usage :
        /\ usage[o].total = Reports[period_start].total
        /\ usage[o].allocated = SentCpu(period_start, Len(usage[o].hashes) - 1)
        /\ usage[o].allocated <= usage[o].total.cpu

\* What is paid has been sent by an honest oracle.
HonestHaveSentPaid ==
    \A k \in DOMAIN distributions :
        \E o \in Honest \cap DOMAIN usage : k + 1 <= Len(usage[o].hashes)

SentInv == HonestRowsAddUp /\ HonestHaveSentPaid

\* A finite set of numbers, all from 1 to N, has a largest.
LEMMA LargestNumber ==
    ASSUME NEW N \in Nat, NEW S \in SUBSET (1..N), S # {}
    PROVE  \E k \in S : S \subseteq 1..k
<1>. DEFINE Gaps == {N - k : k \in S}
<1>1. Gaps \in SUBSET Nat /\ Gaps # {}
  <2>1. \A k \in S : N - k \in Nat
        OBVIOUS
  <2>2. PICK k \in S : TRUE
        OBVIOUS
  <2>3. N - k \in Gaps
        OBVIOUS
  <2>. QED BY <2>1, <2>3
<1>2. PICK g \in Gaps : \A m \in Gaps : ~(m < g)
  <2>. HIDE DEF Gaps
  <2>. QED BY <1>1, SmallestNumber
<1>3. PICK k \in S : g = N - k
      OBVIOUS
<1>4. ASSUME NEW j \in S PROVE j \in 1..k
  <2>1. N - j \in Gaps
        OBVIOUS
  <2>. QED BY <1>2, <1>3, <2>1
<1>. QED BY <1>4

LEMMA TrueCpuType ==
    ASSUME NEW p \in Starts
    PROVE  /\ Len(Reports[p].data) \in Nat /\ DOMAIN TrueCpu(p) = 1..Len(Reports[p].data)
           /\ \A i \in 1..Len(Reports[p].data) :
                 /\ Reports[p].data[i] \in Datasets
                 /\ TrueCpu(p)[i] = DatasetCpu(Reports[p].data[i]) /\ TrueCpu(p)[i] \in Nat
<1>1. Reports[p].data \in Seq(Datasets)
      BY ConstantsAssumption
<1>2. Len(Reports[p].data) \in Nat /\ \A i \in 1..Len(Reports[p].data) : Reports[p].data[i] \in Datasets
      BY <1>1
<1>. QED BY <1>2, DatasetCpuIsNat DEF TrueCpu

\* The datasets paid in a period do not use more than its total.
PaidWithin == inflation_transferred => PaidCpu \in Nat /\ PaidCpu <= history.total_cpu_us

LEMMA PaidIsWithin == TypeOK /\ ConsensusInv /\ SentInv /\ ConsensusDataIsPaid => PaidWithin
<1>. SUFFICES ASSUME TypeOK, ConsensusInv, SentInv, ConsensusDataIsPaid, inflation_transferred
              PROVE  PaidCpu \in Nat /\ PaidCpu <= history.total_cpu_us
     BY DEF PaidWithin
<1>1. period_start \in Starts /\ history.total_cpu_us = Reports[period_start].total.cpu
      /\ history.total_cpu_us \in Nat
      BY DEF ConsensusInv, InflationIsTrue, TypeOK
<1>2. PICK p \in Starts : p = period_start
      BY <1>1
<1>3. CASE DOMAIN distributions = {}
  <2>1. PaidCpu = 0
        BY <1>3, SumOfNone DEF PaidCpu, PaidDatasets
  <2>. QED BY <1>1, <2>1
<1>4. CASE DOMAIN distributions # {}
  <2>. DEFINE N == Len(Reports[p].data)
  <2>1. /\ N \in Nat /\ DOMAIN TrueCpu(p) = 1..N
        /\ \A i \in 1..N : /\ Reports[p].data[i] \in Datasets
                           /\ TrueCpu(p)[i] = DatasetCpu(Reports[p].data[i]) /\ TrueCpu(p)[i] \in Nat
        BY TrueCpuType
  <2>2. \A k \in DOMAIN distributions :
            /\ k \in 1..N
            /\ distributions[k] \in Datasets
            /\ distributions[k].usage = Reports[p].data[k].usage
        BY <1>2 DEF ConsensusInv, DistributionsAreTrue, ConsensusDataIsPaid, TypeOK
  <2>3. \A k \in DOMAIN distributions : PaidDatasets[k] = TrueCpu(p)[k]
        BY <2>1, <2>2 DEF PaidDatasets, DatasetCpu
  <2>. HIDE DEF N
  <2>4. DOMAIN distributions \in SUBSET (1..N)
        BY <2>2
  <2>5. PICK k \in DOMAIN distributions : DOMAIN distributions \subseteq 1..k
        BY <1>4, <2>1, <2>4, LargestNumber
  <2>6. PICK o \in Honest \cap DOMAIN usage : k + 1 <= Len(usage[o].hashes)
        BY DEF SentInv, HonestHaveSentPaid
  <2>7. PICK n \in 1..N : n = Len(usage[o].hashes) - 1 /\ k <= n
    <3>1. Len(FullHashList(p)) = 1 + N
          BY FullHashListFacts DEF N
    <3>2. Len(usage[o].hashes) \in 1..(1 + N)
          BY <1>2, <3>1 DEF ConsensusInv, HonestRowsAreTrue
    <3>3. k \in 1..N
          BY <2>2
    <3>4. PICK n \in 0..N : n = Len(usage[o].hashes) - 1
      <4>1. PICK l \in 1..(1 + N) : l = Len(usage[o].hashes)
            BY <3>2
      <4>2. l - 1 \in 0..N
            BY <2>1
      <4>. QED BY <4>1, <4>2
    <3>5. Len(usage[o].hashes) = n + 1 /\ k <= n
          BY <2>1, <2>6, <3>2, <3>3, <3>4
    <3>. QED BY <2>1, <3>3, <3>4, <3>5
  <2>8. /\ usage[o].total = Reports[p].total
        /\ usage[o].allocated = SentCpu(p, n)
        /\ usage[o].allocated <= usage[o].total.cpu
        BY <1>2, <2>7 DEF SentInv, HonestRowsAddUp
  <2>9. DOMAIN distributions \in SUBSET (1..n) /\ IsFiniteSet(1..n)
        /\ \A i \in 1..n : TrueCpu(p)[i] \in Nat
    <3>1. k \in 1..N /\ 1..k \subseteq 1..n /\ 1..n \subseteq 1..N /\ n \in Nat
          BY <2>1, <2>2, <2>7
    <3>2. DOMAIN distributions \in SUBSET (1..n)
          BY <2>5, <3>1
    <3>3. IsFiniteSet(1..n)
          BY <3>1, FS_Interval
    <3>4. \A i \in 1..n : TrueCpu(p)[i] \in Nat
          BY <2>1, <3>1
    <3>. QED BY <3>2, <3>3, <3>4
  <2>10. SumFunctionOnSet(TrueCpu(p), DOMAIN distributions) <= SentCpu(p, n)
         BY <2>9, SumOfSubset DEF SentCpu
  <2>11. IsFiniteSet(DOMAIN distributions)
         BY <2>9, FS_Subset
  <2>12. PaidCpu = SumFunctionOnSet(TrueCpu(p), DOMAIN distributions)
    <3>1. SumFunctionOnSet(PaidDatasets, DOMAIN distributions)
              = SumFunctionOnSet(TrueCpu(p), DOMAIN distributions)
          BY <2>3, <2>11, SumAgree
    <3>2. DOMAIN PaidDatasets = DOMAIN distributions
          BY DEF PaidDatasets
    <3>. QED BY <3>1, <3>2 DEF PaidCpu, SumFunction
  <2>13. /\ SumFunctionOnSet(TrueCpu(p), DOMAIN distributions) \in Nat
         /\ SentCpu(p, n) \in Nat
         BY <2>9, <2>11, SumNat DEF SentCpu
  <2>. QED BY <1>1, <1>2, <2>8, <2>10, <2>12, <2>13
<1>. QED BY <1>3, <1>4

LEMMA PaidIsWithinNext ==
    TypeOK' /\ ConsensusInv' /\ SentInv' /\ ConsensusDataIsPaid' => PaidWithin'
      BY PaidIsWithin, PTL

-----------------------------------------------------------------------------
(* The rows of the honest oracles. *)

LEMMA SentUnchanged ==
    ASSUME SentInv, UNCHANGED <<usage, period_start, distributions>>
    PROVE  SentInv'
      BY DEF SentInv, HonestRowsAddUp, HonestHaveSentPaid

\* settotalusg adds a row that has nothing allocated.
LEMMA SetTotalUsgSent ==
    ASSUME TypeOK, ConsensusInv, SentInv,
           NEW source \in Oracles, NEW t \in Totals, NEW commit \in Seq(Hashes), NEW p \in Starts,
           source \in Honest => t = Reports[p].total,
           SetTotalUsg(source, t, commit, p)
    PROVE  SentInv'
<1>. DEFINE row == [total |-> t, allocated |-> 0, hashes |-> <<TotalsHash(t)>>, commit |-> commit]
<1>1. /\ p = period_start /\ source \notin DOMAIN usage
      /\ usage' = Put(usage, source, row)
      /\ UNCHANGED <<period_start, distributions>>
      BY DEF SetTotalUsg, MaySetTotalUsg, IsOpenPeriod
<1>2. row.total = t /\ row.allocated = 0 /\ Len(row.hashes) = 1 /\ t.cpu \in Nat
      BY ConstantsAssumption
<1>. HIDE DEF row
<1>3. /\ DOMAIN usage' = DOMAIN usage \cup {source} /\ usage'[source] = row
      /\ \A o \in DOMAIN usage : usage'[o] = usage[o]
      BY <1>1 DEF Put
<1>4. SentCpu(period_start, Len(row.hashes) - 1) = 0
  <2>1. 1..0 = {}
        OBVIOUS
  <2>. QED BY <1>2, <2>1, SumEmpty DEF SentCpu
<1>5. HonestRowsAddUp'
  <2>1. ASSUME NEW o \in Honest \cap DOMAIN usage'
        PROVE  /\ usage'[o].total = Reports[period_start].total
               /\ usage'[o].allocated = SentCpu(period_start, Len(usage'[o].hashes) - 1)
               /\ usage'[o].allocated <= usage'[o].total.cpu
    <3>1. CASE o = source
      <4>1. usage'[o] = row /\ t = Reports[p].total
            BY <1>3, <2>1, <3>1
      <4>2. 0 <= t.cpu
            BY <1>2
      <4>. QED BY <1>1, <1>2, <1>4, <4>1, <4>2
    <3>2. CASE o # source
          BY <1>3, <3>2 DEF SentInv, HonestRowsAddUp
    <3>. QED BY <3>1, <3>2
  <2>. QED BY <1>1, <2>1 DEF HonestRowsAddUp
<1>6. HonestHaveSentPaid'
  <2>1. ASSUME NEW k \in DOMAIN distributions
        PROVE  \E o \in Honest \cap DOMAIN usage' : k + 1 <= Len(usage'[o].hashes)
    <3>1. PICK o \in Honest \cap DOMAIN usage : k + 1 <= Len(usage[o].hashes)
          BY DEF SentInv, HonestHaveSentPaid
    <3>. QED BY <1>3, <3>1
  <2>. QED BY <1>1, <2>1 DEF HonestHaveSentPaid
<1>. QED BY <1>5, <1>6 DEF SentInv

\* One more true dataset.
LEMMA SentCpuNext ==
    ASSUME NEW p \in Starts, NEW i \in 1..Len(Reports[p].data)
    PROVE  /\ SentCpu(p, i - 1) \in Nat /\ DatasetCpu(Reports[p].data[i]) \in Nat
           /\ SentCpu(p, i) = SentCpu(p, i - 1) + DatasetCpu(Reports[p].data[i])
<1>1. /\ Len(Reports[p].data) \in Nat
      /\ TrueCpu(p)[i] = DatasetCpu(Reports[p].data[i]) /\ TrueCpu(p)[i] \in Nat
      /\ \A j \in 1..Len(Reports[p].data) : TrueCpu(p)[j] \in Nat
      BY TrueCpuType
<1>2. i \in Nat /\ i \in 1..i /\ (1..i) \ {i} = 1..(i - 1) /\ 1..i \subseteq 1..Len(Reports[p].data)
      BY <1>1
<1>3. IsFiniteSet(1..i) /\ IsFiniteSet(1..(i - 1))
      BY <1>2, FS_Interval
<1>4. SumFunctionOnSet(TrueCpu(p), 1..i) = TrueCpu(p)[i] + SumFunctionOnSet(TrueCpu(p), (1..i) \ {i})
  <2>1. \A j \in 1..i : TrueCpu(p)[j] \in Int
        BY <1>1, <1>2
  <2>. QED BY <1>2, <1>3, <2>1, SumRemove
<1>5. SumFunctionOnSet(TrueCpu(p), 1..(i - 1)) \in Nat
  <2>1. \A j \in 1..(i - 1) : TrueCpu(p)[j] \in Nat
        BY <1>1, <1>2
  <2>. QED BY <1>3, <2>1, SumNat
<1>6. SentCpu(p, i) = TrueCpu(p)[i] + SentCpu(p, i - 1) /\ SentCpu(p, i - 1) \in Nat
      BY <1>2, <1>4, <1>5 DEF SentCpu
<1>. QED BY <1>1, <1>6

\* addactusg allocates the usage of the dataset, and no more than the total.
LEMMA AddActUsgSent ==
    ASSUME TypeOK, ConsensusInv, SentInv, TypeOK', ConsensusInv',
           NEW source \in Oracles, NEW d \in Datasets, NEW dataset_id \in Nat \ {0},
           NEW p \in Starts,
           source \in Honest => IsTrueDataset(p, dataset_id, d),
           AddActUsg(source, dataset_id, d, p)
    PROVE  SentInv'
<1>1. /\ p = period_start /\ source \in DOMAIN usage /\ dataset_id = Len(usage[source].hashes)
      /\ DatasetCpu(d) <= usage[source].total.cpu - usage[source].allocated
      /\ UNCHANGED <<threshold, period_start, submitting_oracles>>
      BY DEF AddActUsg, MayAddActUsg, FitsTotal, IsOpenPeriod
<1>2. /\ usage'[source].total = usage[source].total
      /\ Len(usage'[source].hashes) = dataset_id + 1
      /\ \A o \in submitting_oracles : o # source => usage'[o] = usage[o]
  <2>1. DatasetsAreStored
        BY DEF ConsensusInv
  <2>. QED BY <2>1, AddActUsgTables
<1>3. DOMAIN usage = submitting_oracles /\ DOMAIN usage' = submitting_oracles
      /\ usage[source] \in UsageRows /\ submitting_oracles \subseteq Oracles
      BY <1>1 DEF TypeOK
<1>4. usage'[source].allocated = usage[source].allocated + DatasetCpu(d)
  <2>1. usage' = [usage EXCEPT ![source].allocated = @ + DatasetCpu(d),
                               ![source].hashes = Append(@, DatasetHash(d))]
        BY DEF AddActUsg, UsageWith
  <2>. QED BY <1>1, <1>3, <2>1 DEF UsageRows
<1>5. /\ DatasetCpu(d) \in Nat /\ usage[source].allocated \in Nat
      /\ usage[source].total.cpu \in Nat
      BY <1>3, DatasetCpuIsNat, ConstantsAssumption DEF UsageRows
<1>6. HonestRowsAddUp'
  <2>1. ASSUME NEW o \in Honest \cap DOMAIN usage'
        PROVE  /\ usage'[o].total = Reports[period_start].total
               /\ usage'[o].allocated = SentCpu(period_start, Len(usage'[o].hashes) - 1)
               /\ usage'[o].allocated <= usage'[o].total.cpu
    <3>1. o \in Honest \cap DOMAIN usage
          BY <1>3
    <3>2. /\ usage[o].total = Reports[period_start].total
          /\ usage[o].allocated = SentCpu(period_start, Len(usage[o].hashes) - 1)
          /\ usage[o].allocated <= usage[o].total.cpu
          BY <3>1 DEF SentInv, HonestRowsAddUp
    <3>3. CASE o # source
          BY <1>2, <1>3, <3>1, <3>2, <3>3
    <3>4. CASE o = source
      <4>1. dataset_id \in 1..Len(Reports[p].data) /\ d = Reports[p].data[dataset_id]
            BY <2>1, <3>4 DEF IsTrueDataset
      <4>2. SentCpu(p, dataset_id) = SentCpu(p, dataset_id - 1) + DatasetCpu(d)
            BY <4>1, SentCpuNext
      <4>3. Len(usage'[o].hashes) - 1 = dataset_id
            BY <1>2, <3>4
      <4>4. usage[o].allocated = SentCpu(p, dataset_id - 1)
            BY <1>1, <3>2, <3>4
      <4>5. usage'[o].allocated = SentCpu(p, dataset_id)
            BY <1>4, <3>4, <4>2, <4>4
      <4>6. usage'[o].allocated <= usage'[o].total.cpu
            BY <1>1, <1>2, <1>4, <1>5, <3>4
      <4>. QED BY <1>1, <1>2, <3>2, <3>4, <4>3, <4>5, <4>6
    <3>. QED BY <3>3, <3>4
  <2>. QED BY <1>1, <2>1 DEF HonestRowsAddUp
<1>7. HonestHaveSentPaid'
  <2>1. ASSUME NEW k \in DOMAIN distributions
        PROVE  \E o \in Honest \cap DOMAIN usage' : k + 1 <= Len(usage'[o].hashes)
    <3>1. PICK o \in Honest \cap DOMAIN usage : k + 1 <= Len(usage[o].hashes)
          BY DEF SentInv, HonestHaveSentPaid
    <3>2. CASE o # source
          BY <1>2, <1>3, <3>1, <3>2
    <3>3. CASE o = source
      <4>1. k \in Nat
            BY DEF TypeOK
      <4>2. k + 1 <= Len(usage'[o].hashes)
            BY <1>1, <1>2, <3>1, <3>3, <4>1
      <4>. QED BY <1>3, <3>1, <4>2
    <3>. QED BY <3>2, <3>3
  <2>2. CASE distributions' = distributions
        BY <2>1, <2>2 DEF HonestHaveSentPaid
  <2>3. CASE \E h \in Modal(usage', dataset_id + 1) :
                 distributions' = Put(distributions, dataset_id, datasets'[h])
    <3>1. PICK h \in Modal(usage', dataset_id + 1) :
                 distributions' = Put(distributions, dataset_id, datasets'[h])
          BY <2>3
    <3>2. DOMAIN distributions' = DOMAIN distributions \cup {dataset_id}
          BY <3>1 DEF Put
    <3>3. h \in Agreed(usage', dataset_id + 1) /\ threshold \in Thresholds
          BY <3>1 DEF Modal, TypeOK
    <3>4. PICK o \in Voters(usage', dataset_id + 1, h) : o \in Honest
          BY <1>3, <3>3, AgreedHasHonest
    <3>5. o \in Honest \cap DOMAIN usage' /\ dataset_id + 1 <= Len(usage'[o].hashes)
          BY <3>4 DEF Voters
    <3>. QED BY <2>1, <3>2, <3>5 DEF HonestHaveSentPaid
  <2>. QED BY <2>2, <2>3 DEF AddActUsg
<1>. QED BY <1>6, <1>7 DEF SentInv

LEMMA SentStep ==
    ASSUME TypeOK, ConsensusInv, SentInv, TypeOK', ConsensusInv', CarefulGovernance, [Next]_vars
    PROVE  SentInv'
<1>. USE ConstantsAssumption
<1>1. ASSUME NEW o \in Honest, HonestTotals(o)
      PROVE  SentInv'
  <2>1. PICK p \in Starts : SetTotalUsg(o, Reports[p].total, FullHashList(p), p)
        BY <1>1 DEF HonestTotals
  <2>2. o \in Oracles /\ Reports[p].total \in Totals /\ FullHashList(p) \in Seq(Hashes)
        BY FullHashListFacts DEF Honest
  <2>. QED BY <2>1, <2>2, SetTotalUsgSent
<1>2. ASSUME NEW o \in Honest, HonestDataset(o)
      PROVE  SentInv'
  <2>1. PICK p \in Starts : \E i \in 1..Len(Reports[p].data) :
                                AddActUsg(o, i, Reports[p].data[i], p)
        BY <1>2 DEF HonestDataset
  <2>2. PICK i \in 1..Len(Reports[p].data) : AddActUsg(o, i, Reports[p].data[i], p)
        BY <2>1
  <2>3. Reports[p].data[i] \in Datasets /\ i \in Nat \ {0} /\ o \in Oracles
        BY TrueCpuType DEF Honest
  <2>4. IsTrueDataset(p, i, Reports[p].data[i])
        BY DEF IsTrueDataset
  <2>. QED BY <2>2, <2>3, <2>4, AddActUsgSent
<1>3. ASSUME NEW o \in Faulty, FaultyTotals(o)
      PROVE  SentInv'
  <2>1. PICK t \in Totals, c \in Commitments, p \in Starts : SetTotalUsg(o, t, c, p)
        BY <1>3 DEF FaultyTotals
  <2>2. o \in Oracles /\ o \notin Honest /\ c \in Seq(Hashes)
        BY CommitmentsType DEF Honest
  <2>. QED BY <2>1, <2>2, SetTotalUsgSent
<1>4. ASSUME NEW o \in Faulty, FaultyDataset(o)
      PROVE  SentInv'
  <2>1. PICK d \in Datasets, i \in 1..MaxDataset, p \in Starts : AddActUsg(o, i, d, p)
        BY <1>4 DEF FaultyDataset
  <2>2. o \in Oracles /\ o \notin Honest /\ i \in Nat \ {0}
        BY DEF Honest
  <2>. QED BY <2>1, <2>2, AddActUsgSent
<1>5. CASE NextPeriod
      BY <1>5 DEF NextPeriod, SentInv, HonestRowsAddUp, HonestHaveSentPaid
<1>6. CASE Reinitialise
  <2>1. UNCHANGED <<usage, distributions, submitting_oracles>>
        BY <1>6 DEF Reinitialise, InitResource
  <2>2. CASE submitting_oracles # {}
    <3>1. period_start' = period_start
          BY <1>6, <2>2 DEF Reinitialise, InitResource
    <3>. QED BY <2>1, <3>1, SentUnchanged
  <2>3. CASE submitting_oracles = {}
    <3>1. DOMAIN usage = {} /\ DOMAIN distributions = {}
          BY <2>3 DEF TypeOK, ConsensusInv, PaymentsNeedSubmissions
    <3>. QED BY <2>1, <3>1 DEF SentInv, HonestRowsAddUp, HonestHaveSentPaid
  <2>. QED BY <2>2, <2>3
<1>7. CASE \/ \E a \in Accounts : ClaimDistrib(a)
           \/ \E o \in Oracles : ClaimRewards(o)
           \/ \E on \in BOOLEAN : ResActivate(on)
           \/ \E r \in Rankings : Vote(r)
           \/ UpdateElectedProducers
           \/ Tick
           \/ UNCHANGED vars
  <2>1. UNCHANGED <<usage, period_start, distributions>>
        BY <1>7 DEF ClaimDistrib, ClaimRewards, ResActivate, Vote, UpdateElectedProducers, Tick,
                    config, vars
  <2>. QED BY <2>1, SentUnchanged
<1>. QED BY <1>1, <1>2, <1>3, <1>4, <1>5, <1>6, <1>7 DEF Next

-----------------------------------------------------------------------------
(* The payments. *)

Slack == upay - SumFunction(account_pay)

(***************************************************************************)
(* Of the tokens U issued for a period with the total usage T, the usage   *)
(* paid for has taken at most its part of them and what rounding may have  *)
(* added, (U - Slack) <= paid * (U / T) * (1 + 1/Precision).               *)
(***************************************************************************)
Taken(slack, U, T, paid) == (U - slack) * (T * Precision) <= paid * (U * (Precision + 1))

\* What is left in eosio.upay and owed to nobody is at least the period's
\* tokens without the part of the usage that is paid.
PayInv ==
    /\ Slack >= 0
    /\ inflation_transferred =>
           /\ history.utility_tokens <= PeriodCap
           /\ Taken(Slack, history.utility_tokens, history.total_cpu_us, PaidCpu)

\* When no more than the total is paid for, the tokens suffice: of an amount
\* below the precision, rounding has not added a whole token.
LEMMA TakenIsThere ==
    ASSUME NEW s \in Int, NEW U \in Nat, NEW T \in Nat, NEW paid \in Nat,
           Taken(s, U, T, paid), paid <= T, T > 0, U < Precision
    PROVE  s >= 0
<1>1. Precision \in Nat
      BY ConstantsAssumption
<1>2. PICK W \in Nat, D \in Nat : W = U * (Precision + 1) /\ D = T * Precision
      BY <1>1
<1>3. (U - s) * D <= paid * W /\ paid * W <= T * W
      BY <1>2 DEF Taken
<1>4. T * W = U * D + T * U
      BY <1>1, <1>2
<1>5. (U - s - U) * D <= T * U
  <2>1. (U - s - U) * D = (U - s) * D - U * D
        OBVIOUS
  <2>2. (U - s) * D \in Int /\ paid * W \in Int /\ T * W \in Int /\ U * D \in Int /\ T * U \in Int
        OBVIOUS
  <2>. QED BY <1>3, <1>4, <2>1, <2>2
<1>6. T * U < D
  <2>1. PICK x \in Nat : x = Precision /\ U + 1 <= x
        BY <1>1
  <2>2. T * (U + 1) <= T * x
        BY <2>1
  <2>3. T * (U + 1) = T * U + T
        OBVIOUS
  <2>. QED BY <1>2, <2>1, <2>2, <2>3
<1>7. U - s <= U
      BY <1>5, <1>6, WithinOne
<1>. QED BY <1>7

\* The payout loop credits no more than the dataset's part and its rounding.
LEMMA CreditMoves ==
    ASSUME TypeOK, NEW d \in Datasets, CreditAccounts(d)
    PROVE  \E credit \in Nat :
              /\ SumFunction(account_pay) \in Int
              /\ SumFunction(account_pay') = SumFunction(account_pay) + credit
              /\ credit * (history.total_cpu_us * Precision)
                     <= DatasetCpu(d) * (history.utility_tokens * (Precision + 1))
              /\ history.total_cpu_us = 0 => credit = 0
<1>1. PICK payout :
          /\ \A a \in DOMAIN d.usage :
                payout[a] \in Truncated(d.usage[a], history.total_cpu_us, history.utility_tokens)
          /\ account_pay' = [a \in Accounts |->
                IF a \in DOMAIN d.usage THEN account_pay[a] + payout[a] ELSE account_pay[a]]
      BY Zenon DEF CreditAccounts
<1>2. DOMAIN d.usage # {} => history.total_cpu_us > 0
      BY DEF CreditAccounts, MayCredit
<1>3. PICK T \in Nat, U \in Nat : T = history.total_cpu_us /\ U = history.utility_tokens
      BY DEF TypeOK
<1>4. PICK D \in SUBSET Accounts : D = DOMAIN d.usage /\ IsFiniteSet(D)
      BY DatasetUsage
<1>5. \A a \in D : d.usage[a] \in Nat
      BY <1>4, DatasetUsage
<1>. DEFINE Whole == T * Precision
            Part == U * (Precision + 1)
<1>0. Precision \in Nat /\ Whole \in Nat /\ Part \in Nat
      BY ConstantsAssumption
<1>6. ASSUME NEW a \in D
      PROVE  payout[a] \in Nat /\ payout[a] * Whole <= d.usage[a] * Part
  <2>1. payout[a] \in Truncated(d.usage[a], T, U) /\ d.usage[a] \in Nat
        BY <1>1, <1>3, <1>4, <1>5
  <2>2. payout[a] \in Nat
        BY <2>1, TruncatedFacts
  <2>3. payout[a] * T * Precision <= d.usage[a] * U * (Precision + 1)
        BY <2>1 DEF Truncated
  <2>4. /\ payout[a] * T * Precision = payout[a] * Whole
        /\ d.usage[a] * U * (Precision + 1) = d.usage[a] * Part
        BY <1>0, <2>1, <2>2
  <2>. QED BY <2>2, <2>3, <2>4
<1>. HIDE DEF Whole, Part
<1>. DEFINE all == [a \in Accounts |-> IF a \in D THEN payout[a] ELSE 0]
            credit == SumFunctionOnSet(all, D)
<1>7. \A a \in D : all[a] \in Nat /\ all[a] = payout[a]
      BY <1>6
<1>8. \A a \in Accounts : all[a] \in Int /\ all[a] = IF a \in D THEN all[a] ELSE 0
      BY <1>6
<1>9. PICK pay : pay = account_pay'
      OBVIOUS
<1>10. /\ DOMAIN pay = Accounts /\ DOMAIN account_pay = Accounts
       /\ \A a \in Accounts : account_pay[a] \in Int /\ all[a] \in Int /\ pay[a] = account_pay[a] + all[a]
  <2>1. account_pay \in [Accounts -> Nat]
        BY DEF TypeOK
  <2>. QED BY <1>1, <1>4, <1>6, <1>9, <2>1
<1>. HIDE DEF all
<1>11. credit \in Nat
       BY <1>4, <1>7, SumNat
<1>12. SumFunctionOnSet(all, Accounts) = credit
       BY <1>8, ConstantsAssumption, SumExtends
<1>13. SumFunctionOnSet(pay, Accounts)
           = SumFunctionOnSet(account_pay, Accounts) + SumFunctionOnSet(all, Accounts)
       BY <1>10, ConstantsAssumption, SumPlus
<1>14. SumFunctionOnSet(account_pay, Accounts) \in Int
       BY <1>10, ConstantsAssumption, SumInt
<1>15. credit * Whole <= SumFunctionOnSet(d.usage, D) * Part
  <2>1. \A a \in D : all[a] \in Nat /\ d.usage[a] \in Nat /\ all[a] * Whole <= d.usage[a] * Part
        BY <1>5, <1>6, <1>7
  <2>. QED BY <1>0, <1>4, <2>1, SumParts
<1>16. SumFunctionOnSet(d.usage, D) = DatasetCpu(d)
       BY <1>4 DEF DatasetCpu, SumFunction
<1>17. T = 0 => credit = 0
  <2>1. T = 0 => D = {}
        BY <1>2, <1>3, <1>4
  <2>. QED BY <2>1, SumEmpty
<1>18. /\ SumFunction(account_pay) = SumFunctionOnSet(account_pay, Accounts)
       /\ SumFunction(account_pay') = SumFunctionOnSet(pay, Accounts)
       BY <1>9, <1>10 DEF SumFunction
<1>. HIDE DEF credit
<1>19. Whole = history.total_cpu_us * Precision /\ Part = history.utility_tokens * (Precision + 1)
       BY <1>3 DEF Whole, Part
<1>. QED BY <1>3, <1>11, <1>12, <1>13, <1>14, <1>15, <1>16, <1>17, <1>18, <1>19

\* The datasets of a period's distributions are finitely many.
LEMMA PaidCpuType ==
    ASSUME TypeOK, ConsensusInv
    PROVE  /\ IsFiniteSet(DOMAIN distributions) /\ DOMAIN PaidDatasets = DOMAIN distributions
           /\ \A k \in DOMAIN distributions : PaidDatasets[k] \in Nat
           /\ PaidCpu \in Nat
<1>1. IsFiniteSet(DOMAIN distributions)
  <2>1. CASE DOMAIN distributions = {}
        BY <2>1, FS_EmptySet
  <2>2. CASE DOMAIN distributions # {}
    <3>1. PICK p \in Starts : p = period_start
          BY <2>2 DEF ConsensusInv, DistributionsAreTrue
    <3>2. DOMAIN distributions \subseteq 1..Len(Reports[p].data)
          BY <3>1 DEF ConsensusInv, DistributionsAreTrue
    <3>3. Len(Reports[p].data) \in Nat
          BY TrueCpuType
    <3>4. IsFiniteSet(1..Len(Reports[p].data))
          BY <3>3, FS_Interval
    <3>. QED BY <3>2, <3>4, FS_Subset
  <2>. QED BY <2>1, <2>2
<1>2. /\ DOMAIN PaidDatasets = DOMAIN distributions
      /\ \A k \in DOMAIN distributions : PaidDatasets[k] \in Nat
      BY DatasetCpuIsNat DEF PaidDatasets, TypeOK
<1>. QED BY <1>1, <1>2, SumNat DEF PaidCpu, SumFunction

\* Paying what the history and the sums do not see leaves the invariant.
LEMMA PayUnchanged ==
    ASSUME PayInv, UNCHANGED <<upay, account_pay, inflation_transferred, history, distributions>>
    PROVE  PayInv'
      BY DEF PayInv, Taken, Slack, PaidCpu, PaidDatasets

\* settotalusg issues the period's tokens before any of it is paid.
LEMMA IssueUpay ==
    ASSUME TypeOK, DistributionsAreBacked, PayInv, ~inflation_transferred,
           NEW total \in Totals, NEW m \in Amounts[history.daycount], IssueInflation(total, m),
           UNCHANGED <<account_pay, distributions>>
    PROVE  PayInv'
<1>1. PICK U \in Nat, bppay \in Nat, count \in Nat \ {0} :
          /\ history' = [daycount |-> history.daycount + 1, total_cpu_us |-> total.cpu,
                         utility_tokens |-> U, bppay_tokens |-> bppay]
          /\ upay' = upay + U /\ U <= PeriodCap
      BY IssueMoves
<1>2. total.cpu \in Nat
      BY ConstantsAssumption
<1>3. PICK T \in Nat : T = history'.total_cpu_us /\ U = history'.utility_tokens
      BY <1>1, <1>2
<1>4. DOMAIN distributions' = {}
      BY DEF DistributionsAreBacked, DistributionsFollowInflation
<1>5. PaidCpu' = 0
  <2>1. DOMAIN PaidDatasets' = {}
        BY <1>4 DEF PaidDatasets
  <2>. QED BY <2>1, SumOfNone DEF PaidCpu
<1>6. PICK owed \in Int : owed = SumFunction(account_pay) /\ owed = SumFunction(account_pay')
  <2>1. IsFiniteSet(Accounts) /\ account_pay \in [Accounts -> Nat]
        BY ConstantsAssumption DEF TypeOK
  <2>2. SumFunction(account_pay) \in Int
        BY <2>1, SumNat DEF SumFunction
  <2>. QED BY <2>2
<1>7. upay \in Nat /\ upay - owed >= 0
      BY <1>6 DEF PayInv, Slack, TypeOK
<1>8. Slack' >= U /\ Slack' \in Int
      BY <1>1, <1>6, <1>7 DEF Slack
<1>9. Taken(Slack', U, T, 0)
  <2>1. PICK D \in Nat, W \in Int : D = T * Precision /\ W = U * (Precision + 1)
        BY ConstantsAssumption
  <2>2. \A s \in Int : s >= U => (U - s) * D <= 0 * W
        OBVIOUS
  <2>. QED BY <1>8, <2>1, <2>2 DEF Taken
<1>10. Taken(Slack, history.utility_tokens, history.total_cpu_us, PaidCpu)'
       BY <1>3, <1>5, <1>9 DEF Taken
<1>11. Slack' >= 0 /\ history'.utility_tokens <= PeriodCap
       BY <1>1, <1>3, <1>8
<1>. QED BY <1>10, <1>11 DEF PayInv

\* What a payment credits is within what it adds to the usage paid for.
LEMMA PaymentMoves ==
    ASSUME NEW s \in Int, NEW T \in Nat, NEW U \in Nat, NEW credit \in Nat,
           NEW cpu \in Nat, NEW paid \in Nat, Taken(s, U, T, paid),
           credit * (T * Precision) <= cpu * (U * (Precision + 1))
    PROVE  Taken(s - credit, U, T, paid + cpu)
<1>1. PICK D \in Nat, W \in Nat : D = T * Precision /\ W = U * (Precision + 1)
      BY ConstantsAssumption
<1>2. (U - s) * D <= paid * W /\ credit * D <= cpu * W
      BY <1>1 DEF Taken
<1>3. (U - (s - credit)) * D = (U - s) * D + credit * D /\ (paid + cpu) * W = paid * W + cpu * W
      OBVIOUS
<1>4. (U - s) * D \in Int /\ paid * W \in Int /\ credit * D \in Int /\ cpu * W \in Int
      OBVIOUS
<1>5. (U - (s - credit)) * D <= (paid + cpu) * W
      BY <1>2, <1>3, <1>4
<1>. QED BY <1>1, <1>5 DEF Taken

\* addactusg pays a dataset its part, and once.
LEMMA PaymentUpay ==
    ASSUME TypeOK, ConsensusInv, PayInv, TypeOK', ConsensusInv', PaidWithin',
           inflation_transferred, UNCHANGED <<inflation_transferred, history, upay>>,
           NEW d \in Datasets, NEW k, k \notin DOMAIN distributions,
           CreditAccounts(d), distributions' = Put(distributions, k, d)
    PROVE  PayInv'
<1>1. PICK credit \in Nat :
          /\ SumFunction(account_pay) \in Int
          /\ SumFunction(account_pay') = SumFunction(account_pay) + credit
          /\ credit * (history.total_cpu_us * Precision)
                 <= DatasetCpu(d) * (history.utility_tokens * (Precision + 1))
          /\ history.total_cpu_us = 0 => credit = 0
      BY CreditMoves
<1>2. /\ DOMAIN PaidDatasets = DOMAIN distributions
      /\ IsFiniteSet(DOMAIN distributions)
      /\ \A j \in DOMAIN distributions : PaidDatasets[j] \in Nat
      /\ PaidCpu \in Nat
      BY PaidCpuType
<1>3. PICK f, g : f = PaidDatasets /\ g = PaidDatasets'
      OBVIOUS
<1>4. DatasetCpu(d) \in Nat
      BY DatasetCpuIsNat
<1>5. /\ DOMAIN g = DOMAIN f \cup {k} /\ k \notin DOMAIN f
      /\ g[k] = DatasetCpu(d) /\ \A j \in DOMAIN f : g[j] = f[j]
  <2>1. DOMAIN distributions' = DOMAIN distributions \cup {k}
        /\ distributions'[k] = d
        /\ \A j \in DOMAIN distributions : distributions'[j] = distributions[j]
        BY DEF Put
  <2>. QED BY <1>2, <1>3, <2>1 DEF PaidDatasets
<1>6. IsFiniteSet(DOMAIN f) /\ \A j \in DOMAIN f : f[j] \in Int
      BY <1>2, <1>3
<1>7. /\ \A j \in DOMAIN g : g[j] \in Int
      /\ DOMAIN f \ {k} = DOMAIN g \ {k} /\ \A j \in DOMAIN f \ {k} : f[j] = g[j]
      /\ At(f, k) = 0 /\ At(g, k) = DatasetCpu(d)
      BY <1>4, <1>5, <1>6 DEF At
<1>8. Moves(SumFunction(f), SumFunction(g), 0, DatasetCpu(d))
      BY <1>6, <1>7, SumChanges
<1>9. PaidCpu' = PaidCpu + DatasetCpu(d)
      BY <1>3, <1>8 DEF PaidCpu, Moves
<1>10. PICK T \in Nat, U \in Nat :
          /\ T = history.total_cpu_us /\ U = history.utility_tokens
          /\ T = history'.total_cpu_us /\ U = history'.utility_tokens
       BY DEF TypeOK
<1>11. PaidCpu' \in Nat /\ PaidCpu' <= T
       BY <1>10 DEF PaidWithin
<1>12. upay \in Nat /\ upay' = upay
       BY DEF TypeOK
<1>13. Slack \in Int /\ Slack' \in Int /\ Slack' = Slack - credit
       BY <1>1, <1>12 DEF Slack
<1>14. Slack >= 0 /\ Taken(Slack, U, T, PaidCpu) /\ U <= PeriodCap
       BY <1>10 DEF PayInv
<1>15. credit * (T * Precision) <= DatasetCpu(d) * (U * (Precision + 1)) /\ (T = 0 => credit = 0)
       BY <1>1, <1>10
<1>16. PICK s \in Int, t \in Int, paid \in Nat, now_paid \in Nat, cpu \in Nat :
          s = Slack /\ t = Slack' /\ paid = PaidCpu /\ now_paid = PaidCpu' /\ cpu = DatasetCpu(d)
       BY <1>2, <1>4, <1>11, <1>13
<1>17. t = s - credit /\ now_paid = paid + cpu /\ now_paid <= T
       BY <1>9, <1>11, <1>13, <1>16
<1>18. Taken(t, U, T, now_paid)
  <2>1. Taken(s, U, T, paid) /\ credit * (T * Precision) <= cpu * (U * (Precision + 1))
        BY <1>14, <1>15, <1>16
  <2>. QED BY <1>17, <2>1, PaymentMoves
<1>19. t >= 0
  <2>1. CASE T = 0
        BY <1>14, <1>15, <1>16, <1>17, <2>1
  <2>2. CASE T > 0
    <3>1. U < Precision
          BY <1>14, ConstantsAssumption
    <3>. QED BY <1>17, <1>18, <2>2, <3>1, TakenIsThere
  <2>. QED BY <2>1, <2>2
<1>20. Taken(Slack, history.utility_tokens, history.total_cpu_us, PaidCpu)'
       BY <1>10, <1>16, <1>18 DEF Taken
<1>21. Slack' >= 0 /\ history'.utility_tokens <= PeriodCap
       BY <1>10, <1>14, <1>16, <1>19
<1>. QED BY <1>20, <1>21 DEF PayInv

\* claimdistrib pays out what it strikes off.
LEMMA ClaimUpay ==
    ASSUME TypeOK, PayInv, NEW a \in Accounts, ClaimDistrib(a)
    PROVE  PayInv'
<1>1. /\ upay' = upay - account_pay[a] /\ account_pay' = [account_pay EXCEPT ![a] = 0]
      /\ UNCHANGED <<inflation_transferred, history, distributions>>
      BY DEF ClaimDistrib, config
<1>2. /\ IsFiniteSet(Accounts) /\ account_pay \in [Accounts -> Nat] /\ upay \in Nat
      BY ConstantsAssumption DEF TypeOK
<1>3. PICK f, g : f = account_pay /\ g = account_pay'
      OBVIOUS
<1>4. /\ DOMAIN f = Accounts /\ DOMAIN g = Accounts
      /\ \A b \in Accounts : f[b] \in Int /\ g[b] \in Int
      /\ \A b \in Accounts \ {a} : f[b] = g[b]
      /\ At(f, a) = f[a] /\ At(g, a) = 0
      BY <1>1, <1>2, <1>3 DEF At
<1>5. Moves(SumFunction(f), SumFunction(g), f[a], 0)
      BY <1>2, <1>4, SumChanges
<1>6. Slack' = Slack
      BY <1>1, <1>2, <1>3, <1>5 DEF Slack, Moves
<1>7. PaidCpu' = PaidCpu
      BY <1>1 DEF PaidCpu, PaidDatasets
<1>. QED BY <1>1, <1>6, <1>7 DEF PayInv, Taken

LEMMA PayStep ==
    ASSUME TypeOK, ConsensusInv, SentInv, DistributionsAreBacked, PayInv,
           TypeOK', ConsensusInv', PaidWithin', [Next]_vars
    PROVE  PayInv'
<1>. USE ConstantsAssumption
<1>1. ASSUME NEW o, NEW t, NEW c, NEW p, SetTotalUsg(o, t, c, p)
      PROVE  PayInv'
  <2>1. UNCHANGED <<account_pay, distributions>>
        BY <1>1 DEF SetTotalUsg
  <2>2. CASE UNCHANGED <<inflation_transferred, history, upay>>
        BY <2>1, <2>2, PayUnchanged
  <2>3. ASSUME ~inflation_transferred,
               NEW total \in Totals, NEW m \in Amounts[history.daycount], IssueInflation(total, m)
        PROVE  PayInv'
        BY <2>1, <2>3, IssueUpay
  <2>. QED BY <1>1, <2>2, <2>3 DEF SetTotalUsg
<1>2. ASSUME NEW o \in Oracles, NEW d \in Datasets, NEW i \in Nat \ {0}, NEW p,
             AddActUsg(o, i, d, p)
      PROVE  PayInv'
  <2>1. inflation_transferred /\ UNCHANGED <<inflation_transferred, history, upay>>
        BY <1>2 DEF AddActUsg, MayAddActUsg
  <2>2. CASE UNCHANGED <<distributions, account_pay>>
        BY <2>1, <2>2, PayUnchanged
  <2>3. ASSUME i \notin DOMAIN distributions, NEW h \in Modal(usage', i + 1),
               CreditAccounts(datasets'[h]), distributions' = Put(distributions, i, datasets'[h])
        PROVE  PayInv'
    <3>1. DatasetsAreStored
          BY DEF ConsensusInv
    <3>2. PICK e \in Datasets : e = datasets'[h]
          BY <1>2, <3>1, PaidIsStored
    <3>. QED BY <2>1, <2>3, <3>2, PaymentUpay
  <2>4. \/ UNCHANGED <<distributions, account_pay>>
        \/ /\ i \notin DOMAIN distributions
           /\ \E h \in Modal(usage', i + 1) :
                 /\ CreditAccounts(datasets'[h])
                 /\ distributions' = Put(distributions, i, datasets'[h])
        BY <1>2 DEF AddActUsg
  <2>. QED BY <2>2, <2>3, <2>4
<1>3. ASSUME NEW o \in Honest, HonestDataset(o)
      PROVE  PayInv'
  <2>1. PICK p \in Starts : \E i \in 1..Len(Reports[p].data) :
                                AddActUsg(o, i, Reports[p].data[i], p)
        BY <1>3 DEF HonestDataset
  <2>2. PICK i \in 1..Len(Reports[p].data) : AddActUsg(o, i, Reports[p].data[i], p)
        BY <2>1
  <2>3. Reports[p].data[i] \in Datasets /\ i \in Nat \ {0} /\ o \in Oracles
        BY TrueCpuType DEF Honest
  <2>. QED BY <1>2, <2>2, <2>3
<1>4. ASSUME NEW o \in Faulty, FaultyDataset(o)
      PROVE  PayInv'
  <2>1. PICK d \in Datasets, i \in 1..MaxDataset, p \in Starts : AddActUsg(o, i, d, p)
        BY <1>4 DEF FaultyDataset
  <2>2. o \in Oracles /\ i \in Nat \ {0}
        OBVIOUS
  <2>. QED BY <1>2, <2>1, <2>2
<1>5. ASSUME NEW o, HonestTotals(o) \/ FaultyTotals(o)
      PROVE  PayInv'
      BY <1>1, <1>5 DEF HonestTotals, FaultyTotals
<1>6. CASE NextPeriod
  <2>1. ~inflation_transferred' /\ UNCHANGED <<upay, account_pay>>
        BY <1>6 DEF NextPeriod, tokens
  <2>. QED BY <2>1 DEF PayInv, Slack
<1>7. ASSUME NEW a \in Accounts, ClaimDistrib(a)
      PROVE  PayInv'
      BY <1>7, ClaimUpay
<1>8. CASE \/ \E o \in Oracles : ClaimRewards(o)
           \/ \E on \in BOOLEAN : ResActivate(on)
           \/ Reinitialise
           \/ \E r \in Rankings : Vote(r)
           \/ UpdateElectedProducers
           \/ Tick
           \/ UNCHANGED vars
  <2>1. UNCHANGED <<upay, account_pay, inflation_transferred, history, distributions>>
        BY <1>8 DEF ClaimRewards, ResActivate, Reinitialise, InitResource, Vote,
                    UpdateElectedProducers, Tick, config, tokens, vars
  <2>. QED BY <2>1, PayUnchanged
<1>. QED BY <1>3, <1>4, <1>5, <1>6, <1>7, <1>8 DEF Next

LEMMA PayInit ==
    ASSUME Init
    PROVE  SentInv /\ PayInv
<1>1. /\ DOMAIN usage = {} /\ DOMAIN distributions = {} /\ ~inflation_transferred
      /\ upay = 0 /\ account_pay = [a \in Accounts |-> 0]
      BY DEF Init
<1>2. SumFunction(account_pay) = 0
      BY <1>1, ConstantsAssumption, SumZero DEF SumFunction
<1>. QED BY <1>1, <1>2 DEF SentInv, HonestRowsAddUp, HonestHaveSentPaid, PayInv, Slack

\* Every account's claimdistrib can be paid, as long as governance leaves the
\* open period alone and addactusg pays the datasets agreed on: whatever faulty
\* oracles below the threshold send, in whatever order the datasets are agreed
\* on, and however the conversions round, up or down.
THEOREM UpayCorrect ==
    ASSUME CarefulGovernance
    PROVE  Spec => UpayIsSolvent
<1>1. Init => SentInv /\ PayInv
      BY PayInit
<1>2. /\ TypeOK /\ ConsensusInv /\ DistributionsAreBacked /\ TypeOK' /\ ConsensusInv'
      /\ ConsensusDataIsPaid'
      /\ SentInv /\ PayInv /\ [Next]_vars
      => SentInv' /\ PayInv'
      BY SentStep, PaidIsWithinNext, PayStep
<1>3. TypeOK /\ PayInv => UpaySolvent
  <2>. SUFFICES ASSUME TypeOK, PayInv PROVE UpaySolvent
       OBVIOUS
  <2>1. SumFunction(account_pay) \in Int /\ upay \in Int
        BY ConstantsAssumption, SumNat DEF TypeOK, SumFunction
  <2>. QED BY <2>1 DEF PayInv, Slack, UpaySolvent
<1>4. Spec => [](TypeOK /\ ConsensusInv)
      BY ConsensusIsInductive
<1>. QED BY <1>1, <1>2, <1>3, <1>4, PaymentsAreInductive, PTL DEF Spec, UpayIsSolvent

-----------------------------------------------------------------------------
(* What the honest oracles need of the others: nothing. *)

\* Two datasets that addactusg cannot tell apart report as much usage.
TextsDetermineUsage == \A d, e \in Datasets : d.text = e.text => DatasetCpu(d) = DatasetCpu(e)

\* There are as many honest oracles as any threshold.
EnoughHonest == \A t \in Thresholds : Cardinality(Honest) >= t

\* Nobody's commitment but the honest oracles' gets as many votes.
LEMMA HonestModal ==
    ASSUME EnoughHonest
    PROVE  TypeOK /\ ConsensusInv => HonestSuffice
<1>. SUFFICES ASSUME TypeOK, ConsensusInv,
                     \A o \in Honest : o \in DOMAIN usage
                                      /\ usage[o].hashes = FullHashList(period_start)
              PROVE  \E c \in Commitments : MayClose(c)
     BY DEF HonestSuffice
<1>. DEFINE c == FullHashList(period_start)
<1>1. /\ IsFiniteSet(Oracles) /\ IsFiniteSet(Faulty) /\ IsFiniteSet(Honest)
      /\ Faulty \subseteq Oracles /\ Honest \subseteq Oracles
      BY ConstantsAssumption, FS_Subset DEF Honest
<1>2. /\ threshold \in Thresholds /\ threshold \in Nat
      /\ DOMAIN usage = submitting_oracles /\ submitting_oracles \subseteq Oracles
      BY ConstantsAssumption DEF TypeOK
<1>3. /\ Cardinality(Faulty) \in Nat /\ Cardinality(Honest) \in Nat
      /\ Cardinality(Faulty) < threshold /\ threshold <= Cardinality(Honest)
      BY <1>1, <1>2, FS_CardinalityType, FaultyAssumption DEF EnoughHonest
<1>4. Honest # {}
  <2>1. Cardinality(Honest) # 0
        BY <1>2, <1>3
  <2>. QED BY <1>1, <2>1, FS_EmptySet
<1>5. period_start \in Starts /\ \A o \in Honest : usage[o].commit = c
      BY <1>4 DEF ConsensusInv, HonestRowsAreTrue
<1>6. c \in Commitments
      BY <1>5 DEF Commitments
<1>. HIDE DEF c
<1>7. ASSUME NEW S \in SUBSET Oracles, Honest \subseteq S
      PROVE  Cardinality(S) \in Nat /\ Cardinality(S) >= threshold
  <2>1. IsFiniteSet(S) /\ Cardinality(Honest) <= Cardinality(S)
        BY <1>1, <1>7, FS_Subset
  <2>2. Cardinality(S) \in Nat
        BY <2>1, FS_CardinalityType
  <2>. QED BY <1>2, <1>3, <2>1, <2>2
<1>8. Honest \subseteq Revealed(c) /\ Revealed(c) \subseteq Committed(c) /\ Committed(c) \subseteq Oracles
      BY <1>2, <1>5 DEF Revealed, Committed, c
<1>9. ASSUME NEW b \in Commitments
      PROVE  Cardinality(Committed(b)) <= Cardinality(Committed(c))
  <2>1. CASE b = c
    <3>1. Cardinality(Committed(c)) \in Nat
          BY <1>7, <1>8
    <3>. QED BY <2>1, <3>1
  <2>2. CASE b # c
    <3>1. Committed(b) \subseteq Faulty
          BY <1>2, <1>5, <2>2 DEF Committed, Honest
    <3>2. /\ Cardinality(Committed(b)) <= Cardinality(Faulty) /\ Cardinality(Committed(b)) \in Nat
          BY <1>1, <3>1, FS_Subset, FS_CardinalityType
    <3>3. Cardinality(Committed(c)) \in Nat /\ Cardinality(Committed(c)) >= threshold
          BY <1>7, <1>8
    <3>. QED BY <1>2, <1>3, <3>2, <3>3
  <2>. QED BY <2>1, <2>2
<1>10. Cardinality(Committed(c)) >= threshold /\ Cardinality(Revealed(c)) >= threshold
       BY <1>7, <1>8
<1>. QED BY <1>6, <1>9, <1>10 DEF MayClose

\* With as many honest oracles as the threshold, nextperiod needs nobody else.
THEOREM SufficeCorrect ==
    ASSUME CarefulGovernance, EnoughHonest
    PROVE  Spec => []HonestSuffice
<1>1. TypeOK /\ ConsensusInv => HonestSuffice
      BY HonestModal
<1>. QED BY <1>1, ConsensusIsInductive, PTL

(***************************************************************************)
(* What settotalusg and addactusg would take from one oracle alone: the    *)
(* totals are within the system's limits, a dataset is no larger than a    *)
(* batch, no usage in it is zero, and the datasets use no more than the    *)
(* total.                                                                  *)
(***************************************************************************)
ReportsAreFeasible ==
    \A p \in Starts :
        /\ WithinSystem(Reports[p].total)
        /\ \A i \in 1..Len(Reports[p].data) :
                /\ Cardinality(DOMAIN Reports[p].data[i].usage) <= BatchSize
                /\ \A a \in DOMAIN Reports[p].data[i].usage : Reports[p].data[i].usage[a] > 0
        /\ SentCpu(p, Len(Reports[p].data)) <= Reports[p].total.cpu

\* No dataset that is stored has an account without usage.
StoredArePositive ==
    \A h \in DOMAIN datasets : \A a \in DOMAIN datasets[h].usage : datasets[h].usage[a] > 0

LEMMA AddActUsgPositive ==
    ASSUME StoredArePositive, NEW source, NEW dataset_id, NEW d, NEW p,
           AddActUsg(source, dataset_id, d, p)
    PROVE  StoredArePositive'
<1>1. /\ datasets' = DatasetsWith(d)
      /\ \A a \in DOMAIN d.usage : d.usage[a] > 0
      BY DEF AddActUsg, MayAddActUsg
<1>. QED BY <1>1 DEF StoredArePositive, DatasetsWith, Put

LEMMA PositiveStep ==
    ASSUME StoredArePositive, [Next]_vars
    PROVE  StoredArePositive'
<1>1. ASSUME NEW s, NEW t, NEW c, NEW p, SetTotalUsg(s, t, c, p) PROVE StoredArePositive'
      BY <1>1 DEF SetTotalUsg, StoredArePositive
<1>2. ASSUME NEW o, HonestTotals(o) \/ HonestDataset(o) \/ FaultyTotals(o) \/ FaultyDataset(o)
      PROVE  StoredArePositive'
      BY <1>1, <1>2, AddActUsgPositive
         DEF HonestTotals, HonestDataset, FaultyTotals, FaultyDataset
<1>3. CASE NextPeriod
      BY <1>3 DEF NextPeriod, StoredArePositive
<1>4. CASE \/ \E a \in Accounts : ClaimDistrib(a)
           \/ \E o \in Oracles : ClaimRewards(o)
           \/ \E on \in BOOLEAN : ResActivate(on)
           \/ Reinitialise
           \/ \E r \in Rankings : Vote(r)
           \/ UpdateElectedProducers
           \/ Tick
           \/ UNCHANGED vars
  <2>1. datasets' = datasets
        BY <1>4 DEF ClaimDistrib, ClaimRewards, ResActivate, Reinitialise, InitResource, Vote,
                    UpdateElectedProducers, Tick, vars
  <2>. QED BY <2>1 DEF StoredArePositive
<1>. QED BY <1>2, <1>3, <1>4 DEF Next

\* The datasets of a feasible report fit into its total one after the other.
LEMMA NextFits ==
    ASSUME ReportsAreFeasible, NEW p \in Starts, NEW n \in 1..Len(Reports[p].data)
    PROVE  /\ Reports[p].data[n] \in Datasets /\ DatasetCpu(Reports[p].data[n]) \in Nat
           /\ SentCpu(p, n - 1) \in Nat /\ Reports[p].total.cpu \in Nat
           /\ SentCpu(p, n - 1) + DatasetCpu(Reports[p].data[n]) <= Reports[p].total.cpu
<1>. DEFINE N == Len(Reports[p].data)
<1>1. /\ N \in Nat
      /\ \A i \in 1..N : Reports[p].data[i] \in Datasets /\ TrueCpu(p)[i] \in Nat
      BY TrueCpuType
<1>2. Reports[p].total.cpu \in Nat
      BY ConstantsAssumption
<1>3. /\ SentCpu(p, n - 1) \in Nat /\ DatasetCpu(Reports[p].data[n]) \in Nat
      /\ SentCpu(p, n) = SentCpu(p, n - 1) + DatasetCpu(Reports[p].data[n])
      BY SentCpuNext
<1>4. SentCpu(p, N) <= Reports[p].total.cpu
      BY DEF ReportsAreFeasible
<1>. HIDE DEF N
<1>5. n \in 1..N
      BY DEF N
<1>6. 1..n \in SUBSET (1..N) /\ IsFiniteSet(1..N)
      BY <1>1, <1>5, FS_Interval
<1>7. SentCpu(p, n) <= SentCpu(p, N) /\ SentCpu(p, N) \in Nat
      BY <1>1, <1>6, SumOfSubset, SumNat DEF SentCpu
<1>. QED BY <1>1, <1>2, <1>3, <1>4, <1>5, <1>7

\* An account of a dataset with no usage of zero makes its sum positive.
LEMMA PositiveUsage ==
    ASSUME NEW d \in Datasets, \A a \in DOMAIN d.usage : d.usage[a] > 0, DOMAIN d.usage # {}
    PROVE  DatasetCpu(d) > 0
<1>1. PICK a \in DOMAIN d.usage : d.usage[a] > 0
      OBVIOUS
<1>2. d.usage[a] <= SumFunctionOnSet(d.usage, DOMAIN d.usage)
      BY DatasetUsage, SumBounds
<1>3. d.usage[a] \in Nat /\ DatasetCpu(d) \in Nat
      BY DatasetUsage, DatasetCpuIsNat
<1>. QED BY <1>1, <1>2, <1>3 DEF DatasetCpu, SumFunction

\* When the next dataset of an honest oracle is the one that completes an
\* agreement, the dataset paid for has no usage unless the true total has.
LEMMA NextIsPayable ==
    ASSUME ReportsAreFeasible, TextsDetermineUsage,
           TypeOK, ConsensusInv, StoredArePositive, inflation_transferred,
           NEW o \in Honest \cap DOMAIN usage, NEW p \in Starts, p = period_start,
           NEW n \in 1..Len(Reports[p].data), n = Len(usage[o].hashes),
           NEW h \in Agreed(UsageWith(o, Reports[p].data[n]), n + 1)
    PROVE  /\ h \in DOMAIN DatasetsWith(Reports[p].data[n])
           /\ MayCredit(DatasetsWith(Reports[p].data[n])[h])
<1>. DEFINE d == Reports[p].data[n]
            u == UsageWith(o, d)
            e == DatasetsWith(d)[h]
<1>1. /\ d \in Datasets /\ DatasetCpu(d) \in Nat /\ Reports[p].total.cpu \in Nat
      /\ DatasetCpu(d) <= Reports[p].total.cpu
      /\ \A a \in DOMAIN d.usage : d.usage[a] > 0
  <2>1. /\ d \in Datasets /\ DatasetCpu(d) \in Nat
        /\ SentCpu(p, n - 1) \in Nat /\ Reports[p].total.cpu \in Nat
        /\ SentCpu(p, n - 1) + DatasetCpu(d) <= Reports[p].total.cpu
        BY NextFits
  <2>. QED BY <2>1 DEF ReportsAreFeasible
<1>2. /\ DOMAIN usage = submitting_oracles /\ DOMAIN usage \subseteq Oracles
      /\ threshold \in Thresholds /\ \A v \in DOMAIN usage : usage[v] \in UsageRows
      BY DEF TypeOK
<1>3. /\ Len(Reports[p].data) \in Nat
      /\ FullHashList(p)[n + 1] = DatasetHash(d)
      BY TrueCpuType, FullHashListFacts
<1>. HIDE DEF d
<1>4. /\ DOMAIN u = DOMAIN usage
      /\ u[o].hashes = Append(usage[o].hashes, DatasetHash(d))
      /\ \A v \in DOMAIN usage : v # o => u[v] = usage[v]
      BY <1>2 DEF UsageWith, UsageRows
<1>. HIDE DEF u
<1>5. PICK v \in Voters(u, n + 1, h) : v \in Honest
  <2>1. h \in Agreed(u, n + 1) /\ DOMAIN u \subseteq Oracles
        BY <1>2, <1>4 DEF u, d
  <2>. QED BY <1>2, <2>1, AgreedHasHonest
<1>6. v \in DOMAIN usage /\ n + 1 <= Len(u[v].hashes) /\ u[v].hashes[n + 1] = h
      BY <1>4, <1>5 DEF Voters
<1>7. h = DatasetHash(d)
  <2>1. CASE v = o
    <3>1. usage[o].hashes \in Seq(Hashes) /\ DatasetHash(d) \in Hashes
          BY <1>1, <1>2 DEF UsageRows, Hashes
    <3>. QED BY <1>4, <1>6, <2>1, <3>1, AppendProperties
  <2>2. CASE v # o
    <3>1. /\ usage[v].hashes[n + 1] = h /\ n + 1 <= Len(usage[v].hashes)
          BY <1>4, <1>6, <2>2
    <3>2. n + 1 \in 1..Len(usage[v].hashes)
      <4>1. Len(usage[v].hashes) \in Nat
            BY <1>2, <1>6, LenProperties DEF UsageRows
      <4>. QED BY <1>3, <3>1, <4>1
    <3>3. usage[v].hashes[n + 1] = FullHashList(p)[n + 1]
          BY <1>5, <1>6, <3>2 DEF ConsensusInv, HonestRowsAreTrue
    <3>. QED BY <1>3, <3>1, <3>3
  <2>. QED BY <2>1, <2>2
<1>8. /\ h \in DOMAIN DatasetsWith(d) /\ e \in Datasets /\ e.text = d.text
      /\ \A a \in DOMAIN e.usage : e.usage[a] > 0
  <2>1. CASE h \in DOMAIN datasets
    <3>1. e = datasets[h] /\ DatasetHash(e) = DatasetHash(d)
          BY <1>7, <2>1 DEF DatasetsWith, ConsensusInv, DatasetsAreStored
    <3>2. e \in Datasets /\ \A a \in DOMAIN e.usage : e.usage[a] > 0
          BY <2>1, <3>1 DEF TypeOK, StoredArePositive
    <3>. QED BY <1>7, <2>1, <3>1, <3>2 DEF DatasetsWith, DatasetHash
  <2>2. CASE h \notin DOMAIN datasets
    <3>1. h \in DOMAIN DatasetsWith(d) /\ e = d
          BY <1>7, <2>2 DEF DatasetsWith, Put
    <3>. QED BY <1>1, <3>1
  <2>. QED BY <2>1, <2>2
<1>. HIDE DEF e
<1>9. history.total_cpu_us = Reports[p].total.cpu
      BY DEF ConsensusInv, InflationIsTrue
<1>10. DatasetCpu(e) = DatasetCpu(d)
       BY <1>1, <1>8 DEF TextsDetermineUsage
<1>11. DOMAIN e.usage # {} => DatasetCpu(e) > 0
       BY <1>8, PositiveUsage
<1>12. MayCredit(e)
       BY <1>1, <1>9, <1>10, <1>11 DEF MayCredit
<1>. QED BY <1>8, <1>12 DEF d, e

\* No honest oracle is refused.
LEMMA HonestNotRefused ==
    ASSUME ReportsAreFeasible, TextsDetermineUsage
    PROVE  TypeOK /\ ConsensusInv /\ SentInv /\ StoredArePositive => HonestAreAccepted
<1>. SUFFICES ASSUME TypeOK, ConsensusInv, SentInv, StoredArePositive,
                     inflation_transferred, active,
                     NEW o \in Honest \cap ranking.oracles, o \in DOMAIN usage,
                     usage[o].hashes # FullHashList(period_start)
              PROVE  \E i \in DOMAIN Reports[period_start].data :
                        LET d == Reports[period_start].data[i]
                        IN  /\ MayAddActUsg(o, i, d, period_start)
                            /\ i \notin DOMAIN distributions =>
                                  \A h \in Agreed(UsageWith(o, d), i + 1) :
                                      h \in DOMAIN DatasetsWith(d) /\ MayCredit(DatasetsWith(d)[h])
  <2>1. ConsensusInv /\ inflation_transferred => period_start \in Starts
        BY DEF ConsensusInv, InflationIsTrue
  <2>. QED BY <2>1 DEF HonestAreAccepted, MaySetTotalUsg, IsOpenPeriod, ReportsAreFeasible
<1>1. PICK p \in Starts : p = period_start
      BY DEF ConsensusInv, InflationIsTrue
<1>2. PICK N \in Nat : N = Len(Reports[p].data)
      BY TrueCpuType
<1>3. DOMAIN Reports[p].data = 1..N
      BY <1>2, ConstantsAssumption
<1>4. PICK n \in 1..N : n = Len(usage[o].hashes)
  <2>1. /\ FullHashList(p) \in Seq(Hashes) /\ Len(FullHashList(p)) = 1 + N
        BY <1>2, FullHashListFacts
  <2>2. /\ Len(usage[o].hashes) \in 1..(1 + N)
        /\ \A i \in 1..Len(usage[o].hashes) : usage[o].hashes[i] = FullHashList(p)[i]
        BY <1>1, <2>1 DEF ConsensusInv, HonestRowsAreTrue
  <2>3. usage[o].hashes \in Seq(Hashes)
        BY DEF TypeOK, UsageRows
  <2>4. Len(usage[o].hashes) # 1 + N
        BY <1>1, <2>1, <2>2, <2>3, SeqEqual
  <2>. QED BY <2>2, <2>4
<1>. DEFINE d == Reports[p].data[n]
<1>5. /\ d \in Datasets /\ DatasetCpu(d) \in Nat
      /\ SentCpu(p, n - 1) \in Nat /\ Reports[p].total.cpu \in Nat
      /\ SentCpu(p, n - 1) + DatasetCpu(d) <= Reports[p].total.cpu
      BY <1>2, NextFits
<1>6. usage[o].total = Reports[p].total /\ usage[o].allocated = SentCpu(p, n - 1)
      BY <1>1, <1>4 DEF SentInv, HonestRowsAddUp
<1>7. Cardinality(DOMAIN d.usage) <= BatchSize /\ \A a \in DOMAIN d.usage : d.usage[a] > 0
      BY <1>2 DEF ReportsAreFeasible
<1>8. \A h \in Agreed(UsageWith(o, d), n + 1) :
          h \in DOMAIN DatasetsWith(d) /\ MayCredit(DatasetsWith(d)[h])
      BY <1>1, <1>2, <1>4, NextIsPayable
<1>. HIDE DEF d
<1>9. MayAddActUsg(o, n, d, p)
  <2>1. FitsTotal(o, d)
        BY <1>5, <1>6 DEF FitsTotal
  <2>. QED BY <1>1, <1>4, <1>7, <2>1 DEF MayAddActUsg, IsOpenPeriod
<1>. QED BY <1>1, <1>3, <1>8, <1>9 DEF d

\* From the inflation on, no faulty oracle can have the submission of an
\* honest one refused, if the reports are ones that a single oracle could send.
THEOREM AcceptCorrect ==
    ASSUME CarefulGovernance, ReportsAreFeasible, TextsDetermineUsage
    PROVE  Spec => []HonestAreAccepted
<1>1. Init => SentInv /\ StoredArePositive
  <2>1. Init => SentInv
        BY PayInit
  <2>2. Init => StoredArePositive
        BY DEF Init, StoredArePositive
  <2>. QED BY <2>1, <2>2
<1>2. /\ TypeOK /\ ConsensusInv /\ TypeOK' /\ ConsensusInv'
      /\ SentInv /\ StoredArePositive /\ [Next]_vars
      => SentInv' /\ StoredArePositive'
      BY SentStep, PositiveStep
<1>3. TypeOK /\ ConsensusInv /\ SentInv /\ StoredArePositive => HonestAreAccepted
      BY HonestNotRefused
<1>4. Spec => [](TypeOK /\ ConsensusInv)
      BY ConsensusIsInductive
<1>. QED BY <1>1, <1>2, <1>3, <1>4, PTL DEF Spec

(***************************************************************************)
(* That a claim is paid.                                                   *)
(***************************************************************************)
\* claimdistrib never fails for lack of tokens, for as long as the datasets
\* paid are those agreed on and governance leaves the open period alone.
THEOREM DistributionsCanBeClaimed ==
    ASSUME CarefulGovernance
    PROVE  Spec => ([]ConsensusDataIsPaid => [](\A a \in Accounts : account_pay[a] <= upay))
<1>1. TypeOK /\ UpaySolvent => \A a \in Accounts : account_pay[a] <= upay
  <2>. SUFFICES ASSUME TypeOK, UpaySolvent, NEW a \in Accounts
                PROVE  account_pay[a] <= upay
       OBVIOUS
  <2>1. /\ IsFiniteSet(Accounts) /\ DOMAIN account_pay = Accounts
        /\ \A b \in Accounts : account_pay[b] \in Nat
        /\ upay \in Nat
        BY ConstantsAssumption DEF TypeOK
  <2>2. /\ account_pay[a] <= SumFunctionOnSet(account_pay, Accounts)
        /\ SumFunctionOnSet(account_pay, Accounts) \in Nat
        BY <2>1, SumBounds, SumNat
  <2>. QED BY <2>1, <2>2 DEF UpaySolvent, SumFunction
<1>. QED BY <1>1, TypeCorrect, UpayCorrect, PTL DEF UpayIsSolvent

\* claimrewards never fails for lack of tokens.
THEOREM RewardsCanBeClaimed == Spec => [](\A o \in Oracles : producer_pay[o] <= bpay)
<1>1. TypeOK /\ BpaySolvent => \A o \in Oracles : producer_pay[o] <= bpay
  <2>. SUFFICES ASSUME TypeOK, BpaySolvent, NEW o \in Oracles
                PROVE  producer_pay[o] <= bpay
       OBVIOUS
  <2>1. /\ IsFiniteSet(Oracles) /\ DOMAIN producer_pay = Oracles
        /\ \A b \in Oracles : producer_pay[b] \in Nat
        /\ bpay \in Nat
        BY ConstantsAssumption DEF TypeOK
  <2>2. /\ producer_pay[o] <= SumFunctionOnSet(producer_pay, Oracles)
        /\ SumFunctionOnSet(producer_pay, Oracles) \in Nat
        BY <2>1, SumBounds, SumNat
  <2>. QED BY <2>1, <2>2 DEF BpaySolvent, SumFunction
<1>. QED BY <1>1, TypeCorrect, BpayCorrect, PTL
=============================================================================
