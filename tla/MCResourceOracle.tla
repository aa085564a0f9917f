--------------------------- MODULE MCResourceOracle ---------------------------
(* Small instances of ResourceOracle for TLC. *)
EXTENDS ResourceOracle, TLC

CONSTANTS h1, h2, f1, alice, bob, alice1bob

HonestAndFaulty == {h1, h2, f1}
OneFaulty == {f1}
TwoAccounts == {alice, bob}

\* Two true totals, and one that only a faulty oracle reports.
T0 == [cpu |-> 3, net |-> 1]
T1 == [cpu |-> 2, net |-> 0]
MCTotals == {T0, T1}

\* The datasets of two periods: that of the second is also in the first, under
\* another id.
D0 == [text |-> "alice2", usage |-> alice :> 2]
D1 == [text |-> "bob1", usage |-> bob :> 1]
MCDatasets == {D0, D1}

MCReports == 0 :> [total |-> T0, data |-> <<D0, D1>>] @@ 1 :> [total |-> T1, data |-> <<D1>>]

\* All are ranked and active; one honest oracle is not ranked any more, and
\* fewer producers are active than the schedule had.
MCRankings == {[oracles |-> HonestAndFaulty, active |-> HonestAndFaulty],
               [oracles |-> {h1, f1}, active |-> {h1, f1}]}
StableRanking == {[oracles |-> HonestAndFaulty, active |-> HonestAndFaulty]}

\* The rest of the supply or nothing, and more than the cap on the third day.
TightTokens == [n \in 0..MaxDays |->
    IF n < 2 THEN {[utility |-> 0, bppay |-> t] : t \in {0, 1}}
             ELSE {[utility |-> 0, bppay |-> PeriodCap + 1]}]

\* Issued in full in one period and beyond the supply that is left in the next.
SomeTokens == [n \in 0..MaxDays |-> {[utility |-> 7, bppay |-> 3]}]

\* The faulty oracle is ranked but is not an active producer.
LedgerRanking == {[oracles |-> HonestAndFaulty, active |-> {h1, h2}]}

\* One unit of the account alice1bob has the text of one of alice and one of bob.
ThreeAccounts == {alice, bob, alice1bob}
T2 == [cpu |-> 1, net |-> 0]
E2 == [text |-> "alice1bob1", usage |-> alice1bob :> 1]
LedgerTotals == {T0, T2}

\* Of 7 tokens the two accounts of D3 get 14/3, which may be rounded to 5, and
\* 7/3.
D3 == [text |-> "alice2bob1", usage |-> alice :> 2 @@ bob :> 1]
D2 == [text |-> "alice1bob1", usage |-> alice :> 1 @@ bob :> 1]
LedgerDatasets == {D2, D3, E2}
LedgerReports == 0 :> [total |-> T0, data |-> <<D3>>] @@ 1 :> [total |-> T2, data |-> <<E2>>]

\* One period, for the runs that look for one disagreement.
OneReport == 0 :> [total |-> T0, data |-> <<D0>>]

\* Net words whose eightfold wraps around 64.
WideTotals == {T0, [cpu |-> 2, net |-> 8]}
=============================================================================
