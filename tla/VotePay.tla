------------------------------ MODULE VotePay ------------------------------
(***************************************************************************)
(* The shares of the vote pay, which the actions of Voting keep (voting.cpp *)
(* and the tables producers2, global2 and global3 of eosio.system).        *)
(*                                                                         *)
(* A producer's share grows by its votes in every unit of time.  The total *)
(* of all shares is not summed up: it is kept apart, with the rate at      *)
(* which it grows, and both are corrected whenever votes are counted.      *)
(* Three days after its last claim a producer no longer takes part, which  *)
(* is noticed when its votes are counted the next time.  No action of this *)
(* fork sets last_claim_time but registration.                             *)
(*                                                                         *)
(* Votes that one action counts several times are counted once here, from  *)
(* the first state to the last: all of it happens at one time.             *)
(***************************************************************************)
EXTENDS Voting

CONSTANTS
    Legacy,         \* producers registered before there was a table producers2
    LegacyClaims,   \* their times of the last claim, 0 for none
    ClaimWindow,    \* three days
    WeekLength,     \* seven days
    MaxTime         \* bound on the clock

ASSUME VotePayConstants ==
    /\ Legacy \subseteq Candidates
    /\ LegacyClaims \subseteq Nat
    /\ ClaimWindow \in Nat \ {0} /\ WeekLength \in Nat \ {0}
    /\ MaxTime \in Nat /\ ClaimWindow <= MaxTime
    /\ \A t \in ClaimWindow..MaxTime : t \div WeekLength \in Weeks

VARIABLES
    last_claim,     \* producers.last_claim_time
    producers2,     \* table producers2: account -> share and time of update
    total_share,    \* _gstate2.total_producer_votepay_share
    change_rate,    \* _gstate3.total_vpay_share_change_rate
    state_update,   \* _gstate3.last_vpay_state_update
    now             \* the time

payVars == <<last_claim, producers2, total_share, change_rate, state_update>>
vars == <<votingVars, payVars, now>>

-----------------------------------------------------------------------------
NewShare == [share |-> 0, updated |-> now]

\* Three days after its last claim a producer takes no part in the pay.
Crossed(p) == last_claim[p] + ClaimWindow <= now

\* Its votes have been counted since.
UpdatedAfter(p) == last_claim[p] + ClaimWindow <= producers2[p].updated

BugAccruedAlways(p) ==
    producers2[p].share + producers[p].total_votes * (now - producers2[p].updated)

\* The share of p now, as update_producer_votepay_share computes it.
Accrued(p) ==
    producers2[p].share + IF UpdatedAfter(p) THEN 0
                          ELSE producers[p].total_votes * (now - producers2[p].updated)

\* p's share is lost; this happens once after the threshold.
Lapses(p) == Crossed(p) /\ ~UpdatedAfter(p)

BugRateDeltaKeepsLapsed(p) == producers'[p].total_votes - producers[p].total_votes

\* What p adds to the rate when its votes are counted.
RateDelta(p) ==
    IF ~Crossed(p) THEN producers'[p].total_votes - producers[p].total_votes
    ELSE IF Lapses(p) THEN -producers[p].total_votes
    ELSE 0

\* n more in x, but never less than nothing.
Clamped(x, n) == IF x + n < 0 THEN 0 ELSE x + n

BugTotalForgetsTime(shares, rate) ==
    /\ total_share' = Clamped(total_share, change_rate * (now - state_update) + shares)
    /\ change_rate' = Clamped(change_rate, rate)
    /\ UNCHANGED state_update

\* update_total_votepay_share(now, shares, rate)
UpdateTotalVotepayShare(shares, rate) ==
    /\ total_share' = Clamped(total_share, change_rate * (now - state_update) + shares)
    /\ change_rate' = Clamped(change_rate, rate)
    /\ state_update' = now

(***************************************************************************)
(* What update_votes and propagate_weight_change do to the shares when     *)
(* they count the votes of the sets of producers "counts".                 *)
(***************************************************************************)
CountShares(counts) ==
    LET P == (UNION counts) \cap DOMAIN producers2
    IN  /\ producers2' = [p \in DOMAIN producers2 |->
                IF p \in P THEN [share |-> IF Lapses(p) THEN 0 ELSE Accrued(p), updated |-> now]
                           ELSE producers2[p]]
        /\ IF counts = {} THEN UNCHANGED <<total_share, change_rate, state_update>>
           ELSE UpdateTotalVotepayShare(
                    -SumFunction([p \in {q \in P : Lapses(q)} |-> Accrued(p)]),
                    SumFunction([p \in P |-> RateDelta(p)]))
        /\ UNCHANGED <<last_claim, now>>

-----------------------------------------------------------------------------
\* The clock is past three days, so that a claim at 0 is one of long ago.
PayInit ==
    /\ voters = [a \in {} |-> NewVoter]
    /\ producers = [p \in Legacy |-> [is_active |-> TRUE, total_votes |-> 0]]
    /\ total_vote_weight = 0
    /\ activated_stake = 0
    /\ activated = FALSE
    /\ voted = {}
    /\ week = ClaimWindow \div WeekLength
    /\ last_claim \in [Legacy -> LegacyClaims]
    /\ producers2 = [p \in {} |-> [share |-> 0, updated |-> 0]]
    /\ total_share = 0
    /\ change_rate = 0
    /\ state_update = 0
    /\ now = ClaimWindow

\* voteproducer(v, proxy, prods)
PayVoteProducer(v, proxy, prods) ==
    /\ VoteProducer(v, proxy, prods)
    /\ CountShares(UpdateVotes(Votes, v, proxy, prods).counts)

\* regproxy(v, isproxy)
PayRegProxy(v, isproxy) ==
    /\ RegProxy(v, isproxy)
    /\ CountShares(IF v \in DOMAIN voters
                   THEN Propagate([Votes EXCEPT !.voters[v].is_proxy = isproxy], v).counts
                   ELSE {})

\* update_voting_power in delegatebw and undelegatebw
PayChangeStake(v, change) ==
    /\ ChangeStake(v, change)
    /\ CountShares(VotingPower(Votes, v, change).counts)

\* regproducer(p) and regproducer2(p)
PayRegProducer(p) ==
    /\ RegProducer(p)
    /\ last_claim' = Row(last_claim, p, IF p \in DOMAIN producers /\ last_claim[p] # 0
                                        THEN last_claim[p] ELSE now)
    /\ producers2' = IF p \in DOMAIN producers2 THEN producers2 ELSE Row(producers2, p, NewShare)
    /\ IF p \in DOMAIN producers \ DOMAIN producers2
       THEN UpdateTotalVotepayShare(0, producers[p].total_votes)
       ELSE UNCHANGED <<total_share, change_rate, state_update>>
    /\ UNCHANGED now

\* unregprod(p) and rmvproducer(p) leave the shares alone.
PayUnregProd(p) == UnregProd(p) /\ UNCHANGED <<payVars, now>>

\* Time passes, and with it the weeks.
Tick ==
    /\ now < MaxTime
    /\ now' = now + 1
    /\ week' = now' \div WeekLength
    /\ UNCHANGED <<voters, producers, total_vote_weight, activated_stake, activated, voted>>
    /\ UNCHANGED payVars

PayNext ==
    \/ \E v \in Accounts : \/ \E proxy \in Accounts : PayVoteProducer(v, proxy, {})
                           \/ \E prods \in SUBSET Candidates : PayVoteProducer(v, NoProxy, prods)
                           \/ \E on \in BOOLEAN : PayRegProxy(v, on)
                           \/ \E change \in StakeChanges : PayChangeStake(v, change)
    \/ \E p \in Candidates : PayRegProducer(p) \/ PayUnregProd(p)
    \/ Tick

PaySpec == PayInit /\ [][PayNext]_vars

-----------------------------------------------------------------------------
TakesPart(p) == ~UpdatedAfter(p)

\* The rate at which the total is said to grow is that at which the shares
\* do: the votes of exactly the producers that still take part.
RateIsOfVotes ==
    change_rate = SumFunction([p \in {q \in DOMAIN producers2 : TakesPart(q)} |->
                                    producers[p].total_votes])

\* The total, brought up to now by its rate, is the sum of the shares, each
\* brought up to now by its votes, whenever and in whatever order they were
\* updated, lapsed or came in with a row from before there were shares.
TotalIsSumOfShares ==
    total_share + change_rate * (now - state_update)
        = SumFunction([p \in DOMAIN producers2 |-> Accrued(p)])

\* voting.cpp: "only reset votepay_share once after threshold".  What is lost
\* is lost as a whole and nothing is added to it later.
LapsedHaveNoShare ==
    \A p \in DOMAIN producers2 : UpdatedAfter(p) => producers2[p].share = 0
=============================================================================
