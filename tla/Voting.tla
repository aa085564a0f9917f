------------------------------- MODULE Voting -------------------------------
(***************************************************************************)
(* Votes for producers, and their delegation to proxies, in eosio.system   *)
(* (voting.cpp and update_voting_power of delegate_bandwidth.cpp).         *)
(*                                                                         *)
(* A vote weighs the voter's stake times a factor that grows every week.   *)
(* The weight counted last is kept with the voter, so that it can be taken *)
(* back; a proxy votes with its own weight and that of the voters it       *)
(* stands for.  Weights are exact here, where the code has doubles.        *)
(*                                                                         *)
(* The shares of the former vote pay are in VotePay, which extends this.   *)
(***************************************************************************)
EXTENDS Integers, FiniteSets, Functions

CONSTANTS
    Accounts,           \* accounts that vote
    Candidates,         \* accounts that register as producers
    NoProxy,            \* the empty name in voter_info.proxy
    MaxVotes,           \* most producers one voter can vote for (30 in the code)
    Growth,             \* Growth[w]: weight of a unit of stake in week w
    StakeChanges,       \* changes of a voter's stake
    MinActivatedStake,  \* min_activated_stake
    MinActivatedWeek,   \* week of min_activated_date
    MaxStake            \* bound on the stake of a voter

Weeks == DOMAIN Growth

(***************************************************************************)
(* A unit of stake weighs more than the change that is not propagated.     *)
(***************************************************************************)
ASSUME VotingConstants ==
    /\ IsFiniteSet(Accounts) /\ IsFiniteSet(Candidates)
    /\ NoProxy \notin Accounts
    /\ MaxVotes \in Nat
    /\ Weeks \subseteq Nat /\ 0 \in Weeks
    /\ \A w \in Weeks : Growth[w] \in Nat /\ Growth[w] > 1
    /\ StakeChanges \subseteq Int
    /\ MinActivatedStake \in Nat /\ MinActivatedWeek \in Nat /\ MaxStake \in Nat

VARIABLES
    voters,             \* table voters: account -> row
    producers,          \* table producers: account -> row
    total_vote_weight,  \* _gstate.total_producer_vote_weight
    activated_stake,    \* _gstate.total_activated_stake
    activated,          \* _gstate.thresh_activated_stake_time is set
    voted,              \* history: the accounts that have called voteproducer
    week                \* weeks since the epoch of stake2vote

votingVars == <<voters, producers, total_vote_weight, activated_stake, activated, voted, week>>

-----------------------------------------------------------------------------
NewVoter == [staked |-> 0, proxy |-> NoProxy, producers |-> {}, is_proxy |-> FALSE,
             last_vote_weight |-> 0, proxied_vote_weight |-> 0]

\* f with the value v at k.
Row(f, k, v) == [x \in DOMAIN f \cup {k} |-> IF x = k THEN v ELSE f[x]]

(***************************************************************************)
(* The state that a vote reads and writes.  The functions of the code that *)
(* change it are operators from one such record to the next; "counts" are  *)
(* the sets of producers whose votes they have counted anew.               *)
(***************************************************************************)
Votes == [voters |-> voters, producers |-> producers, total |-> total_vote_weight,
          stake |-> activated_stake, activated |-> activated, counts |-> {}]

Become(s) ==
    /\ voters' = s.voters
    /\ producers' = s.producers
    /\ total_vote_weight' = s.total
    /\ activated_stake' = s.stake
    /\ activated' = s.activated

Stake2Vote(staked) == staked * Growth[week]

\* What the vote of a voter weighs now.
VoteWeight(row) ==
    Stake2Vote(row.staked) + IF row.is_proxy THEN row.proxied_vote_weight ELSE 0

\* Every registered producer p of P gets delta[p] more votes, but never less
\* than none.  (Rows of producers are never erased, so a voted one is there.)
AddVotes(s, P, delta) ==
    LET Q == P \cap DOMAIN s.producers
        votes(p) == s.producers[p].total_votes + delta[p]
    IN  [s EXCEPT
           !.producers = [p \in DOMAIN @ |->
                IF p \in Q THEN [@[p] EXCEPT !.total_votes = IF votes(p) < 0 THEN 0 ELSE votes(p)]
                           ELSE @[p]],
           !.total = @ + SumFunctionOnSet(delta, Q),
           !.counts = @ \cup {Q}]

AddProxied(s, x, delta) == [s EXCEPT !.voters[x].proxied_vote_weight = @ + delta]

(***************************************************************************)
(* One call of propagate_weight_change, for the voter x: its vote is       *)
(* counted with its new weight.  If it has a proxy, the call for the proxy *)
(* follows, unless the change is too small.                                *)
(***************************************************************************)
PropagateOnce(s, x) ==
    LET row == s.voters[x]
        delta == VoteWeight(row) - row.last_vote_weight
        large == delta > 1 \/ delta < -1
        t == IF ~large THEN s
             ELSE IF row.proxy # NoProxy THEN AddProxied(s, row.proxy, delta)
             ELSE AddVotes(s, row.producers, [p \in row.producers |-> delta])
    IN  [votes |-> [t EXCEPT !.voters[x].last_vote_weight = VoteWeight(row)],
         next |-> IF large THEN row.proxy ELSE NoProxy]

BugPropagateStops(s, x) == PropagateOnce(s, x).votes

(***************************************************************************)
(* propagate_weight_change.  It calls itself along the chain of proxies,   *)
(* which ProxiesFormChains shows to visit no account twice.                *)
(***************************************************************************)
Propagate(s, x) ==
    LET calls[i \in 0..Cardinality(Accounts)] ==
            IF i = 0 THEN [votes |-> s, next |-> x]
            ELSE LET c == calls[i - 1]
                 IN  IF c.next = NoProxy THEN c ELSE PropagateOnce(c.votes, c.next)
    IN  calls[Cardinality(Accounts)].votes

\* The checks of update_votes.
MayVote(s, v, proxy, prods, voting) ==
    /\ proxy # NoProxy => prods = {} /\ v # proxy
    /\ Cardinality(prods) <= MaxVotes
    /\ v \in DOMAIN s.voters
    /\ proxy # NoProxy => /\ ~s.voters[v].is_proxy
                          /\ proxy \in DOMAIN s.voters
                          /\ voting => s.voters[proxy].is_proxy
    /\ prods \subseteq DOMAIN s.producers
    /\ voting => \A p \in prods : s.producers[p].is_active

BugActivateAnyVote(s, v) ==
    LET stake == s.stake + s.voters[v].staked
    IN  IF s.activated THEN s
        ELSE [s EXCEPT !.stake = stake,
                       !.activated = stake >= MinActivatedStake /\ week >= MinActivatedWeek]

\* A voter's stake counts for the activation of the chain once, as long as
\* its last vote has no weight.
Activate(s, v) ==
    LET stake == s.stake + IF s.voters[v].last_vote_weight <= 0 THEN s.voters[v].staked ELSE 0
    IN  IF s.activated THEN s
        ELSE [s EXCEPT !.stake = stake,
                       !.activated = stake >= MinActivatedStake /\ week >= MinActivatedWeek]

BugLeaveRegisteredProxy(s, v) ==
    LET row == s.voters[v]
    IN  IF row.last_vote_weight > 0 /\ row.proxy # NoProxy /\ s.voters[row.proxy].is_proxy
        THEN Propagate(AddProxied(s, row.proxy, -row.last_vote_weight), row.proxy)
        ELSE s

\* The old vote of v is taken back from its proxy.
LeaveProxy(s, v) ==
    LET row == s.voters[v]
    IN  IF row.last_vote_weight > 0 /\ row.proxy # NoProxy
        THEN Propagate(AddProxied(s, row.proxy, -row.last_vote_weight), row.proxy)
        ELSE s

\* The new vote of v, of that weight, is given to the proxy.
JoinProxy(s, proxy, weight) ==
    IF proxy # NoProxy THEN Propagate(AddProxied(s, proxy, weight), proxy) ELSE s

BugVoteDeltaKeepsOld(row, prods, weight) ==
    LET old == IF row.last_vote_weight > 0 /\ row.proxy = NoProxy THEN row.producers \cap prods ELSE {}
    IN  [p \in old \cup prods |-> (IF p \in prods THEN weight ELSE 0)
                                  - (IF p \in old THEN row.last_vote_weight ELSE 0)]

\* What the producers v has voted for lose and those it votes for now win.
VoteDelta(row, prods, weight) ==
    LET old == IF row.last_vote_weight > 0 /\ row.proxy = NoProxy THEN row.producers ELSE {}
    IN  [p \in old \cup prods |-> (IF p \in prods THEN weight ELSE 0)
                                  - (IF p \in old THEN row.last_vote_weight ELSE 0)]

(***************************************************************************)
(* update_votes where MayVote holds.  The weight of the new vote is taken  *)
(* before the old proxy is left.                                           *)
(***************************************************************************)
UpdateVotes(s, v, proxy, prods) ==
    LET row == s.voters[v]
        weight == VoteWeight(row)
        delta == VoteDelta(row, prods, weight)
        t == AddVotes(JoinProxy(LeaveProxy(Activate(s, v), v), proxy, weight), DOMAIN delta, delta)
    IN  [t EXCEPT !.voters[v].last_vote_weight = weight,
                  !.voters[v].producers = prods,
                  !.voters[v].proxy = proxy]

\* s after the stake of v has changed, before its vote is counted anew.
Staked(s, v, change) ==
    LET row == IF v \in DOMAIN s.voters THEN s.voters[v] ELSE NewVoter
    IN  [s EXCEPT !.voters = Row(@, v, [row EXCEPT !.staked = @ + change])]

\* update_voting_power
VotingPower(s, v, change) ==
    LET t == Staked(s, v, change)
        row == t.voters[v]
    IN  IF row.producers # {} \/ row.proxy # NoProxy
        THEN UpdateVotes(t, v, row.proxy, row.producers)
        ELSE t

\* The checks of update_voting_power and of the update_votes it makes.
MayChangeStake(s, v, change) ==
    LET t == Staked(s, v, change)
        row == t.voters[v]
    IN  /\ row.staked \in 0..MaxStake
        /\ row.producers # {} \/ row.proxy # NoProxy
               => MayVote(t, v, row.proxy, row.producers, FALSE)

-----------------------------------------------------------------------------
Init ==
    /\ voters = [a \in {} |-> NewVoter]
    /\ producers = [p \in {} |-> [is_active |-> TRUE, total_votes |-> 0]]
    /\ total_vote_weight = 0
    /\ activated_stake = 0
    /\ activated = FALSE
    /\ voted = {}
    /\ week = 0

\* voteproducer(v, proxy, prods)
VoteProducer(v, proxy, prods) ==
    /\ MayVote(Votes, v, proxy, prods, TRUE)
    /\ Become(UpdateVotes(Votes, v, proxy, prods))
    /\ voted' = voted \cup {v}
    /\ UNCHANGED week

BugRegProxyWithProxy(v, isproxy) ==
    /\ IF v \in DOMAIN voters
       THEN /\ isproxy # voters[v].is_proxy
            /\ Become(Propagate([Votes EXCEPT !.voters[v].is_proxy = isproxy], v))
       ELSE Become([Votes EXCEPT !.voters = Row(@, v, [NewVoter EXCEPT !.is_proxy = isproxy])])
    /\ UNCHANGED <<voted, week>>

\* regproxy(v, isproxy)
RegProxy(v, isproxy) ==
    /\ IF v \in DOMAIN voters
       THEN /\ isproxy # voters[v].is_proxy
            /\ isproxy => voters[v].proxy = NoProxy
            /\ Become(Propagate([Votes EXCEPT !.voters[v].is_proxy = isproxy], v))
       ELSE Become([Votes EXCEPT !.voters = Row(@, v, [NewVoter EXCEPT !.is_proxy = isproxy])])
    /\ UNCHANGED <<voted, week>>

\* regproducer and regproducer2; Staking adds what they ask of the stake.
RegProducer(p) ==
    /\ producers' = IF p \in DOMAIN producers
                    THEN [producers EXCEPT ![p].is_active = TRUE]
                    ELSE Row(producers, p, [is_active |-> TRUE, total_votes |-> 0])
    /\ UNCHANGED <<voters, total_vote_weight, activated_stake, activated, voted, week>>

\* unregprod(p) and rmvproducer(p)
UnregProd(p) ==
    /\ p \in DOMAIN producers
    /\ producers' = [producers EXCEPT ![p].is_active = FALSE]
    /\ UNCHANGED <<voters, total_vote_weight, activated_stake, activated, voted, week>>

\* What delegatebw and undelegatebw do here: nothing is unstaked before the
\* chain is activated.
ChangeStake(v, change) ==
    /\ change < 0 => activated
    /\ MayChangeStake(Votes, v, change)
    /\ Become(VotingPower(Votes, v, change))
    /\ UNCHANGED <<voted, week>>

NextWeek ==
    /\ week + 1 \in Weeks
    /\ week' = week + 1
    /\ UNCHANGED <<voters, producers, total_vote_weight, activated_stake, activated, voted>>

Next ==
    \/ \E v \in Accounts : \/ \E proxy \in Accounts : VoteProducer(v, proxy, {})
                           \/ \E prods \in SUBSET Candidates : VoteProducer(v, NoProxy, prods)
                           \/ \E on \in BOOLEAN : RegProxy(v, on)
                           \/ \E change \in StakeChanges : ChangeStake(v, change)
    \/ \E p \in Candidates : RegProducer(p) \/ UnregProd(p)
    \/ NextWeek

Spec == Init /\ [][Next]_votingVars

-----------------------------------------------------------------------------
\* The sum of what the voters of V last voted with.
LastWeight(V) == SumFunctionOnSet([v \in DOMAIN voters |-> voters[v].last_vote_weight], V)

\* A producer has exactly the votes of those who vote for it, with the weight
\* they last voted with, whatever was voted, staked and delegated in between.
VotesAreCounted ==
    /\ \A p \in DOMAIN producers :
            producers[p].total_votes = LastWeight({v \in DOMAIN voters : p \in voters[v].producers})
    /\ total_vote_weight = SumFunction([p \in DOMAIN producers |-> producers[p].total_votes])

\* An account stands for exactly the weight of the voters who have it as
\* their proxy, also while it is not registered as one.
ProxiesAreCounted ==
    \A x \in DOMAIN voters :
        voters[x].proxied_vote_weight = LastWeight({v \in DOMAIN voters : voters[v].proxy = x})

\* Who votes, for producers or through a proxy, votes with all its stake, as
\* it weighed at some time so far, and a proxy also with all that the voters
\* it stands for have given it: no change of either is left behind.
VotesHaveFullWeight ==
    \A v \in DOMAIN voters : voters[v].producers # {} \/ voters[v].proxy # NoProxy =>
        \E w \in Weeks :
            /\ w <= week
            /\ voters[v].last_vote_weight = voters[v].staked * Growth[w]
                   + IF voters[v].is_proxy THEN voters[v].proxied_vote_weight ELSE 0

\* Following proxies from any voter ends after fewer steps than there are
\* voters, so the recursion of propagate_weight_change ends, and its check
\* that no registered proxy has a proxy never fails.
ProxiesFormChains ==
    \A v \in DOMAIN voters :
        LET chain[i \in 0..Cardinality(Accounts)] ==
                IF i = 0 THEN v
                ELSE IF chain[i - 1] = NoProxy THEN NoProxy ELSE voters[chain[i - 1]].proxy
        IN  /\ chain[Cardinality(Accounts)] = NoProxy
            /\ voters[v].is_proxy => voters[v].proxy = NoProxy

\* No stake counts twice for the activation of the chain, which is activated
\* by as much stake as it asks for.
StakeActivatesOnce ==
    [][~activated =>
          activated_stake' <= SumFunction([v \in DOMAIN voters' |-> voters'[v].staked])]_votingVars

\* voting.cpp, update_votes: "The first time someone votes we calculate and
\* set last_vote_weight", from which the code tells that "this is their first
\* vote and should consider their stake activated".
FirstVoteActivates ==
    [][\A v \in voted' \ voted : ~activated =>
          activated_stake' = activated_stake + voters[v].staked]_votingVars
=============================================================================
