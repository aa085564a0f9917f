---------------------------- MODULE VotingProofs ----------------------------
(***************************************************************************)
(* Proofs about Voting and VotePay, for any voters, proxies and weights:   *)
(* proxies form chains; where weights are coarse the tallies are exact, no *)
(* change of a weight is left behind and stake activates the chain once;   *)
(* the total of the vote pay and its rate are those of the shares, and who *)
(* no longer takes part has none.                                          *)
(***************************************************************************)
EXTENDS VotePay, Sums

-----------------------------------------------------------------------------
(***************************************************************************)
(* What the functions of voting.cpp keep, whatever the weights: the tables *)
(* are well typed, rows are not erased, and while weights are propagated   *)
(* nothing but weights changes.                                            *)
(***************************************************************************)
VoterRows ==
    [staked : Nat, proxy : Accounts \cup {NoProxy}, producers : SUBSET Candidates,
     is_proxy : BOOLEAN, last_vote_weight : Int, proxied_vote_weight : Int]
ProducerRows == [is_active : BOOLEAN, total_votes : Nat]

VotesFields == {"voters", "producers", "total", "stake", "activated", "counts"}

\* A voter has a proxy or producers, and they are there.
IsVotes(s) ==
    /\ DOMAIN s = VotesFields
    /\ DOMAIN s.voters \subseteq Accounts
    /\ \A y \in DOMAIN s.voters :
          /\ s.voters[y] \in VoterRows
          /\ s.voters[y].producers \subseteq DOMAIN s.producers
          /\ s.voters[y].proxy # NoProxy => /\ s.voters[y].proxy \in DOMAIN s.voters
                                            /\ s.voters[y].producers = {}
    /\ DOMAIN s.producers \subseteq Candidates
    /\ \A p \in DOMAIN s.producers : s.producers[p] \in ProducerRows
    /\ s.total \in Int /\ s.stake \in Int /\ s.activated \in BOOLEAN

SameBallot(row, new) ==
    /\ new.staked = row.staked /\ new.proxy = row.proxy
    /\ new.producers = row.producers /\ new.is_proxy = row.is_proxy

\* t differs from s by weights, those of producers only if they are counted.
Reweighs(s, t) ==
    /\ IsVotes(t)
    /\ DOMAIN t.voters = DOMAIN s.voters
    /\ \A y \in DOMAIN s.voters : SameBallot(s.voters[y], t.voters[y])
    /\ DOMAIN t.producers = DOMAIN s.producers
    /\ \A p \in DOMAIN s.producers :
          /\ t.producers[p].is_active = s.producers[p].is_active
          /\ p \notin UNION t.counts => t.producers[p] = s.producers[p]
    /\ s.counts \subseteq t.counts
    /\ t.counts = {} => t.producers = s.producers
    /\ t.stake = s.stake /\ t.activated = s.activated

LEMMA ReweighsSame == ASSUME NEW s, IsVotes(s) PROVE Reweighs(s, s)
  BY DEF Reweighs, SameBallot

LEMMA ReweighsMore ==
    ASSUME NEW s, NEW t, NEW u, Reweighs(s, t), Reweighs(t, u)
    PROVE  Reweighs(s, u)
  <1>1. \A p : p \notin UNION u.counts => p \notin UNION t.counts
    BY DEF Reweighs
  <1>2. \A p \in DOMAIN s.producers : p \notin UNION u.counts => u.producers[p] = s.producers[p]
    BY <1>1 DEF Reweighs
  <1>3. u.counts = {} => u.producers = s.producers
    BY DEF Reweighs
  <1> QED BY <1>2, <1>3 DEF Reweighs, SameBallot

\* One voter's row gets another weight.
LEMMA RowsReweighed ==
    ASSUME NEW s, IsVotes(s), NEW x \in DOMAIN s.voters, NEW t,
           DOMAIN t = VotesFields, t.producers = s.producers, t.total = s.total,
           t.stake = s.stake, t.activated = s.activated, t.counts = s.counts,
           DOMAIN t.voters = DOMAIN s.voters,
           \A y \in DOMAIN s.voters \ {x} : t.voters[y] = s.voters[y],
           t.voters[x] \in VoterRows, SameBallot(s.voters[x], t.voters[x])
    PROVE  Reweighs(s, t)
  <1>1. \A y \in DOMAIN s.voters : t.voters[y] \in VoterRows /\ SameBallot(s.voters[y], t.voters[y])
    BY DEF IsVotes, SameBallot
  <1>2. IsVotes(t)
    BY <1>1 DEF IsVotes, SameBallot
  <1> QED BY <1>1, <1>2 DEF Reweighs

LEMMA AddProxiedReweighs ==
    ASSUME NEW s, IsVotes(s), NEW x \in DOMAIN s.voters, NEW delta \in Int
    PROVE  /\ Reweighs(s, AddProxied(s, x, delta))
           /\ AddProxied(s, x, delta).producers = s.producers
           /\ AddProxied(s, x, delta).total = s.total
           /\ AddProxied(s, x, delta).voters
                  = [s.voters EXCEPT ![x].proxied_vote_weight = @ + delta]
  <1> DEFINE t == [s EXCEPT !.voters[x].proxied_vote_weight = @ + delta]
             new == [s.voters[x] EXCEPT !.proxied_vote_weight = @ + delta]
  <1>1. AddProxied(s, x, delta) = t
    BY DEF AddProxied
  <1>2. /\ DOMAIN t = VotesFields /\ t.producers = s.producers /\ t.total = s.total
        /\ t.stake = s.stake /\ t.activated = s.activated /\ t.counts = s.counts
        /\ t.voters = [s.voters EXCEPT ![x].proxied_vote_weight = @ + delta]
    BY DEF IsVotes, VotesFields
  <1>3. s.voters[x] \in VoterRows
    BY DEF IsVotes
  <1>4. new \in VoterRows /\ SameBallot(s.voters[x], new)
    BY <1>3 DEF VoterRows, SameBallot
  <1>5. /\ DOMAIN t.voters = DOMAIN s.voters /\ t.voters[x] = new
        /\ \A y \in DOMAIN s.voters \ {x} : t.voters[y] = s.voters[y]
    BY <1>2
  <1> HIDE DEF t, new
  <1>6. Reweighs(s, t)
    BY <1>2, <1>4, <1>5, RowsReweighed
  <1> QED BY <1>1, <1>2, <1>6

\* t is s with those votes added.
VotesAdded(s, t, P, delta) ==
    /\ Reweighs(s, t)
    /\ t.voters = s.voters
    /\ t.total = s.total + SumFunctionOnSet(delta, P \cap DOMAIN s.producers)
    /\ \A p \in DOMAIN s.producers :
          t.producers[p].total_votes
              = IF p \notin P THEN s.producers[p].total_votes
                ELSE IF s.producers[p].total_votes + delta[p] < 0 THEN 0
                ELSE s.producers[p].total_votes + delta[p]

LEMMA AddVotesAdded ==
    ASSUME NEW s, IsVotes(s), NEW P \in SUBSET Candidates, NEW delta, \A p \in P : delta[p] \in Int,
           NEW t, t = AddVotes(s, P, delta)
    PROVE  VotesAdded(s, t, P, delta)
  <1> DEFINE Q == P \cap DOMAIN s.producers
             votes(p) == s.producers[p].total_votes + delta[p]
             new(p) == IF p \in Q THEN [s.producers[p] EXCEPT !.total_votes = IF votes(p) < 0 THEN 0 ELSE votes(p)]
                       ELSE s.producers[p]
  <1>1. /\ DOMAIN t = VotesFields /\ t.voters = s.voters
        /\ t.stake = s.stake /\ t.activated = s.activated
        /\ t.counts = s.counts \cup {Q}
        /\ t.total = s.total + SumFunctionOnSet(delta, Q)
        /\ t.producers = [p \in DOMAIN s.producers |-> new(p)]
    BY DEF AddVotes, IsVotes, VotesFields
  <1>2. \A p \in DOMAIN s.producers :
            /\ s.producers[p] \in ProducerRows
            /\ p \in Q <=> p \in P
    BY DEF IsVotes
  <1>3. \A p \in DOMAIN s.producers :
            /\ new(p) \in ProducerRows /\ new(p).is_active = s.producers[p].is_active
            /\ p \notin Q => new(p) = s.producers[p]
            /\ new(p).total_votes = IF p \notin P THEN s.producers[p].total_votes
                                    ELSE IF votes(p) < 0 THEN 0 ELSE votes(p)
    BY <1>2 DEF ProducerRows
  <1>4. SumFunctionOnSet(delta, Q) \in Int
    <2>1. IsFiniteSet(Q) /\ \A p \in Q : delta[p] \in Int
      BY VotingConstants, FS_Subset
    <2> QED BY <2>1, SumInt
  <1> HIDE DEF Q, new, votes
  <1>5. /\ DOMAIN t.producers = DOMAIN s.producers
        /\ \A p \in DOMAIN s.producers : t.producers[p] = new(p)
    BY <1>1
  <1>6. s.total \in Int /\ t.total \in Int
    BY <1>1, <1>4 DEF IsVotes
  <1>7. IsVotes(t)
    BY <1>1, <1>3, <1>5, <1>6 DEF IsVotes
  <1>8. Q \in t.counts /\ t.counts # {}
    BY <1>1
  <1>9. Reweighs(s, t)
    BY <1>1, <1>3, <1>5, <1>7, <1>8 DEF Reweighs, SameBallot
  <1> QED BY <1>1, <1>3, <1>5, <1>9 DEF Q, votes, VotesAdded

LEMMA VoteWeightType ==
    ASSUME NEW row \in VoterRows, week \in Weeks
    PROVE  VoteWeight(row) \in Int /\ Stake2Vote(row.staked) \in Nat
  <1>1. row.staked \in Nat /\ row.proxied_vote_weight \in Int /\ Growth[week] \in Nat
    BY VotingConstants DEF VoterRows
  <1>2. row.staked * Growth[week] \in Nat
    BY <1>1
  <1> QED BY <1>1, <1>2 DEF VoteWeight, Stake2Vote

\* The last weight of one voter is set.
SetLast(s, x, w) == [s EXCEPT !.voters[x].last_vote_weight = w]

LEMMA SetLastReweighs ==
    ASSUME NEW s, IsVotes(s), NEW x \in DOMAIN s.voters, NEW w \in Int
    PROVE  /\ Reweighs(s, SetLast(s, x, w))
           /\ SetLast(s, x, w).producers = s.producers
           /\ SetLast(s, x, w).total = s.total
           /\ SetLast(s, x, w).voters = [s.voters EXCEPT ![x].last_vote_weight = w]
  <1> DEFINE t == SetLast(s, x, w)
             new == [s.voters[x] EXCEPT !.last_vote_weight = w]
  <1>1. /\ DOMAIN t = VotesFields /\ t.producers = s.producers /\ t.total = s.total
        /\ t.stake = s.stake /\ t.activated = s.activated /\ t.counts = s.counts
        /\ t.voters = [s.voters EXCEPT ![x].last_vote_weight = w]
    BY DEF SetLast, IsVotes, VotesFields
  <1>2. s.voters[x] \in VoterRows
    BY DEF IsVotes
  <1>3. new \in VoterRows /\ SameBallot(s.voters[x], new)
    BY <1>2 DEF VoterRows, SameBallot
  <1>4. /\ DOMAIN t.voters = DOMAIN s.voters /\ t.voters[x] = new
        /\ \A y \in DOMAIN s.voters \ {x} : t.voters[y] = s.voters[y]
    BY <1>1
  <1> HIDE DEF t, new
  <1>5. Reweighs(s, t)
    BY <1>1, <1>3, <1>4, RowsReweighed
  <1> QED BY <1>1, <1>5 DEF t

\* One call of propagate_weight_change, as the steps it consists of.
Delta(s, x) == VoteWeight(s.voters[x]) - s.voters[x].last_vote_weight
Large(s, x) == Delta(s, x) > 1 \/ Delta(s, x) < -1
PassOn(s, x) ==
    IF ~Large(s, x) THEN s
    ELSE IF s.voters[x].proxy # NoProxy THEN AddProxied(s, s.voters[x].proxy, Delta(s, x))
    ELSE AddVotes(s, s.voters[x].producers, [p \in s.voters[x].producers |-> Delta(s, x)])

LEMMA PropagateOnceSteps ==
    ASSUME NEW s, NEW x
    PROVE  /\ PropagateOnce(s, x).votes = SetLast(PassOn(s, x), x, VoteWeight(s.voters[x]))
           /\ PropagateOnce(s, x).next = IF Large(s, x) THEN s.voters[x].proxy ELSE NoProxy
  BY DEF PropagateOnce, SetLast, PassOn, Large, Delta

LEMMA PassOnReweighs ==
    ASSUME NEW s, IsVotes(s), NEW x \in DOMAIN s.voters, week \in Weeks
    PROVE  Reweighs(s, PassOn(s, x)) /\ Delta(s, x) \in Int
  <1>1. s.voters[x] \in VoterRows
    BY DEF IsVotes
  <1>2. Delta(s, x) \in Int
    BY <1>1, VoteWeightType DEF Delta, VoterRows
  <1>3. CASE ~Large(s, x)
    BY <1>2, <1>3, ReweighsSame DEF PassOn
  <1>4. CASE Large(s, x) /\ s.voters[x].proxy # NoProxy
    BY <1>2, <1>4, AddProxiedReweighs DEF PassOn, IsVotes
  <1>5. CASE Large(s, x) /\ s.voters[x].proxy = NoProxy
    <2>1. s.voters[x].producers \in SUBSET Candidates
      BY <1>1 DEF VoterRows
    <2> DEFINE delta == [p \in s.voters[x].producers |-> Delta(s, x)]
    <2>2. \A p \in s.voters[x].producers : delta[p] \in Int
      BY <1>2
    <2>3. PassOn(s, x) = AddVotes(s, s.voters[x].producers, delta)
      BY <1>5 DEF PassOn
    <2> HIDE DEF delta
    <2>4. VotesAdded(s, PassOn(s, x), s.voters[x].producers, delta)
      BY <2>1, <2>2, <2>3, AddVotesAdded
    <2> QED BY <1>2, <2>4 DEF VotesAdded
  <1> QED BY <1>2, <1>3, <1>4, <1>5

LEMMA PropagateOnceReweighs ==
    ASSUME NEW s, IsVotes(s), NEW x \in DOMAIN s.voters, week \in Weeks
    PROVE  /\ Reweighs(s, PropagateOnce(s, x).votes)
           /\ \/ PropagateOnce(s, x).next = NoProxy
              \/ /\ PropagateOnce(s, x).next = s.voters[x].proxy
                 /\ PropagateOnce(s, x).next \in DOMAIN s.voters
  <1>1. Reweighs(s, PassOn(s, x))
    BY PassOnReweighs
  <1>2. VoteWeight(s.voters[x]) \in Int
    BY VoteWeightType DEF IsVotes
  <1>3. IsVotes(PassOn(s, x)) /\ x \in DOMAIN PassOn(s, x).voters
    BY <1>1 DEF Reweighs
  <1>4. Reweighs(PassOn(s, x), SetLast(PassOn(s, x), x, VoteWeight(s.voters[x])))
    BY <1>2, <1>3, SetLastReweighs
  <1>5. Reweighs(s, PropagateOnce(s, x).votes)
    BY <1>1, <1>4, ReweighsMore, PropagateOnceSteps
  <1> QED BY <1>5, PropagateOnceSteps DEF IsVotes

-----------------------------------------------------------------------------
(***************************************************************************)
(* propagate_weight_change is a sequence of calls: the function that its   *)
(* definition chooses exists.                                              *)
(***************************************************************************)
NextCall(c) == IF c.next = NoProxy THEN c ELSE PropagateOnce(c.votes, c.next)
IsCalls(calls, n, s, x) ==
    calls = [i \in 0..n |-> IF i = 0 THEN [votes |-> s, next |-> x] ELSE NextCall(calls[i - 1])]

LEMMA CallsExist ==
    ASSUME NEW s, NEW x, NEW N \in Nat
    PROVE  \E calls : IsCalls(calls, N, s, x)
  <1> DEFINE Good == {n \in 0..N : \E calls : IsCalls(calls, n, s, x)}
  <1>1. 0 \in Good
    <2> DEFINE c == [i \in 0..0 |-> [votes |-> s, next |-> x]]
    <2>1. IsCalls(c, 0, s, x)
      BY DEF IsCalls
    <2> QED BY <2>1
  <1>2. ASSUME NEW n \in 1..N, n - 1 \in Good PROVE n \in Good
    <2>1. PICK c : IsCalls(c, n - 1, s, x)
      BY <1>2
    <2> DEFINE d == [i \in 0..n |-> IF i = n THEN NextCall(c[n - 1]) ELSE c[i]]
    <2>2. \A i \in 0..(n - 1) : d[i] = c[i]
      OBVIOUS
    <2>3. \A i \in 0..(n - 1) : c[i] = IF i = 0 THEN [votes |-> s, next |-> x] ELSE NextCall(c[i - 1])
      BY <2>1 DEF IsCalls
    <2>4. \A i \in 0..n : d[i] = IF i = 0 THEN [votes |-> s, next |-> x] ELSE NextCall(d[i - 1])
      BY <2>2, <2>3
    <2>5. IsCalls(d, n, s, x)
      BY <2>4 DEF IsCalls
    <2> QED BY <2>5
  <1>3. \A n \in 0..N : n \in Good
    <2> HIDE DEF Good
    <2> QED BY <1>1, <1>2, NumbersInduction
  <1> QED BY <1>3

LEMMA PropagateCalls ==
    ASSUME NEW s, NEW x
    PROVE  /\ Cardinality(Accounts) \in Nat
           /\ \E calls : /\ calls[0] = [votes |-> s, next |-> x]
                         /\ \A i \in 1..Cardinality(Accounts) : calls[i] = NextCall(calls[i - 1])
                         /\ Propagate(s, x) = calls[Cardinality(Accounts)].votes
  <1> DEFINE N == Cardinality(Accounts)
             calls == CHOOSE c : IsCalls(c, N, s, x)
  <1>0. N \in Nat
    BY VotingConstants, FS_CardinalityType
  <1>1. Propagate(s, x) = calls[N].votes
    BY DEF Propagate, IsCalls, NextCall
  <1>2. IsCalls(calls, N, s, x)
    BY <1>0, CallsExist
  <1> HIDE DEF calls
  <1>3. /\ calls[0] = [votes |-> s, next |-> x]
        /\ \A i \in 1..N : calls[i] = NextCall(calls[i - 1])
    BY <1>0, <1>2 DEF IsCalls
  <1> QED BY <1>0, <1>1, <1>3

LEMMA PropagateReweighs ==
    ASSUME NEW s, IsVotes(s), NEW x \in DOMAIN s.voters, week \in Weeks
    PROVE  Reweighs(s, Propagate(s, x))
  <1> DEFINE N == Cardinality(Accounts)
  <1>1. PICK calls : /\ N \in Nat
                     /\ calls[0] = [votes |-> s, next |-> x]
                     /\ \A i \in 1..N : calls[i] = NextCall(calls[i - 1])
                     /\ Propagate(s, x) = calls[N].votes
    BY PropagateCalls
  <1> DEFINE Good == {i \in 0..N : /\ Reweighs(s, calls[i].votes)
                                   /\ calls[i].next \in DOMAIN s.voters \cup {NoProxy}}
  <1>2. 0 \in Good
    BY <1>1, ReweighsSame
  <1>3. ASSUME NEW i \in 1..N, i - 1 \in Good PROVE i \in Good
    <2> DEFINE c == calls[i - 1]
    <2>1. calls[i] = IF c.next = NoProxy THEN c ELSE PropagateOnce(c.votes, c.next)
      BY <1>1 DEF NextCall
    <2>2. Reweighs(s, c.votes) /\ c.next \in DOMAIN s.voters \cup {NoProxy}
      BY <1>3
    <2> HIDE DEF c
    <2>3. CASE c.next = NoProxy
      BY <1>1, <2>1, <2>2, <2>3
    <2>4. CASE c.next # NoProxy
      <3>1. IsVotes(c.votes) /\ c.next \in DOMAIN c.votes.voters
            /\ DOMAIN c.votes.voters = DOMAIN s.voters
        BY <2>2, <2>4 DEF Reweighs
      <3>2. /\ Reweighs(c.votes, PropagateOnce(c.votes, c.next).votes)
            /\ PropagateOnce(c.votes, c.next).next \in DOMAIN s.voters \cup {NoProxy}
        BY <3>1, PropagateOnceReweighs
      <3>3. Reweighs(s, PropagateOnce(c.votes, c.next).votes)
        BY <2>2, <3>2, ReweighsMore
      <3> QED BY <1>1, <2>1, <2>4, <3>2, <3>3
    <2> QED BY <2>3, <2>4
  <1> HIDE DEF Good
  <1>4. \A i \in 0..N : i \in Good
    BY <1>1, <1>2, <1>3, NumbersInduction
  <1> QED BY <1>1, <1>4 DEF Good

-----------------------------------------------------------------------------
(***************************************************************************)
(* update_votes, as the steps it consists of.                              *)
(***************************************************************************)
\* The row of v gets the new vote.
SetVote(s, v, weight, prods, proxy) ==
    [s EXCEPT !.voters[v].last_vote_weight = weight,
              !.voters[v].producers = prods,
              !.voters[v].proxy = proxy]

Joined(s, v, proxy) ==
    JoinProxy(LeaveProxy(Activate(s, v), v), proxy, VoteWeight(s.voters[v]))
NewDelta(s, v, prods) == VoteDelta(s.voters[v], prods, VoteWeight(s.voters[v]))
Voted(s, v, proxy, prods) ==
    AddVotes(Joined(s, v, proxy), DOMAIN NewDelta(s, v, prods), NewDelta(s, v, prods))

LEMMA UpdateVotesSteps ==
    ASSUME NEW s, NEW v, NEW proxy, NEW prods
    PROVE  UpdateVotes(s, v, proxy, prods)
               = SetVote(Voted(s, v, proxy, prods), v, VoteWeight(s.voters[v]), prods, proxy)
  BY DEF UpdateVotes, SetVote, Voted, NewDelta, Joined

\* What a vote of v may be for.
MayBeVote(s, v, proxy, prods) ==
    /\ v \in DOMAIN s.voters
    /\ prods \in SUBSET DOMAIN s.producers
    /\ proxy # NoProxy => proxy \in DOMAIN s.voters /\ prods = {}

\* Only the stake that counts for the activation changes here.
LEMMA ActivateType ==
    ASSUME NEW s, IsVotes(s), NEW v \in DOMAIN s.voters
    PROVE  /\ IsVotes(Activate(s, v))
           /\ Activate(s, v).voters = s.voters /\ Activate(s, v).producers = s.producers
           /\ Activate(s, v).total = s.total /\ Activate(s, v).counts = s.counts
           /\ Activate(s, v).stake
                  = s.stake + IF ~s.activated /\ s.voters[v].last_vote_weight <= 0
                              THEN s.voters[v].staked ELSE 0
           /\ s.activated => Activate(s, v).activated
  <1> DEFINE t == Activate(s, v)
             more == IF ~s.activated /\ s.voters[v].last_vote_weight <= 0
                     THEN s.voters[v].staked ELSE 0
  <1>1. s.voters[v] \in VoterRows /\ s.stake \in Int /\ s.activated \in BOOLEAN
    BY DEF IsVotes
  <1>2. more \in Nat
    BY <1>1 DEF VoterRows
  <1>3. /\ DOMAIN t = VotesFields
        /\ t.voters = s.voters /\ t.producers = s.producers
        /\ t.total = s.total /\ t.counts = s.counts
        /\ t.stake = s.stake + more
        /\ t.activated \in BOOLEAN
        /\ s.activated => t.activated
    <2>1. DOMAIN s = VotesFields
      BY DEF IsVotes
    <2>2. CASE s.activated
      <3>1. t = s /\ more = 0
        BY <2>2 DEF Activate
      <3> HIDE DEF t, more
      <3>2. s.stake = s.stake + more
        BY <1>1, <3>1
      <3>3. t.stake = s.stake + more
        BY <3>1, <3>2, Zenon
      <3> QED BY <1>1, <2>1, <3>1, <3>3, Zenon
    <2>3. CASE ~s.activated
      <3> DEFINE stake == s.stake + IF s.voters[v].last_vote_weight <= 0 THEN s.voters[v].staked ELSE 0
                 act == stake >= MinActivatedStake /\ week >= MinActivatedWeek
      <3>1. t = [s EXCEPT !.stake = stake, !.activated = act]
        BY <2>3 DEF Activate
      <3>2. stake = s.stake + more /\ act \in BOOLEAN
        BY <2>3
      <3> HIDE DEF t, more, stake, act
      <3> QED BY <1>1, <2>1, <2>3, <3>1, <3>2 DEF VotesFields
    <2> QED BY <1>1, <2>2, <2>3
  <1> HIDE DEF t, more
  <1>4. IsVotes(t)
    BY <1>1, <1>2, <1>3 DEF IsVotes
  <1> QED BY <1>3, <1>4 DEF t, more

LEMMA AddAndPropagateReweighs ==
    ASSUME NEW s, IsVotes(s), NEW x \in DOMAIN s.voters, NEW delta \in Int, week \in Weeks
    PROVE  Reweighs(s, Propagate(AddProxied(s, x, delta), x))
  <1>1. Reweighs(s, AddProxied(s, x, delta))
    BY AddProxiedReweighs
  <1>2. Reweighs(AddProxied(s, x, delta), Propagate(AddProxied(s, x, delta), x))
    BY <1>1, PropagateReweighs DEF Reweighs
  <1> QED BY <1>1, <1>2, ReweighsMore

LEMMA LeaveProxyReweighs ==
    ASSUME NEW s, IsVotes(s), NEW v \in DOMAIN s.voters, week \in Weeks
    PROVE  Reweighs(s, LeaveProxy(s, v))
  <1>1. s.voters[v] \in VoterRows
    BY DEF IsVotes
  <1>2. -s.voters[v].last_vote_weight \in Int
    BY <1>1 DEF VoterRows
  <1>3. CASE s.voters[v].last_vote_weight > 0 /\ s.voters[v].proxy # NoProxy
    <2>1. s.voters[v].proxy \in DOMAIN s.voters
      BY <1>3 DEF IsVotes
    <2> QED BY <1>2, <1>3, <2>1, AddAndPropagateReweighs DEF LeaveProxy
  <1>4. CASE ~(s.voters[v].last_vote_weight > 0 /\ s.voters[v].proxy # NoProxy)
    BY <1>4, ReweighsSame DEF LeaveProxy
  <1> QED BY <1>3, <1>4

LEMMA JoinProxyReweighs ==
    ASSUME NEW s, IsVotes(s), NEW proxy, proxy # NoProxy => proxy \in DOMAIN s.voters,
           NEW weight \in Int, week \in Weeks
    PROVE  Reweighs(s, JoinProxy(s, proxy, weight))
  BY AddAndPropagateReweighs, ReweighsSame DEF JoinProxy

LEMMA JoinedReweighs ==
    ASSUME NEW s, IsVotes(s), NEW v, NEW proxy, NEW prods, MayBeVote(s, v, proxy, prods),
           week \in Weeks
    PROVE  Reweighs(Activate(s, v), Joined(s, v, proxy))
  <1>1. v \in DOMAIN s.voters /\ (proxy # NoProxy => proxy \in DOMAIN s.voters)
    BY DEF MayBeVote
  <1>2. IsVotes(Activate(s, v)) /\ Activate(s, v).voters = s.voters
    BY <1>1, ActivateType
  <1>3. Reweighs(Activate(s, v), LeaveProxy(Activate(s, v), v))
    BY <1>1, <1>2, LeaveProxyReweighs
  <1>4. VoteWeight(s.voters[v]) \in Int
    BY <1>1, VoteWeightType DEF IsVotes
  <1>5. /\ IsVotes(LeaveProxy(Activate(s, v), v))
        /\ proxy # NoProxy => proxy \in DOMAIN LeaveProxy(Activate(s, v), v).voters
    BY <1>1, <1>2, <1>3 DEF Reweighs
  <1>6. Reweighs(LeaveProxy(Activate(s, v), v), Joined(s, v, proxy))
    BY <1>4, <1>5, JoinProxyReweighs DEF Joined
  <1> QED BY <1>3, <1>6, ReweighsMore

LEMMA NewDeltaType ==
    ASSUME NEW s, IsVotes(s), NEW v, NEW proxy, NEW prods, MayBeVote(s, v, proxy, prods),
           week \in Weeks
    PROVE  /\ DOMAIN NewDelta(s, v, prods) \in SUBSET Candidates
           /\ \A p \in DOMAIN NewDelta(s, v, prods) : NewDelta(s, v, prods)[p] \in Int
  <1>1. s.voters[v] \in VoterRows /\ prods \in SUBSET Candidates
    BY DEF IsVotes, MayBeVote
  <1>2. PICK w \in Int : w = VoteWeight(s.voters[v])
    BY <1>1, VoteWeightType
  <1>3. PICK row \in VoterRows : row = s.voters[v]
    BY <1>1
  <1>4. row.last_vote_weight \in Int /\ row.producers \in SUBSET Candidates
    BY DEF VoterRows
  <1>5. DOMAIN VoteDelta(row, prods, w) \in SUBSET Candidates
        /\ \A p \in DOMAIN VoteDelta(row, prods, w) : VoteDelta(row, prods, w)[p] \in Int
    BY <1>1, <1>4 DEF VoteDelta
  <1> QED BY <1>2, <1>3, <1>5 DEF NewDelta

LEMMA VotedReweighs ==
    ASSUME NEW s, IsVotes(s), NEW v, NEW proxy, NEW prods, MayBeVote(s, v, proxy, prods),
           week \in Weeks
    PROVE  Reweighs(Activate(s, v), Voted(s, v, proxy, prods))
  <1>1. Reweighs(Activate(s, v), Joined(s, v, proxy))
    BY JoinedReweighs
  <1>2. IsVotes(Joined(s, v, proxy))
    BY <1>1 DEF Reweighs
  <1>3. Reweighs(Joined(s, v, proxy), Voted(s, v, proxy, prods))
    <2>1. VotesAdded(Joined(s, v, proxy), Voted(s, v, proxy, prods), DOMAIN NewDelta(s, v, prods),
                     NewDelta(s, v, prods))
      BY <1>2, NewDeltaType, AddVotesAdded DEF Voted
    <2> QED BY <2>1 DEF VotesAdded
  <1> QED BY <1>1, <1>3, ReweighsMore

\* t is s with other weights, and v has another vote.
Revotes(s, t, v, proxy, prods) ==
    /\ IsVotes(t)
    /\ DOMAIN t.voters = DOMAIN s.voters
    /\ \A y \in DOMAIN s.voters \ {v} : SameBallot(s.voters[y], t.voters[y])
    /\ t.voters[v].staked = s.voters[v].staked /\ t.voters[v].is_proxy = s.voters[v].is_proxy
    /\ t.voters[v].proxy = proxy /\ t.voters[v].producers = prods
    /\ DOMAIN t.producers = DOMAIN s.producers
    /\ \A p \in DOMAIN s.producers :
          /\ t.producers[p].is_active = s.producers[p].is_active
          /\ p \notin UNION t.counts => t.producers[p] = s.producers[p]
    /\ t.counts = {} => t.producers = s.producers

\* The row of v after its vote.
Revoted(row, weight, prods, proxy) ==
    [row EXCEPT !.last_vote_weight = weight, !.producers = prods, !.proxy = proxy]

\* t is s with that row of v, and well typed.
HasRow(s, t, v, row) ==
    /\ IsVotes(t)
    /\ t.producers = s.producers /\ t.total = s.total /\ t.counts = s.counts
    /\ t.stake = s.stake /\ t.activated = s.activated
    /\ DOMAIN t.voters = DOMAIN s.voters \cup {v}
    /\ \A y \in DOMAIN s.voters \ {v} : t.voters[y] = s.voters[y]
    /\ t.voters[v] = row /\ row \in VoterRows

LEMMA RowIsSet ==
    ASSUME NEW s, IsVotes(s), NEW v \in Accounts, NEW t, NEW row \in VoterRows,
           DOMAIN t = VotesFields, t.producers = s.producers, t.total = s.total,
           t.stake = s.stake, t.activated = s.activated, t.counts = s.counts,
           DOMAIN t.voters = DOMAIN s.voters \cup {v},
           \A y \in DOMAIN s.voters \ {v} : t.voters[y] = s.voters[y],
           t.voters[v] = row,
           row.producers \subseteq DOMAIN s.producers,
           row.proxy # NoProxy => row.proxy \in DOMAIN s.voters \cup {v} /\ row.producers = {}
    PROVE  HasRow(s, t, v, row)
  <1>1. \A y \in DOMAIN t.voters :
            /\ t.voters[y] \in VoterRows
            /\ t.voters[y].producers \subseteq DOMAIN t.producers
            /\ t.voters[y].proxy # NoProxy => /\ t.voters[y].proxy \in DOMAIN t.voters
                                              /\ t.voters[y].producers = {}
    BY DEF IsVotes
  <1>2. IsVotes(t)
    BY <1>1 DEF IsVotes
  <1> QED BY <1>2 DEF HasRow

LEMMA SetVoteType ==
    ASSUME NEW s, IsVotes(s), NEW v, NEW proxy, NEW prods, MayBeVote(s, v, proxy, prods),
           NEW w \in Int, NEW t, t = SetVote(s, v, w, prods, proxy)
    PROVE  HasRow(s, t, v, Revoted(s.voters[v], w, prods, proxy))
  <1> DEFINE new == Revoted(s.voters[v], w, prods, proxy)
  <1>1. /\ v \in DOMAIN s.voters /\ prods \in SUBSET DOMAIN s.producers
        /\ proxy # NoProxy => proxy \in DOMAIN s.voters /\ prods = {}
    BY DEF MayBeVote
  <1>2. /\ DOMAIN t = VotesFields
        /\ t.producers = s.producers /\ t.total = s.total /\ t.counts = s.counts
        /\ t.stake = s.stake /\ t.activated = s.activated
        /\ DOMAIN t.voters = DOMAIN s.voters
        /\ \A y \in DOMAIN s.voters \ {v} : t.voters[y] = s.voters[y]
        /\ t.voters[v] = new
    BY <1>1 DEF SetVote, Revoted, IsVotes, VotesFields
  <1>3. s.voters[v] \in VoterRows /\ proxy \in Accounts \cup {NoProxy} /\ prods \in SUBSET Candidates
    BY <1>1 DEF IsVotes
  <1>4. new \in VoterRows /\ new.proxy = proxy /\ new.producers = prods
    BY <1>3 DEF VoterRows, Revoted
  <1> HIDE DEF new
  <1> QED BY <1>1, <1>2, <1>4, RowIsSet DEF new, IsVotes

LEMMA UpdateVotesRevotes ==
    ASSUME NEW s, IsVotes(s), NEW v, NEW proxy, NEW prods, MayBeVote(s, v, proxy, prods),
           week \in Weeks
    PROVE  Revotes(s, UpdateVotes(s, v, proxy, prods), v, proxy, prods)
  <1> DEFINE a == Activate(s, v)
  <1>2. v \in DOMAIN s.voters /\ s.voters[v] \in VoterRows
    BY DEF MayBeVote, IsVotes
  <1>5. PICK w \in Int : w = VoteWeight(s.voters[v])
    BY <1>2, VoteWeightType
  <1>0. PICK j : j = Voted(s, v, proxy, prods)
    OBVIOUS
  <1>1. PICK t : t = SetVote(j, v, w, prods, proxy) /\ t = UpdateVotes(s, v, proxy, prods)
    BY <1>0, <1>5, UpdateVotesSteps
  <1>3. IsVotes(a) /\ a.voters = s.voters /\ a.producers = s.producers
    BY <1>2, ActivateType
  <1>4. Reweighs(a, j)
    BY <1>0, VotedReweighs
  <1> HIDE DEF a
  <1>6. IsVotes(j) /\ MayBeVote(j, v, proxy, prods)
    BY <1>3, <1>4 DEF Reweighs, MayBeVote
  <1>7. HasRow(j, t, v, Revoted(j.voters[v], w, prods, proxy))
    <2>1. t = SetVote(j, v, w, prods, proxy)
      BY <1>1
    <2> QED BY <1>6, <2>1, SetVoteType
  <1>8. j.voters[v] \in VoterRows /\ SameBallot(s.voters[v], j.voters[v])
    BY <1>2, <1>3, <1>4 DEF Reweighs, IsVotes
  <1>9. /\ t.voters[v].staked = s.voters[v].staked /\ t.voters[v].is_proxy = s.voters[v].is_proxy
        /\ t.voters[v].proxy = proxy /\ t.voters[v].producers = prods
    BY <1>7, <1>8 DEF VoterRows, SameBallot, Revoted, HasRow
  <1>10. Revotes(s, t, v, proxy, prods)
    BY <1>2, <1>3, <1>4, <1>7, <1>9 DEF Revotes, Reweighs, HasRow
  <1> QED BY <1>1, <1>10

-----------------------------------------------------------------------------
(***************************************************************************)
(* The actions, as the steps they consist of.                              *)
(***************************************************************************)
LEMMA MayVoteIsVote ==
    ASSUME NEW s, NEW v, NEW proxy, NEW prods, NEW voting, MayVote(s, v, proxy, prods, voting)
    PROVE  /\ MayBeVote(s, v, proxy, prods)
           /\ proxy # NoProxy => ~s.voters[v].is_proxy /\ v # proxy
  BY DEF MayVote, MayBeVote

OldRow(s, v) == IF v \in DOMAIN s.voters THEN s.voters[v] ELSE NewVoter
MoreStake(row, change) == [row EXCEPT !.staked = @ + change]

LEMMA OldRowType ==
    ASSUME NEW s, IsVotes(s), NEW v
    PROVE  /\ OldRow(s, v) \in VoterRows
           /\ OldRow(s, v).producers \subseteq DOMAIN s.producers
           /\ OldRow(s, v).proxy # NoProxy => /\ OldRow(s, v).proxy \in DOMAIN s.voters
                                              /\ OldRow(s, v).producers = {}
           /\ v \notin DOMAIN s.voters => /\ OldRow(s, v).proxy = NoProxy
                                          /\ OldRow(s, v).producers = {}
                                          /\ OldRow(s, v).staked = 0
                                          /\ OldRow(s, v).last_vote_weight = 0
                                          /\ OldRow(s, v).proxied_vote_weight = 0
                                          /\ ~OldRow(s, v).is_proxy
  <1>1. NewVoter \in VoterRows
    BY DEF NewVoter, VoterRows
  <1>2. CASE v \in DOMAIN s.voters
    BY <1>2 DEF OldRow, IsVotes
  <1>3. CASE v \notin DOMAIN s.voters
    BY <1>1, <1>3 DEF OldRow, NewVoter
  <1> QED BY <1>2, <1>3

LEMMA StakedRow ==
    ASSUME NEW s, IsVotes(s), NEW v \in Accounts, NEW change \in Int,
           Staked(s, v, change).voters[v].staked \in Nat
    PROVE  HasRow(s, Staked(s, v, change), v, MoreStake(OldRow(s, v), change))
  <1> DEFINE t == Staked(s, v, change)
             old == OldRow(s, v)
             row == MoreStake(old, change)
  <1>1. t = [s EXCEPT !.voters = Row(@, v, row)]
    BY DEF Staked, MoreStake, OldRow
  <1>2. /\ DOMAIN t = VotesFields
        /\ t.producers = s.producers /\ t.total = s.total /\ t.counts = s.counts
        /\ t.stake = s.stake /\ t.activated = s.activated
        /\ t.voters = Row(s.voters, v, row)
    BY <1>1 DEF IsVotes, VotesFields
  <1>3. /\ DOMAIN t.voters = DOMAIN s.voters \cup {v}
        /\ \A y \in DOMAIN s.voters \ {v} : t.voters[y] = s.voters[y]
        /\ t.voters[v] = row
    BY <1>2 DEF Row
  <1>4. old \in VoterRows
    BY OldRowType
  <1>5. row.staked \in Nat
    BY <1>3
  <1> HIDE DEF t, old
  <1>6. row \in VoterRows /\ row.proxy = old.proxy /\ row.producers = old.producers
    BY <1>4, <1>5 DEF VoterRows, MoreStake
  <1> HIDE DEF row
  <1>7. /\ row.producers \subseteq DOMAIN s.producers
        /\ row.proxy # NoProxy => row.proxy \in DOMAIN s.voters \cup {v} /\ row.producers = {}
    BY <1>6, OldRowType DEF old
  <1>8. HasRow(s, t, v, row)
    BY <1>2, <1>3, <1>6, <1>7, RowIsSet
  <1> QED BY <1>8 DEF t, row, old

\* voteproducer
LEMMA VoteProducerSteps ==
    ASSUME IsVotes(Votes), week \in Weeks,
           NEW v, NEW proxy, NEW prods, VoteProducer(v, proxy, prods)
    PROVE  /\ Become(UpdateVotes(Votes, v, proxy, prods))
           /\ Revotes(Votes, UpdateVotes(Votes, v, proxy, prods), v, proxy, prods)
           /\ MayBeVote(Votes, v, proxy, prods)
           /\ proxy # NoProxy => /\ v # proxy /\ ~Votes.voters[v].is_proxy
                                 /\ Votes.voters[proxy].is_proxy
  <1>1. MayVote(Votes, v, proxy, prods, TRUE) /\ Become(UpdateVotes(Votes, v, proxy, prods))
    BY DEF VoteProducer
  <1>2. MayBeVote(Votes, v, proxy, prods)
        /\ (proxy # NoProxy => ~Votes.voters[v].is_proxy /\ v # proxy)
    BY <1>1, MayVoteIsVote
  <1>3. proxy # NoProxy => Votes.voters[proxy].is_proxy
    BY <1>1 DEF MayVote
  <1> QED BY <1>1, <1>2, <1>3, UpdateVotesRevotes

\* delegatebw and undelegatebw
LEMMA ChangeStakeSteps ==
    ASSUME IsVotes(Votes), week \in Weeks,
           NEW v \in Accounts, NEW change \in StakeChanges, ChangeStake(v, change)
    PROVE  \E t, row :
              /\ t = Staked(Votes, v, change)
              /\ row = MoreStake(OldRow(Votes, v), change)
              /\ HasRow(Votes, t, v, row)
              /\ Become(VotingPower(Votes, v, change))
              /\ \/ /\ row.producers # {} \/ row.proxy # NoProxy
                    /\ MayBeVote(t, v, row.proxy, row.producers)
                    /\ VotingPower(Votes, v, change) = UpdateVotes(t, v, row.proxy, row.producers)
                    /\ Revotes(t, VotingPower(Votes, v, change), v, row.proxy, row.producers)
                 \/ /\ ~(row.producers # {} \/ row.proxy # NoProxy)
                    /\ VotingPower(Votes, v, change) = t
  <1>0. change \in Int
    BY VotingConstants
  <1>1. MayChangeStake(Votes, v, change) /\ Become(VotingPower(Votes, v, change))
    BY DEF ChangeStake
  <1>2. PICK t : t = Staked(Votes, v, change)
    OBVIOUS
  <1>3. PICK row : row = MoreStake(OldRow(Votes, v), change)
    OBVIOUS
  <1>4. /\ t.voters[v].staked \in Nat
        /\ t.voters[v].producers # {} \/ t.voters[v].proxy # NoProxy
               => MayVote(t, v, t.voters[v].proxy, t.voters[v].producers, FALSE)
    <2>1. 0..MaxStake \subseteq Nat
      BY VotingConstants
    <2> QED BY <1>1, <1>2, <2>1 DEF MayChangeStake
  <1>5. HasRow(Votes, t, v, row)
    BY <1>0, <1>2, <1>3, <1>4, StakedRow
  <1>6. t.voters[v] = row /\ IsVotes(t)
    BY <1>5 DEF HasRow
  <1>7. VotingPower(Votes, v, change) = IF row.producers # {} \/ row.proxy # NoProxy
                                        THEN UpdateVotes(t, v, row.proxy, row.producers) ELSE t
    BY <1>2, <1>6 DEF VotingPower
  <1>8. CASE row.producers # {} \/ row.proxy # NoProxy
    <2>1. MayBeVote(t, v, row.proxy, row.producers)
      BY <1>4, <1>6, <1>8, MayVoteIsVote
    <2>2. Revotes(t, UpdateVotes(t, v, row.proxy, row.producers), v, row.proxy, row.producers)
      BY <1>6, <2>1, UpdateVotesRevotes
    <2>3. VotingPower(Votes, v, change) = UpdateVotes(t, v, row.proxy, row.producers)
      BY <1>7, <1>8
    <2> QED BY <1>1, <1>2, <1>3, <1>5, <1>8, <2>1, <2>2, <2>3
  <1>9. CASE ~(row.producers # {} \/ row.proxy # NoProxy)
    BY <1>1, <1>2, <1>3, <1>5, <1>7, <1>9
  <1> QED BY <1>8, <1>9

\* regproxy
SetProxy(s, v, on) == [s EXCEPT !.voters[v].is_proxy = on]
AddVoter(s, v, row) == [s EXCEPT !.voters = Row(@, v, row)]
AsProxy(row, on) == [row EXCEPT !.is_proxy = on]

LEMMA SetProxyRow ==
    ASSUME NEW s, IsVotes(s), NEW v \in DOMAIN s.voters, NEW on \in BOOLEAN
    PROVE  HasRow(s, SetProxy(s, v, on), v, AsProxy(s.voters[v], on))
  <1> DEFINE t == SetProxy(s, v, on)
             row == AsProxy(s.voters[v], on)
  <1>1. /\ DOMAIN t = VotesFields
        /\ t.producers = s.producers /\ t.total = s.total /\ t.counts = s.counts
        /\ t.stake = s.stake /\ t.activated = s.activated
        /\ DOMAIN t.voters = DOMAIN s.voters \cup {v}
        /\ \A y \in DOMAIN s.voters \ {v} : t.voters[y] = s.voters[y]
        /\ t.voters[v] = row
    BY DEF IsVotes, VotesFields, SetProxy, AsProxy
  <1>2. s.voters[v] \in VoterRows /\ v \in Accounts
    BY DEF IsVotes
  <1> HIDE DEF t
  <1>3. /\ row \in VoterRows
        /\ row.proxy = s.voters[v].proxy /\ row.producers = s.voters[v].producers
    BY <1>2 DEF VoterRows, AsProxy
  <1> HIDE DEF row
  <1>4. /\ row.producers \subseteq DOMAIN s.producers
        /\ row.proxy # NoProxy => row.proxy \in DOMAIN s.voters \cup {v} /\ row.producers = {}
    BY <1>3 DEF IsVotes
  <1>5. HasRow(s, t, v, row)
    BY <1>1, <1>2, <1>3, <1>4, RowIsSet
  <1> QED BY <1>5 DEF t, row

LEMMA AddVoterRow ==
    ASSUME NEW s, IsVotes(s), NEW v \in Accounts, NEW on \in BOOLEAN
    PROVE  HasRow(s, AddVoter(s, v, AsProxy(NewVoter, on)), v, AsProxy(NewVoter, on))
  <1> DEFINE row == AsProxy(NewVoter, on)
             t == AddVoter(s, v, row)
  <1>1. /\ DOMAIN t = VotesFields
        /\ t.producers = s.producers /\ t.total = s.total /\ t.counts = s.counts
        /\ t.stake = s.stake /\ t.activated = s.activated
        /\ t.voters = Row(s.voters, v, row)
    BY DEF IsVotes, VotesFields, AddVoter
  <1>2. /\ DOMAIN t.voters = DOMAIN s.voters \cup {v}
        /\ \A y \in DOMAIN s.voters \ {v} : t.voters[y] = s.voters[y]
        /\ t.voters[v] = row
    BY <1>1 DEF Row
  <1>3. row \in VoterRows /\ row.proxy = NoProxy /\ row.producers = {}
    BY DEF NewVoter, VoterRows, AsProxy
  <1> HIDE DEF t, row
  <1>4. HasRow(s, t, v, row)
    BY <1>1, <1>2, <1>3, RowIsSet
  <1> QED BY <1>4 DEF t, row

LEMMA RegProxySteps ==
    ASSUME IsVotes(Votes), week \in Weeks,
           NEW v \in Accounts, NEW on \in BOOLEAN, RegProxy(v, on)
    PROVE  \/ /\ v \in DOMAIN voters
              /\ on # voters[v].is_proxy /\ (on => voters[v].proxy = NoProxy)
              /\ Become(Propagate(SetProxy(Votes, v, on), v))
              /\ HasRow(Votes, SetProxy(Votes, v, on), v, AsProxy(voters[v], on))
              /\ Reweighs(SetProxy(Votes, v, on), Propagate(SetProxy(Votes, v, on), v))
           \/ /\ v \notin DOMAIN voters
              /\ Become(AddVoter(Votes, v, AsProxy(NewVoter, on)))
              /\ HasRow(Votes, AddVoter(Votes, v, AsProxy(NewVoter, on)), v, AsProxy(NewVoter, on))
  <1>0. Votes.voters = voters
    BY DEF Votes
  <1>1. CASE v \in DOMAIN voters
    <2>1. /\ on # voters[v].is_proxy /\ (on => voters[v].proxy = NoProxy)
          /\ Become(Propagate(SetProxy(Votes, v, on), v))
      BY <1>1 DEF RegProxy, SetProxy
    <2>2. HasRow(Votes, SetProxy(Votes, v, on), v, AsProxy(voters[v], on))
      BY <1>0, <1>1, SetProxyRow
    <2>3. IsVotes(SetProxy(Votes, v, on)) /\ v \in DOMAIN SetProxy(Votes, v, on).voters
      BY <2>2 DEF HasRow
    <2> QED BY <1>1, <2>1, <2>2, <2>3, PropagateReweighs
  <1>2. CASE v \notin DOMAIN voters
    <2>1. Become(AddVoter(Votes, v, AsProxy(NewVoter, on)))
      BY <1>2 DEF RegProxy, AddVoter, AsProxy
    <2> QED BY <1>2, <2>1, AddVoterRow
  <1> QED BY <1>1, <1>2

LEMMA BecomeVotes ==
    ASSUME NEW s, IsVotes(s), Become(s)
    PROVE  /\ IsVotes(Votes')
           /\ Votes'.voters = s.voters /\ Votes'.producers = s.producers
           /\ Votes'.total = s.total /\ Votes'.stake = s.stake /\ Votes'.activated = s.activated
  <1>1. /\ DOMAIN Votes' = VotesFields
        /\ Votes'.voters = s.voters /\ Votes'.producers = s.producers
        /\ Votes'.total = s.total /\ Votes'.stake = s.stake /\ Votes'.activated = s.activated
    BY DEF Votes, Become, VotesFields
  <1> QED BY <1>1 DEF IsVotes

-----------------------------------------------------------------------------
(***************************************************************************)
(* Proxies form chains: there is a rank of every account that gets smaller *)
(* from a voter to its proxy.  A vote through a proxy, which has none, puts *)
(* the proxy below all other accounts.                                     *)
(***************************************************************************)
Ranked(s, rank) ==
    \A v \in DOMAIN s.voters : s.voters[v].proxy # NoProxy => rank[s.voters[v].proxy] < rank[v]

Chained(s) ==
    /\ \E rank \in [Accounts -> Nat] : Ranked(s, rank)
    /\ \A v \in DOMAIN s.voters : s.voters[v].is_proxy => s.voters[v].proxy = NoProxy

LEMMA SameChains ==
    ASSUME NEW s, NEW t, Chained(s),
           \A v \in DOMAIN t.voters :
               \/ /\ v \in DOMAIN s.voters /\ t.voters[v].proxy = s.voters[v].proxy
                  /\ t.voters[v].is_proxy => s.voters[v].is_proxy
               \/ t.voters[v].proxy = NoProxy
    PROVE  Chained(t)
  <1>1. PICK rank \in [Accounts -> Nat] : Ranked(s, rank)
    BY DEF Chained
  <1>2. Ranked(t, rank)
    BY <1>1 DEF Ranked
  <1> QED BY <1>2 DEF Chained

LEMMA ReweighsChained ==
    ASSUME NEW s, NEW t, Reweighs(s, t), Chained(s)
    PROVE  Chained(t)
  BY SameChains DEF Reweighs, SameBallot

LEMMA RevotesChained ==
    ASSUME NEW s, NEW t, IsVotes(s), NEW v, NEW proxy, NEW prods, Chained(s), Revotes(s, t, v, proxy, prods),
           MayBeVote(s, v, proxy, prods),
           \/ proxy = NoProxy
           \/ v # proxy /\ ~s.voters[v].is_proxy /\ s.voters[proxy].is_proxy
    PROVE  Chained(t)
  <1>1. CASE proxy = NoProxy
    BY <1>1, SameChains DEF Revotes, SameBallot
  <1>2. CASE proxy # NoProxy
    <2>1. PICK rank \in [Accounts -> Nat] : Ranked(s, rank)
      BY DEF Chained
    <2> DEFINE new == [y \in Accounts |-> IF y = proxy THEN 0 ELSE rank[y] + 1]
    <2>2. new \in [Accounts -> Nat]
      OBVIOUS
    <2>3. s.voters[proxy].proxy = NoProxy /\ t.voters[v].proxy = proxy /\ ~t.voters[v].is_proxy
      BY <1>2 DEF Chained, MayBeVote, Revotes
    <2>4. ASSUME NEW y \in DOMAIN t.voters, t.voters[y].proxy # NoProxy
          PROVE  new[t.voters[y].proxy] < new[y]
      <3>1. y \in Accounts /\ t.voters[y].proxy \in Accounts
        BY <2>4 DEF Revotes, IsVotes
      <3>2. CASE y = v
        BY <1>2, <2>3, <3>1, <3>2
      <3>3. CASE y # v
        <4>1. y \in DOMAIN s.voters /\ t.voters[y].proxy = s.voters[y].proxy
          BY <3>3 DEF Revotes, SameBallot
        <4>2. rank[s.voters[y].proxy] < rank[y] /\ y # proxy
          BY <2>1, <2>3, <2>4, <4>1 DEF Ranked
        <4> QED BY <3>1, <4>1, <4>2
      <3> QED BY <3>2, <3>3
    <2>5. Ranked(t, new)
      BY <2>4 DEF Ranked
    <2>6. \A y \in DOMAIN t.voters : t.voters[y].is_proxy => t.voters[y].proxy = NoProxy
      BY <2>3 DEF Chained, Revotes, SameBallot
    <2> QED BY <2>2, <2>5, <2>6 DEF Chained
  <1> QED BY <1>1, <1>2

LEMMA RevotesSameChained ==
    ASSUME NEW s, NEW t, NEW v, Chained(s), v \in DOMAIN s.voters,
           Revotes(s, t, v, s.voters[v].proxy, s.voters[v].producers)
    PROVE  Chained(t)
  BY SameChains DEF Revotes, SameBallot

\* The state of the votes, as far as it does not depend on the weights.
VotesInv == IsVotes(Votes) /\ Chained(Votes) /\ week \in Weeks

LEMMA VoteProducerInv ==
    ASSUME VotesInv, NEW v, NEW proxy, NEW prods, VoteProducer(v, proxy, prods)
    PROVE  VotesInv'
  <1>1. week' = week
    BY DEF VoteProducer
  <1>2. PICK t : t = UpdateVotes(Votes, v, proxy, prods)
    OBVIOUS
  <1>3. /\ Become(t) /\ Revotes(Votes, t, v, proxy, prods) /\ MayBeVote(Votes, v, proxy, prods)
        /\ proxy # NoProxy => /\ v # proxy /\ ~Votes.voters[v].is_proxy
                              /\ Votes.voters[proxy].is_proxy
    BY <1>2, VoteProducerSteps DEF VotesInv
  <1>4. Chained(t) /\ IsVotes(t)
    BY <1>3, RevotesChained DEF Revotes, VotesInv
  <1>5. IsVotes(Votes') /\ Chained(Votes')
    BY <1>3, <1>4, BecomeVotes, SameChains
  <1> QED BY <1>1, <1>5 DEF VotesInv

LEMMA ChangeStakeInv ==
    ASSUME VotesInv, NEW v \in Accounts, NEW change \in StakeChanges, ChangeStake(v, change)
    PROVE  VotesInv'
  <1>1. week' = week
    BY DEF ChangeStake
  <1>2. PICK t, row :
              /\ row = MoreStake(OldRow(Votes, v), change)
              /\ HasRow(Votes, t, v, row)
              /\ Become(VotingPower(Votes, v, change))
              /\ \/ Revotes(t, VotingPower(Votes, v, change), v, row.proxy, row.producers)
                 \/ VotingPower(Votes, v, change) = t
    BY ChangeStakeSteps DEF VotesInv
  <1>3. IsVotes(t) /\ v \in DOMAIN t.voters /\ t.voters[v] = row
    BY <1>2 DEF HasRow
  <1>4. PICK old : old = OldRow(Votes, v) /\ old \in VoterRows
    BY OldRowType DEF VotesInv
  <1>5. row.proxy = old.proxy /\ row.is_proxy = old.is_proxy
    BY <1>2, <1>4 DEF MoreStake, VoterRows
  <1>6. \/ v \in DOMAIN Votes.voters /\ old = Votes.voters[v]
        \/ old.proxy = NoProxy
    BY <1>4, OldRowType DEF OldRow, VotesInv
  <1>7. Chained(t)
    BY <1>2, <1>3, <1>5, <1>6, SameChains DEF HasRow, VotesInv
  <1>8. PICK u : u = VotingPower(Votes, v, change)
    OBVIOUS
  <1>9. IsVotes(u) /\ Chained(u) /\ Become(u)
    <2>1. CASE Revotes(t, u, v, row.proxy, row.producers)
      BY <1>2, <1>3, <1>7, <1>8, <2>1, RevotesSameChained DEF Revotes
    <2>2. CASE u = t
      BY <1>2, <1>3, <1>7, <1>8, <2>2
    <2> QED BY <1>2, <1>8, <2>1, <2>2
  <1>10. IsVotes(Votes') /\ Chained(Votes')
    BY <1>9, BecomeVotes, SameChains
  <1> QED BY <1>1, <1>10 DEF VotesInv

LEMMA RegProxyInv ==
    ASSUME VotesInv, NEW v \in Accounts, NEW on \in BOOLEAN, RegProxy(v, on)
    PROVE  VotesInv'
  <1>1. week' = week /\ Votes.voters = voters
    BY DEF RegProxy, Votes
  <1>2. CASE v \in DOMAIN voters
    <2>1. PICK t, u : t = SetProxy(Votes, v, on) /\ u = Propagate(t, v)
      OBVIOUS
    <2>2. /\ on => voters[v].proxy = NoProxy
          /\ Become(u) /\ HasRow(Votes, t, v, AsProxy(voters[v], on)) /\ Reweighs(t, u)
      BY <1>2, <2>1, RegProxySteps DEF VotesInv
    <2>3. voters[v] \in VoterRows
      BY <1>1, <1>2 DEF VotesInv, IsVotes
    <2>4. t.voters[v].proxy = voters[v].proxy /\ t.voters[v].is_proxy = on
      BY <2>2, <2>3 DEF HasRow, AsProxy, VoterRows
    <2>5. \A y \in DOMAIN t.voters :
               \/ /\ y \in DOMAIN Votes.voters /\ t.voters[y].proxy = Votes.voters[y].proxy
                  /\ t.voters[y].is_proxy => Votes.voters[y].is_proxy
               \/ t.voters[y].proxy = NoProxy
      BY <1>1, <1>2, <2>2, <2>4 DEF HasRow
    <2>6. Chained(t)
      BY <2>5, SameChains DEF VotesInv
    <2>7. Chained(u) /\ IsVotes(u)
      BY <2>2, <2>6, ReweighsChained DEF Reweighs
    <2>8. IsVotes(Votes') /\ Chained(Votes')
      BY <2>2, <2>7, BecomeVotes, SameChains
    <2> QED BY <1>1, <2>8 DEF VotesInv
  <1>3. CASE v \notin DOMAIN voters
    <2>1. PICK t : t = AddVoter(Votes, v, AsProxy(NewVoter, on))
      OBVIOUS
    <2>2. Become(t) /\ HasRow(Votes, t, v, AsProxy(NewVoter, on))
      BY <1>3, <2>1, RegProxySteps DEF VotesInv
    <2>3. t.voters[v].proxy = NoProxy
      BY <2>2 DEF HasRow, AsProxy, NewVoter
    <2>4. Chained(t) /\ IsVotes(t)
      BY <2>2, <2>3, SameChains DEF HasRow, VotesInv
    <2>5. IsVotes(Votes') /\ Chained(Votes')
      BY <2>2, <2>4, BecomeVotes, SameChains
    <2> QED BY <1>1, <2>5 DEF VotesInv
  <1> QED BY <1>2, <1>3

LEMMA ProducerInv ==
    ASSUME VotesInv, NEW p \in Candidates, RegProducer(p) \/ UnregProd(p)
    PROVE  VotesInv'
  <1>1. /\ DOMAIN Votes = VotesFields /\ DOMAIN Votes' = VotesFields
        /\ Votes'.voters = Votes.voters /\ Votes'.total = Votes.total
        /\ Votes'.stake = Votes.stake /\ Votes'.activated = Votes.activated
        /\ Votes.producers = producers /\ Votes'.producers = producers'
        /\ week' = week
    BY DEF RegProducer, UnregProd, Votes, VotesFields
  <1>2. DOMAIN producers \subseteq Candidates /\ \A q \in DOMAIN producers : producers[q] \in ProducerRows
    BY <1>1 DEF VotesInv, IsVotes
  <1>3. /\ DOMAIN producers \subseteq DOMAIN producers' /\ DOMAIN producers' \subseteq Candidates
        /\ \A q \in DOMAIN producers' : producers'[q] \in ProducerRows
    <2>1. CASE RegProducer(p) /\ p \in DOMAIN producers
      BY <1>2, <2>1 DEF RegProducer, ProducerRows
    <2>2. CASE RegProducer(p) /\ p \notin DOMAIN producers
      BY <1>2, <2>2 DEF RegProducer, Row, ProducerRows
    <2>3. CASE UnregProd(p)
      BY <1>2, <2>3 DEF UnregProd, ProducerRows
    <2> QED BY <2>1, <2>2, <2>3
  <1>4. IsVotes(Votes')
    BY <1>1, <1>3 DEF VotesInv, IsVotes
  <1>5. Chained(Votes')
    BY <1>1, SameChains DEF VotesInv
  <1> QED BY <1>1, <1>4, <1>5 DEF VotesInv

LEMMA SameVotesInv ==
    ASSUME VotesInv, week' \in Weeks,
           UNCHANGED <<voters, producers, total_vote_weight, activated_stake, activated>>
    PROVE  VotesInv'
  <1>1. Votes' = Votes
    BY DEF Votes
  <1> QED BY <1>1 DEF VotesInv

LEMMA VotesStep == VotesInv /\ [Next]_votingVars => VotesInv'
  <1> SUFFICES ASSUME VotesInv, [Next]_votingVars PROVE VotesInv'
    OBVIOUS
  <1>1. CASE NextWeek
    BY <1>1, SameVotesInv DEF NextWeek
  <1>2. CASE UNCHANGED votingVars
    BY <1>2, SameVotesInv DEF votingVars, VotesInv
  <1> QED BY <1>1, <1>2, VoteProducerInv, ChangeStakeInv, RegProxyInv, ProducerInv DEF Next

LEMMA NoVotes ==
    ASSUME voters = [a \in {} |-> NewVoter], NEW L \in SUBSET Candidates,
           producers = [p \in L |-> [is_active |-> TRUE, total_votes |-> 0]],
           total_vote_weight = 0, activated_stake = 0, activated = FALSE, week \in Weeks
    PROVE  VotesInv
  <1>1. /\ DOMAIN Votes = VotesFields /\ DOMAIN Votes.voters = {}
        /\ DOMAIN Votes.producers = L
        /\ \A p \in L : Votes.producers[p] \in ProducerRows
        /\ Votes.total = 0 /\ Votes.stake = 0 /\ Votes.activated \in BOOLEAN
    BY DEF Votes, VotesFields, ProducerRows
  <1>2. IsVotes(Votes)
    BY <1>1 DEF IsVotes
  <1>3. [a \in Accounts |-> 0] \in [Accounts -> Nat]
    OBVIOUS
  <1>4. Chained(Votes)
    BY <1>1, <1>3 DEF Chained, Ranked
  <1> QED BY <1>2, <1>4 DEF VotesInv

\* There are as many ranks as accounts.
LEMMA RanksBelow ==
    ASSUME NEW rank \in [Accounts -> Nat]
    PROVE  /\ Cardinality(Accounts) \in Nat
           /\ \E new \in [Accounts -> Nat] :
                 /\ \A x \in Accounts : new[x] < Cardinality(Accounts)
                 /\ \A x, y \in Accounts : rank[y] < rank[x] => new[y] < new[x]
  <1> DEFINE below(x) == {y \in Accounts : rank[y] < rank[x]}
             new == [x \in Accounts |-> Cardinality(below(x))]
  <1>2. Cardinality(Accounts) \in Nat
    BY VotingConstants, FS_CardinalityType
  <1>3. ASSUME NEW x \in Accounts, NEW T \in SUBSET Accounts, below(x) \subseteq T, x \in T
        PROVE  /\ Cardinality(below(x)) \in Nat
               /\ Cardinality(below(x)) < Cardinality(T)
    <2>1. IsFiniteSet(T) /\ below(x) # T
      BY <1>3, VotingConstants, FS_Subset
    <2> QED BY <1>3, <2>1, FS_Subset, FS_CardinalityType
  <1>4. ASSUME NEW x \in Accounts
        PROVE  new[x] \in Nat /\ new[x] < Cardinality(Accounts)
    BY <1>3
  <1>5. ASSUME NEW x \in Accounts, NEW y \in Accounts, rank[y] < rank[x]
        PROVE  new[y] < new[x]
    <2>1. below(y) \subseteq below(x) /\ y \in below(x) /\ below(x) \in SUBSET Accounts
      BY <1>5
    <2> QED BY <1>3, <2>1
  <1>6. new \in [Accounts -> Nat]
    BY <1>4
  <1> HIDE DEF new
  <1> QED BY <1>2, <1>4, <1>5, <1>6

LEMMA RankBelow ==
    ASSUME NEW s, IsVotes(s), NEW rank \in [Accounts -> Nat], Ranked(s, rank)
    PROVE  /\ Cardinality(Accounts) \in Nat
           /\ \E new \in [Accounts -> Nat] :
                 /\ Ranked(s, new)
                 /\ \A x \in Accounts : new[x] < Cardinality(Accounts)
                 /\ \A x, y \in Accounts : rank[y] < rank[x] => new[y] < new[x]
  <1>1. PICK new \in [Accounts -> Nat] :
            /\ \A x \in Accounts : new[x] < Cardinality(Accounts)
            /\ \A x, y \in Accounts : rank[y] < rank[x] => new[y] < new[x]
    BY RanksBelow
  <1>2. Ranked(s, new)
    BY <1>1 DEF Ranked, IsVotes
  <1> QED BY <1>1, <1>2, RanksBelow

\* The proxies of the proxies of v.
NextProxy(x) == IF x = NoProxy THEN NoProxy ELSE voters[x].proxy
IsChain(chain, n, v) == chain = [i \in 0..n |-> IF i = 0 THEN v ELSE NextProxy(chain[i - 1])]

LEMMA ChainsExist ==
    ASSUME NEW v, NEW N \in Nat
    PROVE  \E chain : IsChain(chain, N, v)
  <1> DEFINE Good == {n \in 0..N : \E chain : IsChain(chain, n, v)}
  <1>1. 0 \in Good
    <2> DEFINE c == [i \in 0..0 |-> v]
    <2>1. IsChain(c, 0, v)
      BY DEF IsChain
    <2> QED BY <2>1
  <1>2. ASSUME NEW n \in 1..N, n - 1 \in Good PROVE n \in Good
    <2>1. PICK c : IsChain(c, n - 1, v)
      BY <1>2
    <2> DEFINE d == [i \in 0..n |-> IF i = n THEN NextProxy(c[n - 1]) ELSE c[i]]
    <2>2. \A i \in 0..(n - 1) : d[i] = c[i]
      OBVIOUS
    <2>3. \A i \in 0..(n - 1) : c[i] = IF i = 0 THEN v ELSE NextProxy(c[i - 1])
      BY <2>1 DEF IsChain
    <2>4. \A i \in 0..n : d[i] = IF i = 0 THEN v ELSE NextProxy(d[i - 1])
      BY <2>2, <2>3
    <2>5. IsChain(d, n, v)
      BY <2>4 DEF IsChain
    <2> QED BY <2>5
  <1>3. \A n \in 0..N : n \in Good
    <2> HIDE DEF Good
    <2> QED BY <1>1, <1>2, NumbersInduction
  <1> QED BY <1>3

LEMMA ChainsEnd ==
    ASSUME VotesInv, NEW v \in DOMAIN voters, NEW chain, IsChain(chain, Cardinality(Accounts), v)
    PROVE  chain[Cardinality(Accounts)] = NoProxy
  <1> DEFINE N == Cardinality(Accounts)
  <1>1. Votes.voters = voters
    BY DEF Votes
  <1>2. PICK rank \in [Accounts -> Nat] :
            /\ N \in Nat /\ Ranked(Votes, rank) /\ \A x \in Accounts : rank[x] < N
    BY RankBelow DEF VotesInv, Chained
  <1>3. \A x \in DOMAIN voters :
            /\ x \in Accounts
            /\ voters[x].proxy # NoProxy =>
                  voters[x].proxy \in DOMAIN voters /\ rank[voters[x].proxy] < rank[x]
    BY <1>1, <1>2 DEF VotesInv, IsVotes, Ranked
  <1> HIDE DEF N
  <1>4. /\ chain[0] = v
        /\ \A i \in 1..N : chain[i] = NextProxy(chain[i - 1])
    BY <1>2 DEF IsChain, N
  <1> DEFINE Good == {i \in 0..N : \/ chain[i] = NoProxy
                                   \/ chain[i] \in DOMAIN voters /\ rank[chain[i]] + i < N}
  <1>5. 0 \in Good
    BY <1>2, <1>3, <1>4
  <1>6. ASSUME NEW i \in 1..N, i - 1 \in Good PROVE i \in Good
    <2>1. CASE chain[i - 1] = NoProxy
      BY <1>2, <1>4, <2>1 DEF NextProxy
    <2>2. CASE chain[i - 1] # NoProxy
      <3>1. PICK x \in DOMAIN voters : x = chain[i - 1] /\ rank[x] + (i - 1) < N
        BY <1>6, <2>2
      <3>2. chain[i] = voters[x].proxy
        BY <1>4, <2>2, <3>1 DEF NextProxy
      <3>3. CASE voters[x].proxy = NoProxy
        BY <3>2, <3>3, <1>2
      <3>4. CASE voters[x].proxy # NoProxy
        <4>1. PICK y \in DOMAIN voters : y = voters[x].proxy /\ rank[y] < rank[x]
          BY <1>3, <3>4
        <4>2. rank[x] \in Nat /\ rank[y] \in Nat
          BY <1>3
        <4>3. rank[y] + i < N
          BY <1>2, <3>1, <4>1, <4>2
        <4> QED BY <1>2, <3>2, <4>1, <4>3
      <3> QED BY <3>3, <3>4
    <2> QED BY <2>1, <2>2
  <1> HIDE DEF Good
  <1>7. N \in Good
    BY <1>2, <1>5, <1>6, NumbersInduction
  <1>8. \A x \in DOMAIN voters : ~(rank[x] + N < N)
    BY <1>2, <1>3
  <1> QED BY <1>7, <1>8 DEF Good, N

LEMMA VotesInvChains == VotesInv => ProxiesFormChains
  <1> SUFFICES ASSUME VotesInv, NEW v \in DOMAIN voters
               PROVE  LET chain[i \in 0..Cardinality(Accounts)] ==
                              IF i = 0 THEN v
                              ELSE IF chain[i - 1] = NoProxy THEN NoProxy ELSE voters[chain[i - 1]].proxy
                      IN  /\ chain[Cardinality(Accounts)] = NoProxy
                          /\ voters[v].is_proxy => voters[v].proxy = NoProxy
    BY DEF ProxiesFormChains
  <1> DEFINE chain == CHOOSE c : IsChain(c, Cardinality(Accounts), v)
  <1>1. IsChain(chain, Cardinality(Accounts), v)
    BY VotingConstants, FS_CardinalityType, ChainsExist
  <1>2. chain[Cardinality(Accounts)] = NoProxy
    BY <1>1, ChainsEnd
  <1>3. voters[v].is_proxy => voters[v].proxy = NoProxy
    BY DEF VotesInv, Chained, Votes
  <1> QED BY <1>2, <1>3 DEF IsChain, NextProxy

LEMMA InitialVotes == Init => VotesInv
  <1>1. {} \in SUBSET Candidates
    OBVIOUS
  <1> QED BY <1>1, NoVotes, VotingConstants DEF Init

\* voting.cpp, regproxy: "account that uses a proxy is not allowed to become a
\* proxy", and update_votes: "account registered as a proxy is not allowed to
\* use a proxy".  That makes the recursion of propagate_weight_change end.
THEOREM ChainsCorrect == Spec => []ProxiesFormChains
  BY InitialVotes, VotesStep, VotesInvChains, PTL DEF Spec

-----------------------------------------------------------------------------
(***************************************************************************)
(* Coarse weights.  propagate_weight_change drops a change of a weight by  *)
(* 1 or less; if the weights of a unit of stake are multiples of a number  *)
(* above 1, then so is every weight, and nothing is ever dropped.          *)
(***************************************************************************)
Parts(U) == {U * k : k \in Nat}
CoarseBy(U) == U \in Nat /\ U > 1 /\ \A w \in Weeks : Growth[w] \in Parts(U)
WeightsAreCoarse == \E U \in Nat : CoarseBy(U)

LEMMA PartsAdd ==
    ASSUME NEW U \in Nat, NEW a \in Parts(U), NEW b \in Parts(U)
    PROVE  a \in Nat /\ a + b \in Parts(U)
  <1>1. PICK k \in Nat, m \in Nat : a = U * k /\ b = U * m
    BY DEF Parts
  <1>2. U * k \in Nat /\ U * k + U * m = U * (k + m) /\ k + m \in Nat
    OBVIOUS
  <1> QED BY <1>1, <1>2 DEF Parts

LEMMA PartsNat == ASSUME NEW U \in Nat, NEW a \in Parts(U) PROVE a \in Nat
  BY PartsAdd

LEMMA PartsTimes ==
    ASSUME NEW U \in Nat, NEW a \in Parts(U), NEW n \in Nat
    PROVE  n * a \in Parts(U)
  <1>1. PICK k \in Nat : a = U * k
    BY DEF Parts
  <1>2. n * (U * k) = U * (n * k) /\ n * k \in Nat
    OBVIOUS
  <1> QED BY <1>1, <1>2 DEF Parts

LEMMA PartsZero == ASSUME NEW U \in Nat PROVE 0 \in Parts(U)
  <1>1. U * 0 = 0
    OBVIOUS
  <1> QED BY <1>1 DEF Parts

LEMMA PartsDiffer ==
    ASSUME NEW U \in Nat, U > 1, NEW a \in Parts(U), NEW b \in Parts(U), a # b
    PROVE  a - b > 1 \/ a - b < -1
  <1>1. PICK k \in Nat, m \in Nat : a = U * k /\ b = U * m
    BY DEF Parts
  <1>2. \A i, j \in Nat : i > j => U * i - U * j >= U
    <2> SUFFICES ASSUME NEW i \in Nat, NEW j \in Nat, i > j PROVE U * i - U * j >= U
      OBVIOUS
    <2>1. PICK d \in Nat : i = j + 1 + d
      <3>1. i - j - 1 \in Nat
        OBVIOUS
      <3> QED BY <3>1
    <2>2. U * i = U * j + U + U * d /\ U * d \in Nat /\ U * j \in Nat
      BY <2>1
    <2> QED BY <2>2
  <1>3. k > m \/ m > k
    BY <1>1
  <1>4. U * k \in Nat /\ U * m \in Nat
    OBVIOUS
  <1>5. CASE k > m
    <2>1. U * k - U * m >= U
      BY <1>2, <1>5
    <2> QED BY <1>1, <1>4, <2>1
  <1>6. CASE m > k
    <2>1. U * m - U * k >= U
      BY <1>2, <1>6
    <2> QED BY <1>1, <1>4, <2>1
  <1> QED BY <1>3, <1>5, <1>6

LEMMA PartsSum ==
    ASSUME NEW U \in Nat, NEW S, IsFiniteSet(S), NEW f, \A x \in S : f[x] \in Parts(U)
    PROVE  SumFunctionOnSet(f, S) \in Parts(U)
  <1> DEFINE Good == {T \in SUBSET S : SumFunctionOnSet(f, T) \in Parts(U)}
  <1>1. {} \in Good
    BY SumEmpty, PartsZero
  <1>2. ASSUME NEW T \in SUBSET S, T # {}, \A x \in T : T \ {x} \in Good
        PROVE  T \in Good
    <2>1. PICK x \in T : TRUE
      BY <1>2
    <2>0. \A a \in Parts(U) : a \in Int
      BY PartsNat
    <2>2. IsFiniteSet(T) /\ \A y \in T : f[y] \in Int
      BY <2>0, FS_Subset
    <2>3. SumFunctionOnSet(f, T) = f[x] + SumFunctionOnSet(f, T \ {x})
      BY <2>2, SumRemove
    <2>4. f[x] \in Parts(U) /\ SumFunctionOnSet(f, T \ {x}) \in Parts(U)
      BY <1>2, <2>1
    <2> QED BY <2>3, <2>4, PartsAdd
  <1> HIDE DEF Good
  <1>3. \A T \in SUBSET S : T \in Good
    BY <1>1, <1>2, SubsetsInduction
  <1> QED BY <1>3 DEF Good

-----------------------------------------------------------------------------
(***************************************************************************)
(* The tallies, while the vote of v is on its way: all other voters count  *)
(* with what their rows say, and v with w for the proxy z and with pw for  *)
(* the producers P.                                                        *)
(***************************************************************************)
ProxyShare(s, v, x) ==
    [y \in DOMAIN s.voters |-> IF y # v /\ s.voters[y].proxy = x
                               THEN s.voters[y].last_vote_weight ELSE 0]
VoteShare(s, v, p) ==
    [y \in DOMAIN s.voters |-> IF y # v /\ p \in s.voters[y].producers
                               THEN s.voters[y].last_vote_weight ELSE 0]
TotalVotes(s) == SumFunction([p \in DOMAIN s.producers |-> s.producers[p].total_votes])

CountedBut(s, v, z, w, P, pw) ==
    /\ \A x \in DOMAIN s.voters :
          s.voters[x].proxied_vote_weight
              = SumFunction(ProxyShare(s, v, x)) + IF x = z THEN w ELSE 0
    /\ \A p \in DOMAIN s.producers :
          s.producers[p].total_votes
              = SumFunction(VoteShare(s, v, p)) + IF p \in P THEN pw ELSE 0
    /\ s.total = TotalVotes(s)

\* All count with what their rows say.
Counted(s) == CountedBut(s, NoProxy, NoProxy, 0, {}, 0)

CoarseLasts(U, s) == \A y \in DOMAIN s.voters : s.voters[y].last_vote_weight \in Parts(U)

LEMMA ShareSums ==
    ASSUME NEW U \in Nat, NEW s, IsVotes(s), CoarseLasts(U, s), NEW v, NEW x
    PROVE  /\ IsFiniteSet(DOMAIN s.voters)
           /\ DOMAIN ProxyShare(s, v, x) = DOMAIN s.voters
           /\ DOMAIN VoteShare(s, v, x) = DOMAIN s.voters
           /\ \A y \in DOMAIN s.voters : /\ ProxyShare(s, v, x)[y] \in Nat
                                         /\ VoteShare(s, v, x)[y] \in Nat
           /\ SumFunction(ProxyShare(s, v, x)) \in Parts(U)
           /\ SumFunction(VoteShare(s, v, x)) \in Parts(U)
  <1>1. IsFiniteSet(DOMAIN s.voters)
    BY VotingConstants, FS_Subset DEF IsVotes
  <1>2. /\ DOMAIN ProxyShare(s, v, x) = DOMAIN s.voters
        /\ DOMAIN VoteShare(s, v, x) = DOMAIN s.voters
        /\ \A y \in DOMAIN s.voters : /\ ProxyShare(s, v, x)[y] \in Parts(U)
                                      /\ VoteShare(s, v, x)[y] \in Parts(U)
    BY PartsZero DEF ProxyShare, VoteShare, CoarseLasts
  <1>3. \A a \in Parts(U) : a \in Nat
    BY PartsAdd
  <1> QED BY <1>1, <1>2, <1>3, PartsSum DEF SumFunction

\* The last weight of one voter x changes: the sums its vote is in do so too.
LEMMA LastChanges ==
    ASSUME NEW U \in Nat, NEW s, NEW t, IsVotes(s), IsVotes(t), CoarseLasts(U, s), CoarseLasts(U, t),
           NEW v, NEW x \in DOMAIN s.voters, x # v, NEW d \in Int,
           DOMAIN t.voters = DOMAIN s.voters,
           \A y \in DOMAIN s.voters : SameBallot(s.voters[y], t.voters[y]),
           \A y \in DOMAIN s.voters \ {x} :
               t.voters[y].last_vote_weight = s.voters[y].last_vote_weight,
           t.voters[x].last_vote_weight = s.voters[x].last_vote_weight + d
    PROVE  /\ \A a : SumFunction(ProxyShare(t, v, a))
                         = SumFunction(ProxyShare(s, v, a)) + IF s.voters[x].proxy = a THEN d ELSE 0
           /\ \A p : SumFunction(VoteShare(t, v, p))
                         = SumFunction(VoteShare(s, v, p)) + IF p \in s.voters[x].producers THEN d ELSE 0
  <1>1. s.voters[x].last_vote_weight \in Int
    BY DEF IsVotes, VoterRows
  <1>2. ASSUME NEW a
        PROVE  SumFunction(ProxyShare(t, v, a))
                   = SumFunction(ProxyShare(s, v, a)) + IF s.voters[x].proxy = a THEN d ELSE 0
    <2>1. PICK f, g : f = ProxyShare(s, v, a) /\ g = ProxyShare(t, v, a)
      OBVIOUS
    <2>2. /\ IsFiniteSet(DOMAIN f) /\ DOMAIN g = DOMAIN f /\ DOMAIN f = DOMAIN s.voters
          /\ (\A y \in DOMAIN f : f[y] \in Int) /\ (\A y \in DOMAIN g : g[y] \in Int)
      BY <2>1, ShareSums
    <2>3. \A y \in DOMAIN f \ {x} : f[y] = g[y]
      BY <2>1 DEF ProxyShare, SameBallot
    <2>4. g[x] = f[x] + IF s.voters[x].proxy = a THEN d ELSE 0
      BY <1>1, <2>1 DEF ProxyShare, SameBallot
    <2>5. Moves(SumFunction(f), SumFunction(g), f[x], g[x])
      BY <2>2, <2>3, SumChanges DEF At
    <2> QED BY <2>1, <2>4, <2>5 DEF Moves
  <1>3. ASSUME NEW p
        PROVE  SumFunction(VoteShare(t, v, p))
                   = SumFunction(VoteShare(s, v, p)) + IF p \in s.voters[x].producers THEN d ELSE 0
    <2>1. PICK f, g : f = VoteShare(s, v, p) /\ g = VoteShare(t, v, p)
      OBVIOUS
    <2>2. /\ IsFiniteSet(DOMAIN f) /\ DOMAIN g = DOMAIN f /\ DOMAIN f = DOMAIN s.voters
          /\ (\A y \in DOMAIN f : f[y] \in Int) /\ (\A y \in DOMAIN g : g[y] \in Int)
      BY <2>1, ShareSums
    <2>3. \A y \in DOMAIN f \ {x} : f[y] = g[y]
      BY <2>1 DEF VoteShare, SameBallot
    <2>4. g[x] = f[x] + IF p \in s.voters[x].producers THEN d ELSE 0
      BY <1>1, <2>1 DEF VoteShare, SameBallot
    <2>5. Moves(SumFunction(f), SumFunction(g), f[x], g[x])
      BY <2>2, <2>3, SumChanges DEF At
    <2> QED BY <2>1, <2>4, <2>5 DEF Moves
  <1> QED BY <1>2, <1>3

\* Weights are only set and proxied ones only added: the sums stay.
LEMMA SameShares ==
    ASSUME NEW s, NEW t, NEW v, DOMAIN t.voters = DOMAIN s.voters,
           \A y \in DOMAIN s.voters \ {v} :
               /\ SameBallot(s.voters[y], t.voters[y])
               /\ t.voters[y].last_vote_weight = s.voters[y].last_vote_weight
    PROVE  \A x : ProxyShare(t, v, x) = ProxyShare(s, v, x) /\ VoteShare(t, v, x) = VoteShare(s, v, x)
  BY DEF ProxyShare, VoteShare, SameBallot

\* v counts as any other.
LEMMA CountedWith ==
    ASSUME NEW U \in Nat, NEW s, IsVotes(s), CoarseLasts(U, s), NEW v \in DOMAIN s.voters
    PROVE  Counted(s) <=> CountedBut(s, v, s.voters[v].proxy, s.voters[v].last_vote_weight,
                                     s.voters[v].producers, s.voters[v].last_vote_weight)
  <1>0. s.voters[v].last_vote_weight \in Int /\ v # NoProxy
    BY VotingConstants DEF IsVotes, VoterRows
  <1>1. ASSUME NEW a
        PROVE  /\ SumFunction(ProxyShare(s, NoProxy, a)) = SumFunction(ProxyShare(s, v, a))
                       + IF s.voters[v].proxy = a THEN s.voters[v].last_vote_weight ELSE 0
               /\ SumFunction(ProxyShare(s, NoProxy, a)) \in Int
    <2>1. PICK f, g : f = ProxyShare(s, v, a) /\ g = ProxyShare(s, NoProxy, a)
      OBVIOUS
    <2>2. /\ IsFiniteSet(DOMAIN f) /\ DOMAIN g = DOMAIN f /\ DOMAIN f = DOMAIN s.voters
          /\ (\A y \in DOMAIN f : f[y] \in Int) /\ (\A y \in DOMAIN g : g[y] \in Int)
      BY <2>1, ShareSums
    <2>3. \A y \in DOMAIN f \ {v} : f[y] = g[y]
      BY <2>1, VotingConstants DEF ProxyShare, IsVotes
    <2>4. f[v] = 0 /\ g[v] = IF s.voters[v].proxy = a THEN s.voters[v].last_vote_weight ELSE 0
      BY <1>0, <2>1 DEF ProxyShare
    <2>5. Moves(SumFunction(f), SumFunction(g), f[v], g[v])
      BY <2>2, <2>3, SumChanges DEF At
    <2> QED BY <2>1, <2>4, <2>5 DEF Moves
  <1>2. ASSUME NEW p
        PROVE  /\ SumFunction(VoteShare(s, NoProxy, p)) = SumFunction(VoteShare(s, v, p))
                       + IF p \in s.voters[v].producers THEN s.voters[v].last_vote_weight ELSE 0
               /\ SumFunction(VoteShare(s, NoProxy, p)) \in Int
    <2>1. PICK f, g : f = VoteShare(s, v, p) /\ g = VoteShare(s, NoProxy, p)
      OBVIOUS
    <2>2. /\ IsFiniteSet(DOMAIN f) /\ DOMAIN g = DOMAIN f /\ DOMAIN f = DOMAIN s.voters
          /\ (\A y \in DOMAIN f : f[y] \in Int) /\ (\A y \in DOMAIN g : g[y] \in Int)
      BY <2>1, ShareSums
    <2>3. \A y \in DOMAIN f \ {v} : f[y] = g[y]
      BY <2>1, VotingConstants DEF VoteShare, IsVotes
    <2>4. f[v] = 0 /\ g[v] = IF p \in s.voters[v].producers THEN s.voters[v].last_vote_weight ELSE 0
      BY <1>0, <2>1 DEF VoteShare
    <2>5. Moves(SumFunction(f), SumFunction(g), f[v], g[v])
      BY <2>2, <2>3, SumChanges DEF At
    <2> QED BY <2>1, <2>4, <2>5 DEF Moves
  <1>3. \A x \in DOMAIN s.voters : x # NoProxy
    BY VotingConstants DEF IsVotes
  <1> QED BY <1>0, <1>1, <1>2, <1>3 DEF Counted, CountedBut

LEMMA CoarseTallies ==
    ASSUME NEW U \in Nat, NEW s, IsVotes(s), CoarseLasts(U, s),
           NEW v, NEW z, NEW w \in Parts(U), NEW P, NEW pw \in Parts(U), CountedBut(s, v, z, w, P, pw)
    PROVE  \A x \in DOMAIN s.voters : s.voters[x].proxied_vote_weight \in Parts(U)
  <1> SUFFICES ASSUME NEW x \in DOMAIN s.voters
               PROVE  s.voters[x].proxied_vote_weight \in Parts(U)
    OBVIOUS
  <1>1. PICK a \in Parts(U) : a = SumFunction(ProxyShare(s, v, x))
    BY ShareSums
  <1>2. s.voters[x].proxied_vote_weight = a + IF x = z THEN w ELSE 0
    BY <1>1 DEF CountedBut
  <1>3. 0 \in Parts(U)
    BY PartsZero
  <1>4. a + 0 \in Parts(U) /\ a + w \in Parts(U)
    BY <1>3, PartsAdd
  <1> QED BY <1>2, <1>4

LEMMA CoarseWeight ==
    ASSUME NEW U, CoarseBy(U), week \in Weeks, NEW row \in VoterRows,
           row.proxied_vote_weight \in Parts(U)
    PROVE  VoteWeight(row) \in Parts(U)
  <1>1. row.staked * Growth[week] \in Parts(U) /\ 0 \in Parts(U)
    BY PartsTimes, PartsZero DEF CoarseBy, VoterRows
  <1>2. row.staked * Growth[week] + row.proxied_vote_weight \in Parts(U)
        /\ row.staked * Growth[week] + 0 \in Parts(U)
    BY <1>1, PartsAdd DEF CoarseBy
  <1> QED BY <1>2 DEF VoteWeight, Stake2Vote

\* AddVotes, where nothing is clamped.
TalliesAdded(s, t, P, delta) ==
    /\ \A p \in DOMAIN s.producers :
          t.producers[p].total_votes
              = s.producers[p].total_votes + IF p \in P THEN delta[p] ELSE 0
    /\ t.total = TotalVotes(t)

LEMMA AddVotesTallies ==
    ASSUME NEW s, IsVotes(s), NEW P \in SUBSET Candidates, NEW delta, \A p \in P : delta[p] \in Int,
           \A p \in P \cap DOMAIN s.producers : s.producers[p].total_votes + delta[p] >= 0,
           s.total = TotalVotes(s), NEW t, t = AddVotes(s, P, delta)
    PROVE  TalliesAdded(s, t, P, delta)
  <1> DEFINE D == DOMAIN s.producers
             Q == P \cap D
             f == [p \in D |-> s.producers[p].total_votes]
             g == [p \in DOMAIN t.producers |-> t.producers[p].total_votes]
  <1>1. /\ IsVotes(t) /\ DOMAIN t.producers = D
        /\ t.total = s.total + SumFunctionOnSet(delta, Q)
        /\ \A p \in D : t.producers[p].total_votes
                            = IF p \notin P THEN s.producers[p].total_votes
                              ELSE IF s.producers[p].total_votes + delta[p] < 0 THEN 0
                              ELSE s.producers[p].total_votes + delta[p]
    <2>1. VotesAdded(s, t, P, delta)
      BY AddVotesAdded
    <2>2. IsVotes(t) /\ DOMAIN t.producers = D
      BY <2>1 DEF VotesAdded, Reweighs
    <2> QED BY <2>1, <2>2 DEF VotesAdded
  <1>2. \A p \in D : s.producers[p].total_votes \in Nat
    BY DEF IsVotes, ProducerRows
  <1>3. \A p \in D : t.producers[p].total_votes
                         = s.producers[p].total_votes + IF p \in P THEN delta[p] ELSE 0
    BY <1>1, <1>2
  <1>4. IsFiniteSet(D) /\ Q \in SUBSET D /\ (\A p \in D : f[p] \in Int) /\ (\A p \in Q : delta[p] \in Int)
    BY <1>2, VotingConstants, FS_Subset DEF IsVotes
  <1>5. \A p \in D : g[p] = f[p] + IF p \in Q THEN delta[p] ELSE 0
    BY <1>1, <1>3
  <1>6. SumFunctionOnSet(g, D) = SumFunctionOnSet(f, D) + SumFunctionOnSet(delta, Q)
    <2> HIDE DEF D, Q, f, g
    <2> QED BY <1>4, <1>5, SumAdded
  <1>7. TotalVotes(s) = SumFunctionOnSet(f, D) /\ TotalVotes(t) = SumFunctionOnSet(g, D)
    BY <1>1 DEF TotalVotes, SumFunction
  <1> QED BY <1>1, <1>3, <1>6, <1>7 DEF TalliesAdded

\* What a call for x does to the rows of voters.
RowsPropagated(s, t, x) ==
    /\ DOMAIN t.voters = DOMAIN s.voters
    /\ \A y \in DOMAIN s.voters :
          /\ SameBallot(s.voters[y], t.voters[y])
          /\ t.voters[y].last_vote_weight
                 = IF y = x THEN VoteWeight(s.voters[x]) ELSE s.voters[y].last_vote_weight
          /\ t.voters[y].proxied_vote_weight
                 = s.voters[y].proxied_vote_weight
                       + IF y = s.voters[x].proxy THEN Delta(s, x) ELSE 0

LEMMA PropagateOnceRows ==
    ASSUME NEW U, CoarseBy(U), week \in Weeks, NEW s, IsVotes(s), CoarseLasts(U, s),
           NEW x \in DOMAIN s.voters, s.voters[x].proxied_vote_weight \in Parts(U),
           s.voters[x].proxy # x
    PROVE  /\ IsVotes(PassOn(s, x)) /\ Delta(s, x) \in Int
           /\ VoteWeight(s.voters[x]) \in Parts(U)
           /\ RowsPropagated(s, PropagateOnce(s, x).votes, x)
           /\ PropagateOnce(s, x).votes.producers = PassOn(s, x).producers
           /\ PropagateOnce(s, x).votes.total = PassOn(s, x).total
           /\ PropagateOnce(s, x).next = IF Delta(s, x) # 0 THEN s.voters[x].proxy ELSE NoProxy
           /\ Large(s, x) <=> Delta(s, x) # 0
  <1>1. Reweighs(s, PassOn(s, x)) /\ Delta(s, x) \in Int
    BY PassOnReweighs
  <1>2. /\ s.voters[x] \in VoterRows /\ x \in Accounts
        /\ \A y \in DOMAIN s.voters : s.voters[y].proxied_vote_weight \in Int /\ y # NoProxy
    BY VotingConstants DEF IsVotes, VoterRows
  <1>3. VoteWeight(s.voters[x]) \in Parts(U) /\ s.voters[x].last_vote_weight \in Parts(U)
    BY <1>2, CoarseWeight DEF CoarseLasts
  <1>4. VoteWeight(s.voters[x]) \in Int /\ s.voters[x].last_vote_weight \in Int
    <2>1. \A a \in Parts(U) : a \in Int
      BY PartsNat DEF CoarseBy
    <2> QED BY <1>3, <2>1
  <1>5. Large(s, x) <=> Delta(s, x) # 0
    BY <1>3, <1>4, PartsDiffer DEF Large, Delta, CoarseBy
  <1>6a. PICK d \in Int : d = Delta(s, x)
    BY <1>1
  <1>6b. PICK t : t = PassOn(s, x)
    OBVIOUS
  <1>6. t = PassOn(s, x) /\ d = Delta(s, x)
    BY <1>6a, <1>6b
  <1>7. IsVotes(t) /\ x \in DOMAIN t.voters
    BY <1>1, <1>6 DEF Reweighs
  <1>8. /\ DOMAIN t.voters = DOMAIN s.voters
        /\ \A y \in DOMAIN s.voters :
              /\ SameBallot(s.voters[y], t.voters[y])
              /\ t.voters[y].last_vote_weight = s.voters[y].last_vote_weight
              /\ t.voters[y].proxied_vote_weight
                     = s.voters[y].proxied_vote_weight + IF y = s.voters[x].proxy THEN d ELSE 0
    <2>1. CASE d = 0
      <3>1. t = s
        BY <1>5, <1>6, <2>1 DEF PassOn
      <3>2. \A n \in Int : n + 0 = n
        OBVIOUS
      <3> QED BY <1>2, <2>1, <3>1, <3>2 DEF SameBallot
    <2>2. CASE d # 0 /\ s.voters[x].proxy # NoProxy
      <3>1. t = AddProxied(s, s.voters[x].proxy, d) /\ s.voters[x].proxy \in DOMAIN s.voters
        BY <1>5, <1>6, <2>2 DEF PassOn, IsVotes
      <3>2. t.voters = [s.voters EXCEPT ![s.voters[x].proxy].proxied_vote_weight = @ + d]
        BY <3>1, AddProxiedReweighs
      <3>3. \A y \in DOMAIN s.voters : s.voters[y] \in VoterRows
        BY DEF IsVotes
      <3> QED BY <1>2, <3>1, <3>2, <3>3 DEF SameBallot, VoterRows
    <2>3. CASE d # 0 /\ s.voters[x].proxy = NoProxy
      <3>1. t.voters = s.voters
        <4> DEFINE delta == [p \in s.voters[x].producers |-> d]
        <4>1. t = AddVotes(s, s.voters[x].producers, delta)
          BY <1>5, <1>6, <2>3 DEF PassOn
        <4>2. s.voters[x].producers \in SUBSET Candidates /\ \A p \in s.voters[x].producers : delta[p] \in Int
          BY <1>2 DEF VoterRows
        <4> HIDE DEF delta
        <4>3. VotesAdded(s, t, s.voters[x].producers, delta)
          BY <4>1, <4>2, AddVotesAdded
        <4> QED BY <4>3 DEF VotesAdded
      <3> QED BY <1>2, <2>3, <3>1 DEF SameBallot
    <2> QED BY <2>1, <2>2, <2>3
  <1>9. PICK w \in Int : w = VoteWeight(s.voters[x])
    BY <1>4
  <1>10. PICK u : u = SetLast(t, x, w) /\ u = PropagateOnce(s, x).votes
    BY <1>6, <1>9, PropagateOnceSteps
  <1>11. /\ u.producers = t.producers /\ u.total = t.total
         /\ u.voters = [t.voters EXCEPT ![x].last_vote_weight = w]
    <2>1. u = SetLast(t, x, w)
      BY <1>10
    <2> QED BY <1>7, <2>1, SetLastReweighs
  <1>12. \A y \in DOMAIN t.voters :
            /\ SameBallot(t.voters[y], u.voters[y])
            /\ u.voters[y].last_vote_weight = IF y = x THEN w ELSE t.voters[y].last_vote_weight
            /\ u.voters[y].proxied_vote_weight = t.voters[y].proxied_vote_weight
    <2>1. \A y \in DOMAIN t.voters : t.voters[y] \in VoterRows
      BY <1>7 DEF IsVotes
    <2> QED BY <1>7, <1>11, <2>1 DEF SameBallot, VoterRows
  <1>13. RowsPropagated(s, u, x)
    BY <1>6, <1>8, <1>9, <1>11, <1>12 DEF RowsPropagated, SameBallot
  <1> QED BY <1>1, <1>3, <1>5, <1>6, <1>7, <1>10, <1>11, <1>13, PropagateOnceSteps

LEMMA PropagateOnceCounts ==
    ASSUME NEW U, CoarseBy(U), week \in Weeks, NEW s, IsVotes(s), CoarseLasts(U, s),
           NEW v, NEW z, NEW w \in Parts(U), NEW P, NEW pw \in Parts(U), CountedBut(s, v, z, w, P, pw),
           NEW x \in DOMAIN s.voters, x # v, s.voters[x].proxy # x,
           NEW t, t = PropagateOnce(s, x).votes
    PROVE  IsVotes(t) /\ CoarseLasts(U, t) /\ CountedBut(t, v, z, w, P, pw)
  <1>0. U \in Nat /\ \A a \in Parts(U) : a \in Nat
    BY PartsNat DEF CoarseBy
  <1>1. s.voters[x].proxied_vote_weight \in Parts(U)
    BY <1>0, CoarseTallies
  <1>2. PICK u : u = PassOn(s, x)
    OBVIOUS
  <1>3. /\ IsVotes(u) /\ Delta(s, x) \in Int
        /\ VoteWeight(s.voters[x]) \in Parts(U)
        /\ RowsPropagated(s, t, x)
        /\ t.producers = u.producers /\ t.total = u.total
        /\ Large(s, x) <=> Delta(s, x) # 0
    BY <1>1, <1>2, PropagateOnceRows
  <1>4. IsVotes(t)
    BY PropagateOnceReweighs DEF Reweighs
  <1>5. CoarseLasts(U, t)
    BY <1>3 DEF CoarseLasts, RowsPropagated
  <1>6. PICK d \in Int : d = Delta(s, x)
    BY <1>3
  <1>7. s.voters[x] \in VoterRows
    BY DEF IsVotes
  <1>8. t.voters[x].last_vote_weight = s.voters[x].last_vote_weight + d
    <2>1. VoteWeight(s.voters[x]) \in Int /\ s.voters[x].last_vote_weight \in Int
      BY <1>0, <1>3, <1>7 DEF VoterRows
    <2>2. t.voters[x].last_vote_weight = VoteWeight(s.voters[x])
      BY <1>3 DEF RowsPropagated
    <2> QED BY <1>6, <2>1, <2>2 DEF Delta
  <1>9. /\ DOMAIN t.voters = DOMAIN s.voters
        /\ \A y \in DOMAIN s.voters : SameBallot(s.voters[y], t.voters[y])
        /\ \A y \in DOMAIN s.voters \ {x} :
               t.voters[y].last_vote_weight = s.voters[y].last_vote_weight
    BY <1>3 DEF RowsPropagated
  <1>10. /\ \A a : SumFunction(ProxyShare(t, v, a))
                       = SumFunction(ProxyShare(s, v, a)) + IF s.voters[x].proxy = a THEN d ELSE 0
         /\ \A p : SumFunction(VoteShare(t, v, p))
                       = SumFunction(VoteShare(s, v, p)) + IF p \in s.voters[x].producers THEN d ELSE 0
    BY <1>0, <1>4, <1>5, <1>8, <1>9, LastChanges
  <1>11. \A a : /\ SumFunction(ProxyShare(s, v, a)) \in Nat /\ SumFunction(VoteShare(s, v, a)) \in Nat
                /\ SumFunction(ProxyShare(t, v, a)) \in Nat /\ SumFunction(VoteShare(t, v, a)) \in Nat
    BY <1>0, <1>4, <1>5, ShareSums
  <1>12. ASSUME NEW a \in DOMAIN t.voters
         PROVE  t.voters[a].proxied_vote_weight
                    = SumFunction(ProxyShare(t, v, a)) + IF a = z THEN w ELSE 0
    <2>1. PICK m \in Nat, n \in Nat : m = SumFunction(ProxyShare(s, v, a))
                                      /\ n = SumFunction(ProxyShare(t, v, a))
      BY <1>11
    <2>2. n = m + IF s.voters[x].proxy = a THEN d ELSE 0
      BY <1>10, <2>1
    <2>3. PICK g \in Nat : g = IF a = z THEN w ELSE 0
      BY <1>0
    <2>4. s.voters[a].proxied_vote_weight = m + g
      BY <1>9, <2>1, <2>3 DEF CountedBut
    <2>5. t.voters[a].proxied_vote_weight
              = s.voters[a].proxied_vote_weight + IF a = s.voters[x].proxy THEN d ELSE 0
      BY <1>3, <1>6, <1>9 DEF RowsPropagated
    <2> QED BY <2>1, <2>2, <2>3, <2>4, <2>5
  <1>13. CASE d = 0 \/ s.voters[x].proxy # NoProxy
    <2>1. u.producers = s.producers /\ u.total = s.total
      <3>1. CASE d = 0
        BY <1>2, <1>3, <1>6, <3>1 DEF PassOn
      <3>2. CASE d # 0
        <4>1. u = AddProxied(s, s.voters[x].proxy, d) /\ s.voters[x].proxy \in DOMAIN s.voters
          BY <1>2, <1>3, <1>6, <1>13, <3>2 DEF PassOn, IsVotes
        <4> QED BY <4>1, AddProxiedReweighs
      <3> QED BY <3>1, <3>2
    <2>2. \A p : SumFunction(VoteShare(t, v, p)) = SumFunction(VoteShare(s, v, p))
      <3>1. s.voters[x].proxy # NoProxy => s.voters[x].producers = {}
        BY DEF IsVotes
      <3> QED BY <1>10, <1>11, <1>13, <3>1
    <2>3. t.producers = s.producers /\ t.total = s.total
      BY <1>3, <2>1
    <2> QED BY <1>4, <1>5, <1>12, <2>2, <2>3 DEF CountedBut, TotalVotes
  <1>14. CASE d # 0 /\ s.voters[x].proxy = NoProxy
    <2> DEFINE Q == s.voters[x].producers
               delta == [p \in Q |-> d]
    <2>1. u = AddVotes(s, Q, delta)
      BY <1>2, <1>3, <1>6, <1>14 DEF PassOn
    <2>2. Q \in SUBSET Candidates /\ \A p \in Q : delta[p] = d
      BY <1>7 DEF VoterRows
    <2>3. \A p \in Q : delta[p] \in Int
      BY <2>2
    <2> HIDE DEF Q, delta
    <2>4. ASSUME NEW p \in DOMAIN s.producers
          PROVE  s.producers[p].total_votes + (IF p \in Q THEN d ELSE 0)
                     = SumFunction(VoteShare(t, v, p)) + IF p \in P THEN pw ELSE 0
      <3>1. PICK m \in Nat, n \in Nat : m = SumFunction(VoteShare(s, v, p))
                                        /\ n = SumFunction(VoteShare(t, v, p))
        BY <1>11
      <3>2. n = m + IF p \in Q THEN d ELSE 0
        BY <1>10, <3>1 DEF Q
      <3>3. PICK g \in Nat : g = IF p \in P THEN pw ELSE 0
        BY <1>0
      <3>4. s.producers[p].total_votes = m + g
        BY <3>1, <3>3 DEF CountedBut
      <3> QED BY <3>1, <3>2, <3>3, <3>4
    <2>5. ASSUME NEW p \in Q \cap DOMAIN s.producers
          PROVE  s.producers[p].total_votes + delta[p] >= 0
      <3>1. PICK n \in Nat : n = SumFunction(VoteShare(t, v, p))
        BY <1>11
      <3>2. PICK g \in Nat : g = IF p \in P THEN pw ELSE 0
        BY <1>0
      <3>3. s.producers[p].total_votes + d = n + g
        BY <2>4, <3>1, <3>2
      <3> QED BY <2>2, <3>3
    <2>6. s.total = TotalVotes(s)
      BY DEF CountedBut
    <2>7. TalliesAdded(s, u, Q, delta)
      BY <2>1, <2>2, <2>3, <2>5, <2>6, AddVotesTallies
    <2>8. DOMAIN t.producers = DOMAIN s.producers
      BY PropagateOnceReweighs DEF Reweighs
    <2>9. \A p \in DOMAIN t.producers :
              t.producers[p].total_votes
                  = SumFunction(VoteShare(t, v, p)) + IF p \in P THEN pw ELSE 0
      <3>1. ASSUME NEW p \in DOMAIN s.producers
            PROVE  u.producers[p].total_votes
                       = s.producers[p].total_votes + IF p \in Q THEN d ELSE 0
        BY <2>2, <2>7 DEF TalliesAdded
      <3>2. \A p \in DOMAIN s.producers : t.producers[p].total_votes = u.producers[p].total_votes
        BY <1>3
      <3> QED BY <2>4, <2>8, <3>1, <3>2
    <2>10. t.total = TotalVotes(t)
      BY <1>3, <2>7 DEF TotalVotes, TalliesAdded
    <2> QED BY <1>4, <1>5, <1>12, <2>9, <2>10 DEF CountedBut
  <1> QED BY <1>13, <1>14

-----------------------------------------------------------------------------
\* The vote of that row is counted with its full weight of some week so far.
IsFull(row) ==
    \E w \in Weeks :
        /\ w <= week
        /\ row.last_vote_weight = row.staked * Growth[w]
               + IF row.is_proxy THEN row.proxied_vote_weight ELSE 0
FullExcept(s, E) ==
    \A y \in DOMAIN s.voters \ E :
        s.voters[y].producers # {} \/ s.voters[y].proxy # NoProxy => IsFull(s.voters[y])

\* Who has stake and a weight keeps a weight.
Weighs(row) == row.staked > 0 /\ row.last_vote_weight > 0
KeepsWeights(s, t) == \A y \in DOMAIN s.voters : Weighs(s.voters[y]) => Weighs(t.voters[y])

SameRow(row, new) ==
    /\ SameBallot(row, new)
    /\ new.last_vote_weight = row.last_vote_weight
    /\ new.proxied_vote_weight = row.proxied_vote_weight

\* What a call for x does to the rows of voters, in these terms.
LEMMA PropagateOnceFills ==
    ASSUME NEW U, CoarseBy(U), week \in Weeks, NEW s, IsVotes(s), CoarseLasts(U, s),
           NEW x \in DOMAIN s.voters, s.voters[x].proxied_vote_weight \in Parts(U),
           s.voters[x].proxy # x, NEW t, t = PropagateOnce(s, x).votes,
           NEW v, v # x, s.voters[x].proxy # v \/ v \notin DOMAIN s.voters, FullExcept(s, {v, x})
    PROVE  /\ FullExcept(t, {v, PropagateOnce(s, x).next})
           /\ KeepsWeights(s, t)
           /\ v \in DOMAIN s.voters => SameRow(s.voters[v], t.voters[v])
  <1>1. /\ Delta(s, x) \in Int /\ RowsPropagated(s, t, x)
        /\ PropagateOnce(s, x).next = IF Delta(s, x) # 0 THEN s.voters[x].proxy ELSE NoProxy
    BY PropagateOnceRows
  <1>2. /\ \A y \in DOMAIN s.voters : s.voters[y] \in VoterRows
        /\ week \in Nat /\ Growth[week] \in Nat /\ Growth[week] > 1
    BY VotingConstants DEF IsVotes
  <1>3. PICK d \in Int : d = Delta(s, x)
    BY <1>1
  <1>4. ASSUME NEW y \in DOMAIN s.voters, y # x, d = 0 \/ y # s.voters[x].proxy
        PROVE  SameRow(s.voters[y], t.voters[y])
    <2>1. s.voters[y].proxied_vote_weight \in Int
      BY <1>2 DEF VoterRows
    <2> QED BY <1>1, <1>3, <1>4, <2>1 DEF RowsPropagated, SameRow
  <1>5. /\ SameBallot(s.voters[x], t.voters[x])
        /\ t.voters[x].last_vote_weight = VoteWeight(s.voters[x])
        /\ t.voters[x].proxied_vote_weight = s.voters[x].proxied_vote_weight
    <2>1. s.voters[x].proxied_vote_weight \in Int
      BY <1>2 DEF VoterRows
    <2> QED BY <1>1, <2>1 DEF RowsPropagated
  <1>6. IsFull(t.voters[x])
    BY <1>2, <1>5 DEF IsFull, VoteWeight, Stake2Vote, SameBallot
  <1>7. DOMAIN t.voters = DOMAIN s.voters
    BY <1>1 DEF RowsPropagated
  <1>8. \A y \in DOMAIN s.voters : y # NoProxy
    BY VotingConstants DEF IsVotes
  <1>9. ASSUME NEW y \in DOMAIN t.voters, y # v, y # PropagateOnce(s, x).next,
               t.voters[y].producers # {} \/ t.voters[y].proxy # NoProxy
        PROVE  IsFull(t.voters[y])
    <2>1. CASE y # x
      <3>1. SameRow(s.voters[y], t.voters[y])
        BY <1>1, <1>3, <1>4, <1>7, <1>9, <2>1
      <3>2. s.voters[y].producers # {} \/ s.voters[y].proxy # NoProxy
        BY <1>9, <3>1 DEF SameRow, SameBallot
      <3>3. IsFull(s.voters[y])
        BY <1>7, <1>9, <2>1, <3>2 DEF FullExcept
      <3> QED BY <3>1, <3>3 DEF IsFull, SameRow, SameBallot
    <2> QED BY <1>6, <2>1
  <1>10. FullExcept(t, {v, PropagateOnce(s, x).next})
    BY <1>9 DEF FullExcept
  <1>11. ASSUME NEW y \in DOMAIN s.voters, Weighs(s.voters[y])
         PROVE  Weighs(t.voters[y])
    <2>1. CASE y = x
      <3>1. s.voters[x].staked \in Nat /\ s.voters[x].staked > 0
        BY <1>2, <1>11, <2>1 DEF Weighs, VoterRows
      <3>2. s.voters[x].proxied_vote_weight \in Nat
        BY PartsNat DEF CoarseBy
      <3>3. \A a, b \in Nat : a > 0 /\ b > 1 => a * b \in Nat /\ a * b > 0
        OBVIOUS
      <3>4. s.voters[x].staked * Growth[week] \in Nat /\ s.voters[x].staked * Growth[week] > 0
        BY <1>2, <3>1, <3>3
      <3>5. VoteWeight(s.voters[x]) > 0
        BY <3>2, <3>4 DEF VoteWeight, Stake2Vote
      <3> QED BY <1>5, <2>1, <3>1, <3>5 DEF Weighs, SameBallot
    <2>2. CASE y # x
      BY <1>1, <1>11, <2>2 DEF RowsPropagated, Weighs, SameBallot
    <2> QED BY <2>1, <2>2
  <1>12. v \in DOMAIN s.voters => SameRow(s.voters[v], t.voters[v])
    BY <1>4
  <1> QED BY <1>10, <1>11, <1>12 DEF KeepsWeights

Tallied(U, s, v, z, w, P, pw) ==
    IsVotes(s) /\ CoarseLasts(U, s) /\ CountedBut(s, v, z, w, P, pw)

\* What stays, or may only come, while weights are propagated past v.
Passes(s, t, v) ==
    /\ Reweighs(s, t)
    /\ KeepsWeights(s, t)
    /\ v \in DOMAIN s.voters => SameRow(s.voters[v], t.voters[v])

LEMMA PassesSame == ASSUME NEW s, IsVotes(s), NEW v PROVE Passes(s, s, v)
  BY ReweighsSame DEF Passes, KeepsWeights, SameRow, SameBallot

LEMMA PassesMore ==
    ASSUME NEW s, NEW t, NEW u, NEW v, Passes(s, t, v), Passes(t, u, v)
    PROVE  Passes(s, u, v)
  <1>1. Reweighs(s, u)
    BY ReweighsMore DEF Passes
  <1>2. DOMAIN s.voters = DOMAIN t.voters
    BY DEF Passes, Reweighs
  <1>3. KeepsWeights(s, u)
    BY <1>2 DEF Passes, KeepsWeights
  <1>4. v \in DOMAIN s.voters => SameRow(s.voters[v], u.voters[v])
    <2>1. PICK a, b, c : a = s.voters[v] /\ b = t.voters[v] /\ c = u.voters[v]
      OBVIOUS
    <2>2. v \in DOMAIN s.voters => SameRow(a, b) /\ SameRow(b, c)
      BY <1>2, <2>1 DEF Passes
    <2>3. SameRow(a, b) /\ SameRow(b, c) => SameRow(a, c)
      BY DEF SameRow, SameBallot
    <2> QED BY <2>1, <2>2, <2>3
  <1> QED BY <1>1, <1>3, <1>4 DEF Passes

\* propagate_weight_change for x, which is before v on no chain of proxies:
\* all tallies stay what they are said to be, and no voter is left with less
\* than its full weight.
LEMMA PropagateCounts ==
    ASSUME NEW U, CoarseBy(U), week \in Weeks, NEW s,
           NEW v, NEW z, NEW w \in Parts(U), NEW P, NEW pw \in Parts(U),
           Tallied(U, s, v, z, w, P, pw), NEW x \in DOMAIN s.voters,
           NEW rank \in [Accounts -> Nat], Ranked(s, rank), v \in Accounts => rank[x] < rank[v],
           FullExcept(s, {v, x}), NEW t, t = Propagate(s, x)
    PROVE  Tallied(U, t, v, z, w, P, pw) /\ FullExcept(t, {v}) /\ Passes(s, t, v)
  <1> DEFINE N == Cardinality(Accounts)
  <1>0. IsVotes(s) /\ CoarseLasts(U, s) /\ CountedBut(s, v, z, w, P, pw)
    BY DEF Tallied
  <1>1. PICK calls : /\ N \in Nat
                     /\ calls[0] = [votes |-> s, next |-> x]
                     /\ \A i \in 1..N : calls[i] = NextCall(calls[i - 1])
                     /\ Propagate(s, x) = calls[N].votes
    BY PropagateCalls
  <1>2. PICK new \in [Accounts -> Nat] :
            /\ Ranked(s, new)
            /\ \A y \in Accounts : new[y] < N
            /\ \A y, a \in Accounts : rank[a] < rank[y] => new[a] < new[y]
    BY <1>0, RankBelow
  <1>3. DOMAIN s.voters \subseteq Accounts /\ NoProxy \notin Accounts
    BY <1>0, VotingConstants DEF IsVotes
  <1> HIDE DEF N
  <1> DEFINE Good == {i \in 0..N :
                 /\ Tallied(U, calls[i].votes, v, z, w, P, pw)
                 /\ Passes(s, calls[i].votes, v)
                 /\ FullExcept(calls[i].votes, {v, calls[i].next})
                 /\ \/ calls[i].next = NoProxy
                    \/ /\ calls[i].next \in DOMAIN s.voters
                       /\ new[calls[i].next] + i < N
                       /\ v \in Accounts => new[calls[i].next] < new[v]}
  <1>4. 0 \in Good
    <2>1. new[x] \in Nat /\ new[x] + 0 < N
      BY <1>1, <1>2, <1>3
    <2>2. 0 \in 0..N /\ calls[0].votes = s /\ calls[0].next = x
      BY <1>1
    <2>3. Passes(s, s, v)
      BY <1>0, PassesSame
    <2>4. v \in Accounts => new[x] < new[v]
      BY <1>2, <1>3
    <2> QED BY <2>1, <2>2, <2>3, <2>4
  <1>5. ASSUME NEW i \in 1..N, i - 1 \in Good PROVE i \in Good
    <2>0. i \in 0..N
      BY <1>1
    <2>1. PICK c : c = calls[i - 1]
      OBVIOUS
    <2>2. PICK r, y : r = c.votes /\ y = c.next
      OBVIOUS
    <2>3. /\ Tallied(U, r, v, z, w, P, pw) /\ Passes(s, r, v) /\ FullExcept(r, {v, y})
          /\ \/ y = NoProxy
             \/ /\ y \in DOMAIN s.voters /\ new[y] + (i - 1) < N
                /\ v \in Accounts => new[y] < new[v]
      BY <1>5, <2>1, <2>2
    <2>4. calls[i] = IF y = NoProxy THEN c ELSE PropagateOnce(r, y)
      BY <1>1, <2>1, <2>2 DEF NextCall
    <2>5. CASE y = NoProxy
      BY <2>0, <2>2, <2>3, <2>4, <2>5
    <2>6. CASE y # NoProxy
      <3> HIDE DEF Good
      <3>1. /\ y \in DOMAIN r.voters /\ DOMAIN r.voters = DOMAIN s.voters /\ y \in Accounts
            /\ \A a \in DOMAIN s.voters : SameBallot(s.voters[a], r.voters[a])
            /\ IsVotes(r) /\ CoarseLasts(U, r) /\ CountedBut(r, v, z, w, P, pw)
        BY <1>3, <2>3, <2>6 DEF Passes, Reweighs, Tallied
      <3>2. PICK q : q = r.voters[y].proxy
        OBVIOUS
      <3>3. q # NoProxy => /\ q \in DOMAIN s.voters /\ q \in Accounts /\ new[q] < new[y]
                           /\ new[q] \in Nat /\ new[y] \in Nat
        BY <1>2, <1>3, <3>1, <3>2 DEF Ranked, SameBallot, IsVotes
      <3>4. y # v /\ q # y /\ (q # v \/ v \notin DOMAIN r.voters)
        <4>1. v \in Accounts => new[v] \in Nat /\ new[y] < new[v]
          BY <1>2, <2>3, <2>6
        <4>2. new[y] \in Nat
          BY <3>1
        <4>3. y # v
          BY <3>1, <4>1, <4>2
        <4>4. q # y
          BY <1>3, <3>1, <3>3
        <4>5. v \in DOMAIN r.voters => q # v
          BY <1>3, <3>1, <3>3, <4>1
        <4> QED BY <4>3, <4>4, <4>5
      <3>5. PICK u : u = PropagateOnce(r, y).votes
        OBVIOUS
      <3>6. Tallied(U, u, v, z, w, P, pw)
        BY <3>1, <3>2, <3>4, <3>5, PropagateOnceCounts DEF Tallied
      <3>7. r.voters[y].proxied_vote_weight \in Parts(U)
        BY <3>1, CoarseTallies DEF CoarseBy
      <3>8. /\ FullExcept(u, {v, PropagateOnce(r, y).next})
            /\ KeepsWeights(r, u)
            /\ v \in DOMAIN r.voters => SameRow(r.voters[v], u.voters[v])
        BY <2>3, <3>1, <3>2, <3>4, <3>5, <3>7, PropagateOnceFills
      <3>9. Reweighs(r, u)
        BY <3>1, <3>5, PropagateOnceReweighs
      <3>10. Passes(s, u, v)
        <4>1. Passes(r, u, v)
          BY <3>8, <3>9 DEF Passes
        <4> QED BY <2>3, <4>1, PassesMore
      <3>11. PropagateOnce(r, y).next = NoProxy \/ PropagateOnce(r, y).next = q
        BY <3>2, PropagateOnceSteps
      <3>12. calls[i].votes = u /\ calls[i].next = PropagateOnce(r, y).next
        BY <2>4, <2>6, <3>5
      <3>13. \/ calls[i].next = NoProxy
             \/ /\ calls[i].next \in DOMAIN s.voters /\ new[calls[i].next] + i < N
                /\ v \in Accounts => new[calls[i].next] < new[v]
        <4>1. CASE calls[i].next = NoProxy
          BY <4>1
        <4>2. CASE calls[i].next # NoProxy
          <5>1. calls[i].next = q /\ q # NoProxy
            BY <3>11, <3>12, <4>2
          <5>2. new[y] + (i - 1) < N /\ (v \in Accounts => new[y] < new[v] /\ new[v] \in Nat)
            BY <2>3, <2>6
          <5>3. new[q] + i < N /\ (v \in Accounts => new[q] < new[v])
            BY <1>1, <3>3, <5>1, <5>2
          <5> QED BY <3>3, <5>1, <5>3
        <4> QED BY <4>1, <4>2
      <3>14. FullExcept(calls[i].votes, {v, calls[i].next})
        BY <3>8, <3>12
      <3> USE DEF Good
      <3> QED BY <2>0, <3>6, <3>10, <3>12, <3>13, <3>14
    <2> QED BY <2>5, <2>6
  <1> HIDE DEF Good
  <1>6. N \in Good
    BY <1>1, <1>4, <1>5, NumbersInduction
  <1>7. \A y \in DOMAIN s.voters : ~(new[y] + N < N)
    BY <1>1, <1>3
  <1>8. /\ Tallied(U, t, v, z, w, P, pw) /\ Passes(s, t, v)
        /\ FullExcept(t, {v, NoProxy})
    BY <1>1, <1>6, <1>7 DEF Good
  <1>9. FullExcept(t, {v})
    BY <1>3, <1>8 DEF FullExcept, Passes, Reweighs
  <1> QED BY <1>8, <1>9

\* delta for the proxy x turns a vote of w through z to one of w2 through z2.
Redirects(s, x, delta, z, w, z2, w2) ==
    \A y \in DOMAIN s.voters :
        (IF y = z THEN w ELSE 0) + (IF y = x THEN delta ELSE 0) = IF y = z2 THEN w2 ELSE 0

\* The same where first the vote of v is taken from x or given to it.
LEMMA AddAndPropagateCounts ==
    ASSUME NEW U, CoarseBy(U), week \in Weeks, NEW s, NEW v \in DOMAIN s.voters,
           NEW z, NEW w \in Parts(U), NEW P, NEW pw \in Parts(U), Tallied(U, s, v, z, w, P, pw),
           NEW rank \in [Accounts -> Nat], Ranked(s, rank), FullExcept(s, {v}),
           NEW x \in DOMAIN s.voters, rank[x] < rank[v],
           NEW z2, NEW w2 \in Parts(U), NEW delta \in Int,
           Redirects(s, x, delta, z, w, z2, w2),
           NEW t, t = Propagate(AddProxied(s, x, delta), x)
    PROVE  Tallied(U, t, v, z2, w2, P, pw) /\ FullExcept(t, {v}) /\ Passes(s, t, v)
  <1>0. /\ IsVotes(s) /\ CoarseLasts(U, s) /\ CountedBut(s, v, z, w, P, pw) /\ U \in Nat
        /\ w \in Int /\ w2 \in Int
    BY PartsNat DEF Tallied, CoarseBy
  <1>1. PICK u : u = AddProxied(s, x, delta)
    OBVIOUS
  <1>2. /\ Reweighs(s, u) /\ IsVotes(u) /\ u.producers = s.producers /\ u.total = s.total
        /\ u.voters = [s.voters EXCEPT ![x].proxied_vote_weight = @ + delta]
    <2>1. Reweighs(s, u) /\ u.producers = s.producers /\ u.total = s.total
          /\ u.voters = [s.voters EXCEPT ![x].proxied_vote_weight = @ + delta]
      BY <1>0, <1>1, AddProxiedReweighs
    <2> QED BY <2>1 DEF Reweighs
  <1>3. /\ DOMAIN u.voters = DOMAIN s.voters
        /\ \A y \in DOMAIN s.voters :
              /\ SameBallot(s.voters[y], u.voters[y])
              /\ u.voters[y].last_vote_weight = s.voters[y].last_vote_weight
              /\ u.voters[y].proxied_vote_weight
                     = s.voters[y].proxied_vote_weight + IF y = x THEN delta ELSE 0
    <2>1. \A y \in DOMAIN s.voters : s.voters[y] \in VoterRows
      BY <1>0 DEF IsVotes
    <2>2. \A y \in DOMAIN s.voters : s.voters[y].proxied_vote_weight \in Int
      BY <2>1 DEF VoterRows
    <2> QED BY <1>2, <2>1, <2>2 DEF SameBallot, VoterRows
  <1>4. v # x
    <2>1. rank[x] \in Nat
      BY <1>0 DEF IsVotes
    <2> QED BY <2>1
  <1>5. \A a : ProxyShare(u, v, a) = ProxyShare(s, v, a) /\ VoteShare(u, v, a) = VoteShare(s, v, a)
    BY <1>3, SameShares
  <1>6. Tallied(U, u, v, z2, w2, P, pw)
    <2>1. CoarseLasts(U, u)
      BY <1>0, <1>3 DEF CoarseLasts
    <2>2. ASSUME NEW y \in DOMAIN u.voters
          PROVE  u.voters[y].proxied_vote_weight
                     = SumFunction(ProxyShare(u, v, y)) + IF y = z2 THEN w2 ELSE 0
      <3>1. PICK n \in Nat : n = SumFunction(ProxyShare(s, v, y))
        BY <1>0, ShareSums, PartsNat
      <3>2. s.voters[y].proxied_vote_weight = n + IF y = z THEN w ELSE 0
        BY <1>0, <1>3, <3>1 DEF CountedBut
      <3>3. u.voters[y].proxied_vote_weight
                = (n + IF y = z THEN w ELSE 0) + IF y = x THEN delta ELSE 0
        BY <1>3, <3>2
      <3>4. (IF y = z THEN w ELSE 0) + (IF y = x THEN delta ELSE 0) = IF y = z2 THEN w2 ELSE 0
        BY <1>3 DEF Redirects
      <3> QED BY <1>0, <1>5, <3>1, <3>3, <3>4
    <2>3. TotalVotes(u) = TotalVotes(s)
      BY <1>2 DEF TotalVotes
    <2>4. CountedBut(u, v, z2, w2, P, pw)
      BY <1>0, <1>2, <1>5, <2>2, <2>3 DEF CountedBut
    <2> QED BY <1>2, <2>1, <2>4 DEF Tallied
  <1>7. ASSUME NEW y \in DOMAIN s.voters, y # x PROVE SameRow(s.voters[y], u.voters[y])
    <2>1. u.voters[y] = s.voters[y]
      BY <1>2, <1>7
    <2> QED BY <2>1 DEF SameRow, SameBallot
  <1>8. FullExcept(u, {v, x})
    BY <1>3, <1>7 DEF FullExcept, IsFull, SameRow, SameBallot
  <1>9. KeepsWeights(s, u)
    BY <1>3 DEF KeepsWeights, Weighs, SameBallot
  <1>10. Passes(s, u, v)
    BY <1>2, <1>4, <1>7, <1>9 DEF Passes
  <1>11. Ranked(u, rank)
    BY <1>3 DEF Ranked, SameBallot
  <1>12. x \in DOMAIN u.voters /\ t = Propagate(u, x)
    BY <1>1, <1>3
  <1>13. Tallied(U, t, v, z2, w2, P, pw) /\ FullExcept(t, {v}) /\ Passes(u, t, v)
    BY <1>6, <1>8, <1>11, <1>12, PropagateCounts
  <1> QED BY <1>10, <1>13, PassesMore

\* The old vote of v is taken back from its proxy.
LEMMA LeaveProxyCounts ==
    ASSUME NEW U, CoarseBy(U), week \in Weeks, NEW s, NEW v \in DOMAIN s.voters,
           NEW P, NEW pw \in Parts(U),
           Tallied(U, s, v, s.voters[v].proxy, s.voters[v].last_vote_weight, P, pw),
           NEW rank \in [Accounts -> Nat], Ranked(s, rank), FullExcept(s, {v}),
           NEW t, t = LeaveProxy(s, v)
    PROVE  Tallied(U, t, v, NoProxy, 0, P, pw) /\ FullExcept(t, {v}) /\ Passes(s, t, v)
  <1> DEFINE z == s.voters[v].proxy
             w == s.voters[v].last_vote_weight
  <1>1. /\ IsVotes(s) /\ CoarseLasts(U, s) /\ CountedBut(s, v, z, w, P, pw) /\ U \in Nat
        /\ w \in Parts(U) /\ 0 \in Parts(U)
    BY PartsZero DEF Tallied, CoarseBy, CoarseLasts
  <1>2. w \in Nat /\ -w \in Int
    BY <1>1, PartsNat
  <1>3. \A y \in DOMAIN s.voters : y # NoProxy
    BY <1>1, VotingConstants DEF IsVotes
  <1>4. CASE w > 0 /\ z # NoProxy
    <2>1. z \in DOMAIN s.voters /\ rank[z] < rank[v]
      BY <1>1, <1>4 DEF IsVotes, Ranked
    <2>2. t = Propagate(AddProxied(s, z, -w), z)
      BY <1>4 DEF LeaveProxy
    <2> HIDE DEF z, w
    <2>3. Redirects(s, z, -w, z, w, NoProxy, 0)
      BY <1>2 DEF Redirects
    <2>4. Tallied(U, s, v, z, w, P, pw)
      BY <1>1 DEF Tallied
    <2> QED BY <1>1, <1>2, <2>1, <2>2, <2>3, <2>4, AddAndPropagateCounts
  <1>5. CASE ~(w > 0 /\ z # NoProxy)
    <2>1. t = s
      BY <1>5 DEF LeaveProxy
    <2>2. \A y \in DOMAIN s.voters : (IF y = z THEN w ELSE 0) = IF y = NoProxy THEN 0 ELSE 0
      BY <1>2, <1>3, <1>5
    <2> HIDE DEF z, w
    <2>3. CountedBut(s, v, NoProxy, 0, P, pw)
      BY <1>1, <2>2 DEF CountedBut
    <2> QED BY <1>1, <2>1, <2>3, PassesSame DEF Tallied
  <1> QED BY <1>4, <1>5

\* Its new vote is given to the proxy.
LEMMA JoinProxyCounts ==
    ASSUME NEW U, CoarseBy(U), week \in Weeks, NEW s, NEW v \in DOMAIN s.voters,
           NEW P, NEW pw \in Parts(U), Tallied(U, s, v, NoProxy, 0, P, pw),
           NEW rank \in [Accounts -> Nat], Ranked(s, rank), FullExcept(s, {v}),
           NEW proxy, proxy # NoProxy => proxy \in DOMAIN s.voters /\ rank[proxy] < rank[v],
           NEW weight \in Parts(U), NEW t, t = JoinProxy(s, proxy, weight)
    PROVE  Tallied(U, t, v, proxy, weight, P, pw) /\ FullExcept(t, {v}) /\ Passes(s, t, v)
  <1>1. /\ IsVotes(s) /\ CoarseLasts(U, s) /\ CountedBut(s, v, NoProxy, 0, P, pw) /\ U \in Nat
        /\ 0 \in Parts(U)
    BY PartsZero DEF Tallied, CoarseBy
  <1>2. weight \in Int
    BY <1>1, PartsNat
  <1>3. \A y \in DOMAIN s.voters : y # NoProxy
    BY <1>1, VotingConstants DEF IsVotes
  <1>4. CASE proxy # NoProxy
    <2>1. proxy \in DOMAIN s.voters /\ rank[proxy] < rank[v]
      BY <1>4
    <2>2. t = Propagate(AddProxied(s, proxy, weight), proxy)
      BY <1>4 DEF JoinProxy
    <2>3. Redirects(s, proxy, weight, NoProxy, 0, proxy, weight)
      BY <1>2 DEF Redirects
    <2> QED BY <1>1, <1>2, <2>1, <2>2, <2>3, AddAndPropagateCounts
  <1>5. CASE proxy = NoProxy
    <2>1. t = s
      BY <1>5 DEF JoinProxy
    <2>2. \A y \in DOMAIN s.voters :
              (IF y = NoProxy THEN 0 ELSE 0) = IF y = proxy THEN weight ELSE 0
      BY <1>3, <1>5
    <2>3. CountedBut(s, v, proxy, weight, P, pw)
      BY <1>1, <2>2 DEF CountedBut
    <2> QED BY <1>1, <2>1, <2>3, PassesSame DEF Tallied
  <1> QED BY <1>4, <1>5

-----------------------------------------------------------------------------
\* The tallies, where no vote is on its way.
Weighed(U, s) == Tallied(U, s, NoProxy, NoProxy, 0, {}, 0)

\* Tallied, FullExcept and Passes say nothing of how often votes were counted.
LEMMA SameTallied ==
    ASSUME NEW s, NEW t, IsVotes(t), t.voters = s.voters, t.producers = s.producers, t.total = s.total,
           NEW U, NEW v, NEW z, NEW w, NEW P, NEW pw, Tallied(U, s, v, z, w, P, pw)
    PROVE  Tallied(U, t, v, z, w, P, pw)
  <1>1. \A x : ProxyShare(t, v, x) = ProxyShare(s, v, x) /\ VoteShare(t, v, x) = VoteShare(s, v, x)
    BY DEF ProxyShare, VoteShare
  <1>2. TotalVotes(t) = TotalVotes(s)
    BY DEF TotalVotes
  <1>3. CoarseLasts(U, t)
    BY DEF Tallied, CoarseLasts
  <1>4. CountedBut(t, v, z, w, P, pw)
    BY <1>1, <1>2 DEF Tallied, CountedBut
  <1> QED BY <1>3, <1>4 DEF Tallied

LEMMA RankedPasses ==
    ASSUME NEW s, NEW t, NEW v, Passes(s, t, v), NEW rank, Ranked(s, rank)
    PROVE  Ranked(t, rank)
  BY DEF Passes, Reweighs, SameBallot, Ranked

\* update_votes, up to where the votes for producers are counted.
LEMMA JoinedCounts ==
    ASSUME NEW U, CoarseBy(U), week \in Weeks, NEW s, Weighed(U, s), NEW v,
           FullExcept(s, {v}), NEW proxy, NEW prods, MayBeVote(s, v, proxy, prods),
           NEW rank \in [Accounts -> Nat], Ranked(s, rank),
           proxy # NoProxy => rank[proxy] < rank[v],
           NEW row, row = s.voters[v], NEW weight, weight = VoteWeight(row),
           NEW t, t = Joined(s, v, proxy)
    PROVE  /\ weight \in Parts(U) /\ row \in VoterRows /\ row.last_vote_weight \in Parts(U)
           /\ row.proxied_vote_weight \in Nat
           /\ Tallied(U, t, v, proxy, weight, row.producers, row.last_vote_weight)
           /\ FullExcept(t, {v}) /\ Passes(Activate(s, v), t, v)
  <1>1. /\ IsVotes(s) /\ CoarseLasts(U, s) /\ CountedBut(s, NoProxy, NoProxy, 0, {}, 0)
        /\ U \in Nat /\ 0 \in Parts(U) /\ v \in DOMAIN s.voters
        /\ proxy # NoProxy => proxy \in DOMAIN s.voters
    BY PartsZero DEF Weighed, Tallied, CoarseBy, MayBeVote
  <1>2. row \in VoterRows /\ row.last_vote_weight \in Parts(U)
    BY <1>1 DEF IsVotes, CoarseLasts
  <1>3. row.proxied_vote_weight \in Parts(U)
    BY <1>1, CoarseTallies
  <1>4. weight \in Parts(U) /\ row.proxied_vote_weight \in Nat
    BY <1>1, <1>2, <1>3, CoarseWeight, PartsNat
  <1>5. CountedBut(s, v, row.proxy, row.last_vote_weight, row.producers, row.last_vote_weight)
    BY <1>1, CountedWith DEF Counted
  <1>6. PICK a : a = Activate(s, v)
    OBVIOUS
  <1>7. IsVotes(a) /\ a.voters = s.voters /\ a.producers = s.producers /\ a.total = s.total
    BY <1>1, <1>6, ActivateType
  <1>8. Tallied(U, a, v, row.proxy, row.last_vote_weight, row.producers, row.last_vote_weight)
    <2>1. Tallied(U, s, v, row.proxy, row.last_vote_weight, row.producers, row.last_vote_weight)
      BY <1>1, <1>5 DEF Tallied
    <2> QED BY <1>7, <2>1, SameTallied
  <1>9. FullExcept(a, {v}) /\ Ranked(a, rank)
    BY <1>7 DEF FullExcept, Ranked
  <1>10. PICK l : l = LeaveProxy(a, v)
    OBVIOUS
  <1>11. /\ Tallied(U, l, v, NoProxy, 0, row.producers, row.last_vote_weight)
         /\ FullExcept(l, {v}) /\ Passes(a, l, v)
    BY <1>1, <1>2, <1>7, <1>8, <1>9, <1>10, LeaveProxyCounts
  <1>12. Ranked(l, rank) /\ DOMAIN l.voters = DOMAIN s.voters
    BY <1>7, <1>9, <1>11, RankedPasses DEF Passes, Reweighs
  <1>13. t = JoinProxy(l, proxy, weight)
    BY <1>6, <1>10 DEF Joined
  <1>14. /\ Tallied(U, t, v, proxy, weight, row.producers, row.last_vote_weight)
         /\ FullExcept(t, {v}) /\ Passes(l, t, v)
    BY <1>1, <1>2, <1>4, <1>11, <1>12, <1>13, JoinProxyCounts
  <1>15. Passes(a, t, v)
    BY <1>11, <1>14, PassesMore
  <1> QED BY <1>2, <1>4, <1>6, <1>14, <1>15

\* What the producers lose and win is the old vote and the new one.
LEMMA NewDeltaValues ==
    ASSUME NEW row, row \in VoterRows, row.proxy # NoProxy => row.producers = {}, row.last_vote_weight \in Nat,
           NEW weight \in Nat, NEW prods, NEW delta, delta = VoteDelta(row, prods, weight)
    PROVE  \A p : (IF p \in DOMAIN delta THEN delta[p] ELSE 0)
                      = (IF p \in prods THEN weight ELSE 0)
                        - (IF p \in row.producers THEN row.last_vote_weight ELSE 0)
  <1> DEFINE old == IF row.last_vote_weight > 0 /\ row.proxy = NoProxy THEN row.producers ELSE {}
  <1>1. delta = [p \in old \cup prods |-> (IF p \in prods THEN weight ELSE 0)
                                  - (IF p \in old THEN row.last_vote_weight ELSE 0)]
    BY DEF VoteDelta
  <1>2. \A p : (IF p \in old THEN row.last_vote_weight ELSE 0)
                   = IF p \in row.producers THEN row.last_vote_weight ELSE 0
    OBVIOUS
  <1> HIDE DEF old
  <1>3. \A p : (IF p \in DOMAIN delta THEN delta[p] ELSE 0)
                   = (IF p \in prods THEN weight ELSE 0) - (IF p \in old THEN row.last_vote_weight ELSE 0)
    BY <1>1
  <1> QED BY <1>2, <1>3

\* update_votes, up to where the row of v gets its new vote.
LEMMA VotedCounts ==
    ASSUME NEW U, CoarseBy(U), week \in Weeks, NEW s, IsVotes(s), NEW j, NEW v,
           NEW row, row = s.voters[v], row \in VoterRows, row.last_vote_weight \in Parts(U),
           NEW weight \in Parts(U), weight = VoteWeight(row), NEW proxy, NEW prods,
           MayBeVote(s, v, proxy, prods), j = Joined(s, v, proxy),
           Tallied(U, j, v, proxy, weight, row.producers, row.last_vote_weight),
           NEW t, t = Voted(s, v, proxy, prods)
    PROVE  /\ Tallied(U, t, v, proxy, weight, prods, weight)
           /\ Reweighs(j, t) /\ t.voters = j.voters
  <1>1. /\ IsVotes(j) /\ CoarseLasts(U, j)
        /\ CountedBut(j, v, proxy, weight, row.producers, row.last_vote_weight)
        /\ U \in Nat /\ v \in DOMAIN s.voters
    BY DEF Tallied, CoarseBy, MayBeVote
  <1>2. weight \in Nat /\ row.last_vote_weight \in Nat
    BY <1>1, PartsNat
  <1>3. PICK delta : delta = NewDelta(s, v, prods)
    OBVIOUS
  <1>4. DOMAIN delta \in SUBSET Candidates /\ \A p \in DOMAIN delta : delta[p] \in Int
    BY <1>3, NewDeltaType
  <1>5. \A p : (IF p \in DOMAIN delta THEN delta[p] ELSE 0)
                   = (IF p \in prods THEN weight ELSE 0)
                     - (IF p \in row.producers THEN row.last_vote_weight ELSE 0)
    <2>1. row.proxy # NoProxy => row.producers = {}
      BY <1>1 DEF IsVotes
    <2>2. delta = VoteDelta(row, prods, weight)
      BY <1>3 DEF NewDelta
    <2> QED BY <1>2, <2>1, <2>2, NewDeltaValues
  <1>6. t = AddVotes(j, DOMAIN delta, delta)
    BY <1>3 DEF Voted
  <1>7. Reweighs(j, t) /\ t.voters = j.voters /\ IsVotes(t)
    <2>1. VotesAdded(j, t, DOMAIN delta, delta)
      BY <1>1, <1>4, <1>6, AddVotesAdded
    <2> QED BY <2>1 DEF VotesAdded, Reweighs
  <1>8. ASSUME NEW p \in DOMAIN j.producers
        PROVE  \E n \in Nat :
                  /\ n = SumFunction(VoteShare(j, v, p))
                  /\ j.producers[p].total_votes = n + IF p \in row.producers THEN row.last_vote_weight ELSE 0
                  /\ j.producers[p].total_votes + (IF p \in DOMAIN delta THEN delta[p] ELSE 0)
                         = n + IF p \in prods THEN weight ELSE 0
    <2>1. PICK n \in Nat : n = SumFunction(VoteShare(j, v, p))
      BY <1>1, ShareSums, PartsNat
    <2>2. j.producers[p].total_votes = n + IF p \in row.producers THEN row.last_vote_weight ELSE 0
      BY <1>1, <2>1 DEF CountedBut
    <2>3. PICK a \in Nat : a = IF p \in row.producers THEN row.last_vote_weight ELSE 0
      BY <1>2
    <2>4. PICK b \in Nat : b = IF p \in prods THEN weight ELSE 0
      BY <1>2
    <2>5. (IF p \in DOMAIN delta THEN delta[p] ELSE 0) = b - a
      BY <1>5, <2>3, <2>4
    <2>6. n + a + (b - a) = n + b
      OBVIOUS
    <2> QED BY <2>1, <2>2, <2>3, <2>4, <2>5, <2>6
  <1>9. \A p \in DOMAIN delta \cap DOMAIN j.producers : j.producers[p].total_votes + delta[p] >= 0
    BY <1>2, <1>8
  <1>10. TalliesAdded(j, t, DOMAIN delta, delta)
    <2>1. j.total = TotalVotes(j)
      BY <1>1 DEF CountedBut
    <2> QED BY <1>1, <1>4, <1>6, <1>9, <2>1, AddVotesTallies
  <1>11. \A x : ProxyShare(t, v, x) = ProxyShare(j, v, x) /\ VoteShare(t, v, x) = VoteShare(j, v, x)
    BY <1>7 DEF ProxyShare, VoteShare
  <1>12. DOMAIN t.producers = DOMAIN j.producers
    BY <1>7 DEF Reweighs
  <1>13. \A p \in DOMAIN t.producers :
             t.producers[p].total_votes
                 = SumFunction(VoteShare(t, v, p)) + IF p \in prods THEN weight ELSE 0
    BY <1>8, <1>10, <1>11, <1>12 DEF TalliesAdded
  <1>14. CountedBut(t, v, proxy, weight, prods, weight)
    <2>1. t.total = TotalVotes(t)
      BY <1>10 DEF TalliesAdded
    <2> QED BY <1>1, <1>7, <1>11, <1>13, <2>1 DEF CountedBut
  <1>15. CoarseLasts(U, t)
    BY <1>1, <1>7 DEF CoarseLasts
  <1> QED BY <1>7, <1>14, <1>15 DEF Tallied

\* A voter with stake has a weight.
LEMMA StakeWeighs ==
    ASSUME week \in Weeks, NEW row \in VoterRows, row.proxied_vote_weight \in Nat, row.staked > 0
    PROVE  VoteWeight(row) > 0
  <1>1. Growth[week] \in Nat /\ Growth[week] > 1 /\ row.staked \in Nat
    BY VotingConstants DEF VoterRows
  <1>2. \A a, b \in Nat : a > 0 /\ b > 1 => a * b \in Nat /\ a * b > 0
    OBVIOUS
  <1>3. row.staked * Growth[week] \in Nat /\ row.staked * Growth[week] > 0
    BY <1>1, <1>2
  <1> QED BY <1>3 DEF VoteWeight, Stake2Vote

\* The vote of v with the weight it has in s, in the row of v in j.
LEMMA SetVoteCounts ==
    ASSUME NEW U, CoarseBy(U), week \in Weeks, NEW j, NEW v, NEW row, NEW weight \in Parts(U),
           NEW proxy, NEW prods, Tallied(U, j, v, proxy, weight, prods, weight),
           MayBeVote(j, v, proxy, prods), SameRow(row, j.voters[v]), weight = VoteWeight(row),
           FullExcept(j, {v}), NEW t, t = SetVote(j, v, weight, prods, proxy)
    PROVE  /\ Weighed(U, t) /\ FullExcept(t, {})
           /\ HasRow(j, t, v, Revoted(j.voters[v], weight, prods, proxy))
  <1> DEFINE new == Revoted(j.voters[v], weight, prods, proxy)
  <1>1. /\ IsVotes(j) /\ CoarseLasts(U, j) /\ CountedBut(j, v, proxy, weight, prods, weight)
        /\ U \in Nat /\ v \in DOMAIN j.voters /\ weight \in Nat
    BY PartsNat DEF Tallied, CoarseBy, MayBeVote
  <1>2. HasRow(j, t, v, new)
    BY <1>1, SetVoteType
  <1>3. j.voters[v] \in VoterRows
    BY <1>1 DEF IsVotes
  <1>4. /\ new.staked = row.staked /\ new.is_proxy = row.is_proxy
        /\ new.proxied_vote_weight = row.proxied_vote_weight
        /\ new.proxied_vote_weight = j.voters[v].proxied_vote_weight
        /\ new.last_vote_weight = weight /\ new.producers = prods /\ new.proxy = proxy
    BY <1>3 DEF Revoted, SameRow, SameBallot, VoterRows
  <1> HIDE DEF new
  <1>5. /\ IsVotes(t) /\ t.producers = j.producers /\ t.total = j.total
        /\ DOMAIN t.voters = DOMAIN j.voters /\ t.voters[v] = new
        /\ \A y \in DOMAIN j.voters \ {v} : t.voters[y] = j.voters[y]
    BY <1>1, <1>2 DEF HasRow
  <1>6. CoarseLasts(U, t)
    BY <1>1, <1>4, <1>5 DEF CoarseLasts
  <1>7. \A x : ProxyShare(t, v, x) = ProxyShare(j, v, x) /\ VoteShare(t, v, x) = VoteShare(j, v, x)
    <2>1. \A y \in DOMAIN j.voters \ {v} :
              /\ SameBallot(j.voters[y], t.voters[y])
              /\ t.voters[y].last_vote_weight = j.voters[y].last_vote_weight
      BY <1>5 DEF SameBallot
    <2> QED BY <1>5, <2>1, SameShares
  <1>8. \A y \in DOMAIN t.voters : t.voters[y].proxied_vote_weight = j.voters[y].proxied_vote_weight
    BY <1>4, <1>5
  <1>9. CountedBut(t, v, proxy, weight, prods, weight)
    <2>1. TotalVotes(t) = TotalVotes(j)
      BY <1>5 DEF TotalVotes
    <2> QED BY <1>1, <1>5, <1>7, <1>8, <2>1 DEF CountedBut
  <1>10. Counted(t)
    BY <1>1, <1>4, <1>5, <1>6, <1>9, CountedWith
  <1>11. Weighed(U, t)
    BY <1>5, <1>6, <1>10 DEF Weighed, Tallied, Counted
  <1>12. IsFull(t.voters[v])
    <2>1. week <= week
      BY VotingConstants
    <2>2. weight = new.staked * Growth[week] + IF new.is_proxy THEN new.proxied_vote_weight ELSE 0
      <3>1. weight = row.staked * Growth[week] + IF row.is_proxy THEN row.proxied_vote_weight ELSE 0
        BY DEF VoteWeight, Stake2Vote
      <3> QED BY <1>4, <3>1
    <2> QED BY <1>4, <1>5, <2>1, <2>2 DEF IsFull
  <1>13. FullExcept(t, {})
    BY <1>5, <1>12 DEF FullExcept
  <1> QED BY <1>2, <1>11, <1>13 DEF new

\* update_votes
LEMMA UpdateVotesCounts ==
    ASSUME NEW U, CoarseBy(U), week \in Weeks, NEW s, Weighed(U, s), NEW v,
           FullExcept(s, {v}), NEW proxy, NEW prods, MayBeVote(s, v, proxy, prods),
           NEW rank \in [Accounts -> Nat], Ranked(s, rank),
           proxy # NoProxy => rank[proxy] < rank[v],
           NEW t, t = UpdateVotes(s, v, proxy, prods)
    PROVE  /\ Weighed(U, t) /\ FullExcept(t, {}) /\ KeepsWeights(s, t)
           /\ s.voters[v].staked > 0 => Weighs(t.voters[v])
           /\ t.stake = Activate(s, v).stake /\ t.activated = Activate(s, v).activated
  <1>1. PICK row, weight, j, c :
            /\ row = s.voters[v] /\ weight = VoteWeight(row)
            /\ j = Joined(s, v, proxy) /\ c = Voted(s, v, proxy, prods)
    OBVIOUS
  <1>2. IsVotes(s) /\ v \in DOMAIN s.voters
    BY DEF Weighed, Tallied, MayBeVote
  <1>3. /\ weight \in Parts(U) /\ row \in VoterRows /\ row.last_vote_weight \in Parts(U)
        /\ row.proxied_vote_weight \in Nat
        /\ Tallied(U, j, v, proxy, weight, row.producers, row.last_vote_weight)
        /\ FullExcept(j, {v}) /\ Passes(Activate(s, v), j, v)
    BY <1>1, JoinedCounts
  <1>4. /\ Tallied(U, c, v, proxy, weight, prods, weight)
        /\ Reweighs(j, c) /\ c.voters = j.voters
    BY <1>1, <1>2, <1>3, VotedCounts
  <1>5. PICK a : a = Activate(s, v)
    OBVIOUS
  <1>6. a.voters = s.voters /\ a.producers = s.producers
    BY <1>2, <1>5, ActivateType
  <1>7. /\ Reweighs(a, j) /\ KeepsWeights(a, j) /\ SameRow(row, j.voters[v])
        /\ Reweighs(a, c)
    <2>1. Reweighs(a, j) /\ KeepsWeights(a, j) /\ SameRow(row, j.voters[v])
      BY <1>1, <1>2, <1>3, <1>5, <1>6 DEF Passes
    <2> QED BY <1>4, <2>1, ReweighsMore
  <1>8. /\ MayBeVote(c, v, proxy, prods) /\ SameRow(row, c.voters[v])
        /\ DOMAIN c.voters = DOMAIN s.voters
    BY <1>4, <1>6, <1>7 DEF MayBeVote, Reweighs
  <1>9. FullExcept(c, {v})
    BY <1>3, <1>4 DEF FullExcept
  <1>10. t = SetVote(c, v, weight, prods, proxy)
    BY <1>1, UpdateVotesSteps
  <1>11. PICK new : new = Revoted(c.voters[v], weight, prods, proxy)
    OBVIOUS
  <1>12. Weighed(U, t) /\ FullExcept(t, {}) /\ HasRow(c, t, v, new)
    BY <1>1, <1>3, <1>4, <1>8, <1>9, <1>10, <1>11, SetVoteCounts
  <1>13. /\ new.staked = row.staked /\ new.last_vote_weight = weight
         /\ t.voters[v] = new
         /\ \A y \in DOMAIN s.voters \ {v} : t.voters[y] = c.voters[y]
    <2>1. c.voters[v] \in VoterRows
      BY <1>2, <1>4, <1>8 DEF Tallied, IsVotes
    <2>2. new.staked = row.staked /\ new.last_vote_weight = weight
      BY <1>8, <1>11, <2>1 DEF Revoted, VoterRows, SameRow, SameBallot
    <2> QED BY <1>8, <1>12, <2>2 DEF HasRow
  <1>14. row.staked > 0 => Weighs(t.voters[v])
    BY <1>1, <1>3, <1>13, StakeWeighs DEF Weighs
  <1>15. KeepsWeights(s, t)
    BY <1>1, <1>4, <1>6, <1>7, <1>13, <1>14 DEF KeepsWeights, Weighs
  <1>16. t.stake = a.stake /\ t.activated = a.activated
    BY <1>7, <1>12 DEF HasRow, Reweighs
  <1> QED BY <1>1, <1>5, <1>12, <1>14, <1>15, <1>16

-----------------------------------------------------------------------------
\* A row that votes as the old one did.
SameVote(old, row) ==
    /\ row.proxy = old.proxy /\ row.producers = old.producers
    /\ row.last_vote_weight = old.last_vote_weight
    /\ row.proxied_vote_weight = old.proxied_vote_weight

\* An account gets a row that votes as the old one did, or none at all.
LEMMA SameVoteCounts ==
    ASSUME NEW U, CoarseBy(U), NEW s, Weighed(U, s), FullExcept(s, {}), NEW v, NEW t, NEW row,
           HasRow(s, t, v, row), SameVote(OldRow(s, v), row)
    PROVE  Weighed(U, t) /\ FullExcept(t, {v})
  <1> DEFINE old == OldRow(s, v)
  <1>1. /\ IsVotes(s) /\ CoarseLasts(U, s) /\ CountedBut(s, NoProxy, NoProxy, 0, {}, 0)
        /\ U \in Nat /\ 0 \in Parts(U)
    BY PartsZero DEF Weighed, Tallied, CoarseBy
  <1>2. /\ IsVotes(t) /\ t.producers = s.producers /\ t.total = s.total
        /\ DOMAIN t.voters = DOMAIN s.voters \cup {v} /\ t.voters[v] = row /\ row \in VoterRows
        /\ \A y \in DOMAIN s.voters \ {v} : t.voters[y] = s.voters[y]
    BY DEF HasRow
  <1>3. /\ v \in DOMAIN s.voters => old = s.voters[v]
        /\ v \notin DOMAIN s.voters => /\ old.proxy = NoProxy /\ old.producers = {}
                                       /\ old.last_vote_weight = 0 /\ old.proxied_vote_weight = 0
    BY <1>1, OldRowType DEF OldRow
  <1> HIDE DEF old
  <1>4. v # NoProxy
    BY <1>2, VotingConstants DEF IsVotes
  <1>5. CoarseLasts(U, t)
    BY <1>1, <1>2, <1>3 DEF CoarseLasts, SameVote, old
  <1>6. ASSUME NEW a
        PROVE  /\ SumFunction(ProxyShare(t, NoProxy, a)) = SumFunction(ProxyShare(s, NoProxy, a))
               /\ SumFunction(VoteShare(t, NoProxy, a)) = SumFunction(VoteShare(s, NoProxy, a))
    <2>1. PICK f, g : f = ProxyShare(s, NoProxy, a) /\ g = ProxyShare(t, NoProxy, a)
      OBVIOUS
    <2>2. /\ IsFiniteSet(DOMAIN f) /\ DOMAIN f = DOMAIN s.voters /\ DOMAIN g = DOMAIN t.voters
          /\ (\A y \in DOMAIN f : f[y] \in Int) /\ (\A y \in DOMAIN g : g[y] \in Int)
      <3>1. /\ IsFiniteSet(DOMAIN f) /\ DOMAIN f = DOMAIN s.voters
            /\ \A y \in DOMAIN f : f[y] \in Nat
        BY <1>1, <2>1, ShareSums
      <3>2. DOMAIN g = DOMAIN t.voters /\ \A y \in DOMAIN g : g[y] \in Nat
        BY <1>1, <1>2, <1>5, <2>1, ShareSums
      <3> QED BY <3>1, <3>2
    <2>3. DOMAIN f \ {v} = DOMAIN g \ {v} /\ \A y \in DOMAIN f \ {v} : f[y] = g[y]
      BY <1>2, <2>1, <2>2 DEF ProxyShare
    <2>4. At(f, v) = At(g, v)
      <3>1. g[v] = IF old.proxy = a THEN old.last_vote_weight ELSE 0
        BY <1>2, <1>4, <2>1, <2>2 DEF ProxyShare, SameVote, old
      <3>2. CASE v \in DOMAIN s.voters
        <4>1. f[v] = IF old.proxy = a THEN old.last_vote_weight ELSE 0
          BY <1>3, <1>4, <2>1, <3>2 DEF ProxyShare
        <4> QED BY <1>2, <2>2, <3>1, <3>2, <4>1 DEF At
      <3>3. CASE v \notin DOMAIN s.voters
        <4>1. g[v] = 0
          BY <1>3, <3>1, <3>3
        <4> QED BY <1>2, <2>2, <3>3, <4>1 DEF At
      <3> QED BY <3>2, <3>3
    <2>5. Moves(SumFunction(f), SumFunction(g), At(f, v), At(g, v))
      BY <2>2, <2>3, SumChanges
    <2>6. SumFunction(g) = SumFunction(f)
      BY <2>4, <2>5 DEF Moves
    <2>11. PICK e, h : e = VoteShare(s, NoProxy, a) /\ h = VoteShare(t, NoProxy, a)
      OBVIOUS
    <2>12. /\ IsFiniteSet(DOMAIN e) /\ DOMAIN e = DOMAIN s.voters /\ DOMAIN h = DOMAIN t.voters
           /\ (\A y \in DOMAIN e : e[y] \in Int) /\ (\A y \in DOMAIN h : h[y] \in Int)
      <3>1. /\ IsFiniteSet(DOMAIN e) /\ DOMAIN e = DOMAIN s.voters
            /\ \A y \in DOMAIN e : e[y] \in Nat
        BY <1>1, <2>11, ShareSums
      <3>2. DOMAIN h = DOMAIN t.voters /\ \A y \in DOMAIN h : h[y] \in Nat
        BY <1>1, <1>2, <1>5, <2>11, ShareSums
      <3> QED BY <3>1, <3>2
    <2>13. DOMAIN e \ {v} = DOMAIN h \ {v} /\ \A y \in DOMAIN e \ {v} : e[y] = h[y]
      BY <1>2, <2>11, <2>12 DEF VoteShare
    <2>14. At(e, v) = At(h, v)
      <3>1. h[v] = IF a \in old.producers THEN old.last_vote_weight ELSE 0
        BY <1>2, <1>4, <2>11, <2>12 DEF VoteShare, SameVote, old
      <3>2. CASE v \in DOMAIN s.voters
        <4>1. e[v] = IF a \in old.producers THEN old.last_vote_weight ELSE 0
          BY <1>3, <1>4, <2>11, <3>2 DEF VoteShare
        <4> QED BY <1>2, <2>12, <3>1, <3>2, <4>1 DEF At
      <3>3. CASE v \notin DOMAIN s.voters
        <4>1. h[v] = 0
          BY <1>3, <3>1, <3>3
        <4> QED BY <1>2, <2>12, <3>3, <4>1 DEF At
      <3> QED BY <3>2, <3>3
    <2>15. Moves(SumFunction(e), SumFunction(h), At(e, v), At(h, v))
      BY <2>12, <2>13, SumChanges
    <2>16. SumFunction(h) = SumFunction(e)
      BY <2>14, <2>15 DEF Moves
    <2> QED BY <2>1, <2>6, <2>11, <2>16
  <1>7. ASSUME v \notin DOMAIN s.voters PROVE SumFunction(ProxyShare(s, NoProxy, v)) = 0
    <2>1. PICK f : f = ProxyShare(s, NoProxy, v)
      OBVIOUS
    <2>2. IsFiniteSet(DOMAIN f) /\ DOMAIN f = DOMAIN s.voters
      BY <1>1, <2>1, ShareSums
    <2>3. \A y \in DOMAIN f : f[y] = 0
      BY <1>1, <1>4, <1>7, <2>1, <2>2 DEF ProxyShare, IsVotes
    <2> QED BY <2>1, <2>2, <2>3, SumZero DEF SumFunction
  <1>8. \A x \in DOMAIN t.voters :
            t.voters[x].proxied_vote_weight = SumFunction(ProxyShare(t, NoProxy, x)) + 0
    <2>1. \A x \in DOMAIN s.voters : s.voters[x].proxied_vote_weight = SumFunction(ProxyShare(s, NoProxy, x)) + 0
      BY <1>1 DEF CountedBut
    <2>2. row.proxied_vote_weight = SumFunction(ProxyShare(s, NoProxy, v)) + 0
      BY <1>3, <1>7, <2>1 DEF SameVote, old
    <2> QED BY <1>2, <1>6, <2>1, <2>2
  <1>9. CountedBut(t, NoProxy, NoProxy, 0, {}, 0)
    <2>1. TotalVotes(t) = TotalVotes(s)
      BY <1>2 DEF TotalVotes
    <2> QED BY <1>1, <1>2, <1>6, <1>8, <2>1 DEF CountedBut
  <1>10. FullExcept(t, {v})
    BY <1>2 DEF FullExcept
  <1> QED BY <1>2, <1>5, <1>9, <1>10 DEF Weighed, Tallied

\* The stake of the voters whose vote weighs.
WeighingStake(s) ==
    [y \in DOMAIN s.voters |-> IF s.voters[y].last_vote_weight > 0 THEN s.voters[y].staked ELSE 0]

LEMMA WeighingStakeType ==
    ASSUME NEW s, IsVotes(s)
    PROVE  /\ IsFiniteSet(DOMAIN s.voters) /\ DOMAIN WeighingStake(s) = DOMAIN s.voters
           /\ \A y \in DOMAIN s.voters : /\ s.voters[y].staked \in Nat
                                         /\ s.voters[y].last_vote_weight \in Int
                                         /\ WeighingStake(s)[y] \in Nat
                                         /\ WeighingStake(s)[y] <= s.voters[y].staked
           /\ SumFunction(WeighingStake(s)) \in Nat
  <1>1. IsFiniteSet(DOMAIN s.voters)
    BY VotingConstants, FS_Subset DEF IsVotes
  <1>2. \A y \in DOMAIN s.voters : s.voters[y].staked \in Nat /\ s.voters[y].last_vote_weight \in Int
    BY DEF IsVotes, VoterRows
  <1>3. /\ DOMAIN WeighingStake(s) = DOMAIN s.voters
        /\ \A y \in DOMAIN s.voters : /\ WeighingStake(s)[y] \in Nat
                                      /\ WeighingStake(s)[y] <= s.voters[y].staked
    BY <1>2 DEF WeighingStake
  <1> QED BY <1>1, <1>2, <1>3, SumNat DEF SumFunction

\* Where the stake of all but v weighs as before or more, and that of v by n.
LEMMA WeighsMore ==
    ASSUME NEW s, NEW t, NEW v, IsVotes(s), IsVotes(t), DOMAIN t.voters = DOMAIN s.voters \cup {v},
           \A y \in DOMAIN s.voters \ {v} : WeighingStake(s)[y] <= WeighingStake(t)[y],
           NEW n \in Nat, n <= WeighingStake(t)[v]
    PROVE  SumFunction(WeighingStake(s)) + n - At(WeighingStake(s), v) <= SumFunction(WeighingStake(t))
  <1>1. PICK f, g : f = WeighingStake(s) /\ g = WeighingStake(t)
    OBVIOUS
  <1>2. /\ IsFiniteSet(DOMAIN f) /\ IsFiniteSet(DOMAIN g)
        /\ DOMAIN f = DOMAIN s.voters /\ DOMAIN g = DOMAIN s.voters \cup {v}
        /\ \A y \in DOMAIN f : f[y] \in Nat
        /\ \A y \in DOMAIN g : g[y] \in Nat
    <2>1. IsFiniteSet(DOMAIN f) /\ DOMAIN f = DOMAIN s.voters /\ \A y \in DOMAIN f : f[y] \in Nat
      BY <1>1, WeighingStakeType
    <2>2. IsFiniteSet(DOMAIN g) /\ DOMAIN g = DOMAIN t.voters /\ \A y \in DOMAIN g : g[y] \in Nat
      BY <1>1, WeighingStakeType
    <2> QED BY <2>1, <2>2
  <1> DEFINE h == [y \in DOMAIN g |-> IF y = v THEN n ELSE f[y]]
  <1>3. DOMAIN h = DOMAIN g /\ h[v] = n /\ \A y \in DOMAIN g \ {v} : h[y] = f[y]
    BY <1>2
  <1> HIDE DEF h
  <1>4. /\ \A y \in DOMAIN h : h[y] \in Nat
        /\ DOMAIN f \ {v} = DOMAIN h \ {v} /\ \A y \in DOMAIN f \ {v} : f[y] = h[y]
    BY <1>2, <1>3
  <1>5. Moves(SumFunction(f), SumFunction(h), At(f, v), At(h, v))
    BY <1>2, <1>4, SumChanges
  <1>6. At(h, v) = n
    BY <1>2, <1>3 DEF At
  <1>7. \A y \in DOMAIN g : h[y] <= g[y]
    BY <1>1, <1>2, <1>3
  <1>8. SumFunctionOnSet(h, DOMAIN g) * 1 <= SumFunctionOnSet(g, DOMAIN g) * 1
    <2>1. \A y \in DOMAIN g : h[y] \in Nat /\ g[y] \in Nat /\ h[y] * 1 <= g[y] * 1
      BY <1>2, <1>3, <1>4, <1>7
    <2> QED BY <1>2, <2>1, SumParts
  <1>9. SumFunction(h) \in Nat /\ SumFunction(g) \in Nat /\ SumFunction(h) <= SumFunction(g)
    <2>1. SumFunctionOnSet(h, DOMAIN g) \in Nat /\ SumFunctionOnSet(g, DOMAIN g) \in Nat
      BY <1>2, <1>3, <1>4, SumNat
    <2> QED BY <1>3, <1>8, <2>1 DEF SumFunction
  <1> QED BY <1>1, <1>5, <1>6, <1>9 DEF Moves

\* Before the activation, no stake counts for it that no weight goes with.
StakeWeighsOnce(s) == s.stake <= SumFunction(WeighingStake(s))

\* update_votes: the stake of v counts as its vote gets a weight.
LEMMA UpdateVotesActivates ==
    ASSUME week \in Weeks, NEW s, IsVotes(s), NEW v, NEW proxy, NEW prods,
           MayBeVote(s, v, proxy, prods),
           NEW t, Revotes(s, t, v, proxy, prods), KeepsWeights(s, t),
           s.voters[v].staked > 0 => Weighs(t.voters[v]), t.stake = Activate(s, v).stake,
           ~s.activated => StakeWeighsOnce(s)
    PROVE  ~s.activated => StakeWeighsOnce(t)
  <1> SUFFICES ASSUME ~s.activated PROVE StakeWeighsOnce(t)
    OBVIOUS
  <1>1. /\ v \in DOMAIN s.voters /\ IsVotes(t) /\ DOMAIN t.voters = DOMAIN s.voters \cup {v}
        /\ \A y \in DOMAIN s.voters : t.voters[y].staked = s.voters[y].staked
    BY DEF MayBeVote, Revotes, SameBallot
  <1>2. PICK n \in Nat : n = s.voters[v].staked
    BY <1>1, WeighingStakeType
  <1>3. /\ \A y \in DOMAIN s.voters : /\ s.voters[y].staked \in Nat
                                      /\ s.voters[y].last_vote_weight \in Int
        /\ \A y \in DOMAIN t.voters : t.voters[y].last_vote_weight \in Int
    BY <1>1, WeighingStakeType
  <1>4. \A y \in DOMAIN s.voters \ {v} : WeighingStake(s)[y] <= WeighingStake(t)[y]
    BY <1>1, <1>3 DEF WeighingStake, KeepsWeights, Weighs
  <1>5. n <= WeighingStake(t)[v]
    BY <1>1, <1>2, <1>3 DEF WeighingStake, Weighs
  <1>6. SumFunction(WeighingStake(s)) + n - At(WeighingStake(s), v) <= SumFunction(WeighingStake(t))
    BY <1>1, <1>4, <1>5, WeighsMore
  <1>7. At(WeighingStake(s), v) = IF s.voters[v].last_vote_weight > 0 THEN n ELSE 0
    BY <1>1, <1>2 DEF At, WeighingStake
  <1>8. s.stake \in Int /\ t.stake = s.stake + IF s.voters[v].last_vote_weight <= 0 THEN n ELSE 0
    BY <1>1, <1>2, ActivateType DEF IsVotes
  <1>9. SumFunction(WeighingStake(s)) \in Int /\ SumFunction(WeighingStake(t)) \in Int
    BY <1>1, WeighingStakeType
  <1>10. s.voters[v].last_vote_weight \in Int
    BY <1>1, <1>3
  <1> QED BY <1>6, <1>7, <1>8, <1>9, <1>10 DEF StakeWeighsOnce

-----------------------------------------------------------------------------
\* What holds of the votes between two actions where weights are coarse.
WeightsInv(U) ==
    /\ Weighed(U, Votes) /\ FullExcept(Votes, {})
    /\ ~activated => StakeWeighsOnce(Votes)

\* t keeps it, if it comes after s.
KeepsWeighed(U, s, t) ==
    /\ Weighed(U, t) /\ FullExcept(t, {})
    /\ s.activated => t.activated
    /\ ~s.activated => StakeWeighsOnce(t)

LEMMA BecomeKeeps ==
    ASSUME NEW U, NEW t, KeepsWeighed(U, Votes, t), Become(t), week' = week
    PROVE  WeightsInv(U)' /\ (~activated => StakeWeighsOnce(Votes'))
  <1>1. IsVotes(t)
    BY DEF KeepsWeighed, Weighed, Tallied
  <1>2. PICK n : n = Votes'
    OBVIOUS
  <1>3. /\ IsVotes(n) /\ n.voters = t.voters /\ n.producers = t.producers
        /\ n.total = t.total /\ n.stake = t.stake /\ n.activated = t.activated
    BY <1>1, <1>2, BecomeVotes
  <1>4. Weighed(U, n)
    BY <1>3, SameTallied DEF KeepsWeighed, Weighed
  <1>5. \A y \in DOMAIN n.voters :
            n.voters[y].producers # {} \/ n.voters[y].proxy # NoProxy => IsFull(n.voters[y])
    BY <1>3 DEF KeepsWeighed, FullExcept
  <1>6. (FullExcept(Votes, {}))'
    BY <1>2, <1>5 DEF FullExcept, IsFull
  <1>7. Votes.activated = activated /\ n.activated = activated'
    BY <1>2 DEF Votes
  <1>8. ~activated => StakeWeighsOnce(n)
    BY <1>3, <1>7 DEF KeepsWeighed, StakeWeighsOnce, WeighingStake
  <1>9. ~activated' => ~activated
    BY <1>3, <1>7 DEF KeepsWeighed
  <1>10. (Weighed(U, Votes))' /\ (~activated => StakeWeighsOnce(Votes'))
    BY <1>2, <1>4, <1>8 DEF Weighed, Tallied
  <1> QED BY <1>6, <1>9, <1>10 DEF WeightsInv

\* A rank that puts the proxy of the new vote below its voter.
LEMMA RankFor ==
    ASSUME NEW s, IsVotes(s), Chained(s), NEW v, NEW proxy, NEW prods, MayBeVote(s, v, proxy, prods),
           \/ proxy = NoProxy
           \/ proxy = s.voters[v].proxy
           \/ v # proxy /\ s.voters[proxy].proxy = NoProxy
    PROVE  \E rank \in [Accounts -> Nat] :
              Ranked(s, rank) /\ (proxy # NoProxy => rank[proxy] < rank[v])
  <1>1. PICK rank \in [Accounts -> Nat] : Ranked(s, rank)
    BY DEF Chained
  <1>2. v \in DOMAIN s.voters /\ v \in Accounts
    BY DEF MayBeVote, IsVotes
  <1>3. CASE proxy = NoProxy \/ proxy = s.voters[v].proxy
    BY <1>1, <1>2, <1>3 DEF Ranked
  <1>4. CASE proxy # NoProxy /\ v # proxy /\ s.voters[proxy].proxy = NoProxy
    <2> DEFINE new == [y \in Accounts |-> IF y = proxy THEN 0 ELSE rank[y] + 1]
    <2>1. new \in [Accounts -> Nat]
      OBVIOUS
    <2>2. ASSUME NEW y \in DOMAIN s.voters, s.voters[y].proxy # NoProxy
          PROVE  new[s.voters[y].proxy] < new[y]
      <3>1. y \in Accounts /\ s.voters[y].proxy \in Accounts
        BY <2>2 DEF IsVotes
      <3>2. rank[s.voters[y].proxy] < rank[y] /\ y # proxy
        BY <1>1, <1>4, <2>2 DEF Ranked
      <3> QED BY <3>1, <3>2
    <2>3. Ranked(s, new)
      BY <2>2 DEF Ranked
    <2>4. proxy \in Accounts
      BY <1>4 DEF MayBeVote, IsVotes
    <2>5. new[proxy] < new[v]
      BY <1>2, <1>4, <2>4
    <2> QED BY <2>1, <2>3, <2>5
  <1> QED BY <1>3, <1>4

\* An update of votes, in these terms.
LEMMA UpdateVotesKeeps ==
    ASSUME NEW U, CoarseBy(U), week \in Weeks, NEW s, Weighed(U, s), NEW v,
           FullExcept(s, {v}), Chained(s), ~s.activated => StakeWeighsOnce(s),
           NEW proxy, NEW prods, MayBeVote(s, v, proxy, prods),
           \/ proxy = NoProxy
           \/ proxy = s.voters[v].proxy
           \/ v # proxy /\ s.voters[proxy].proxy = NoProxy,
           NEW t, t = UpdateVotes(s, v, proxy, prods)
    PROVE  KeepsWeighed(U, s, t)
  <1>1. IsVotes(s) /\ v \in DOMAIN s.voters
    BY DEF Weighed, Tallied, MayBeVote
  <1>2. PICK rank \in [Accounts -> Nat] :
            Ranked(s, rank) /\ (proxy # NoProxy => rank[proxy] < rank[v])
    BY <1>1, RankFor
  <1>3. /\ Weighed(U, t) /\ FullExcept(t, {}) /\ KeepsWeights(s, t)
        /\ s.voters[v].staked > 0 => Weighs(t.voters[v])
        /\ t.stake = Activate(s, v).stake /\ t.activated = Activate(s, v).activated
    BY <1>2, UpdateVotesCounts
  <1>4. Revotes(s, t, v, proxy, prods)
    BY <1>1, UpdateVotesRevotes
  <1>5. ~s.activated => StakeWeighsOnce(t)
    BY <1>1, <1>3, <1>4, UpdateVotesActivates
  <1>6. s.activated => t.activated
    BY <1>1, <1>3, ActivateType
  <1> QED BY <1>3, <1>5, <1>6 DEF KeepsWeighed

LEMMA VoteProducerWeighs ==
    ASSUME VotesInv, NEW U, CoarseBy(U), WeightsInv(U),
           NEW v, NEW proxy, NEW prods, VoteProducer(v, proxy, prods)
    PROVE  WeightsInv(U)' /\ (~activated => StakeWeighsOnce(Votes'))
  <1>1. week' = week
    BY DEF VoteProducer
  <1>2. PICK t : t = UpdateVotes(Votes, v, proxy, prods)
    OBVIOUS
  <1>3. /\ Become(t) /\ MayBeVote(Votes, v, proxy, prods)
        /\ proxy # NoProxy => v # proxy /\ Votes.voters[proxy].is_proxy
    BY <1>2, VoteProducerSteps DEF VotesInv
  <1>4. proxy # NoProxy => v # proxy /\ Votes.voters[proxy].proxy = NoProxy
    BY <1>3 DEF VotesInv, Chained, MayBeVote
  <1>5. Votes.activated = activated /\ FullExcept(Votes, {v})
    BY DEF Votes, WeightsInv, FullExcept
  <1>6. KeepsWeighed(U, Votes, t)
    BY <1>2, <1>3, <1>4, <1>5, UpdateVotesKeeps DEF VotesInv, WeightsInv
  <1> QED BY <1>1, <1>3, <1>6, BecomeKeeps

\* More stake, or less after the activation.
LEMMA StakedWeighs ==
    ASSUME NEW s, IsVotes(s), NEW v, NEW change \in Int, change < 0 => s.activated,
           NEW t, NEW row, row = MoreStake(OldRow(s, v), change), HasRow(s, t, v, row),
           ~s.activated => StakeWeighsOnce(s)
    PROVE  SameVote(OldRow(s, v), row) /\ (~s.activated => StakeWeighsOnce(t))
  <1>1. PICK old : old = OldRow(s, v)
    OBVIOUS
  <1>2. /\ old \in VoterRows
        /\ v \notin DOMAIN s.voters => old.last_vote_weight = 0 /\ old.staked = 0
        /\ v \in DOMAIN s.voters => old = s.voters[v]
    BY <1>1, OldRowType DEF OldRow
  <1>3. row.staked = old.staked + change /\ old.staked \in Nat /\ SameVote(old, row)
    BY <1>1, <1>2 DEF MoreStake, VoterRows, SameVote
  <1>4. /\ IsVotes(t) /\ DOMAIN t.voters = DOMAIN s.voters \cup {v} /\ t.voters[v] = row
        /\ row \in VoterRows
        /\ \A y \in DOMAIN s.voters \ {v} : t.voters[y] = s.voters[y]
        /\ t.stake = s.stake
    BY DEF HasRow
  <1>5. ASSUME ~s.activated PROVE StakeWeighsOnce(t)
    <2>1. PICK n \in Nat : n = IF old.last_vote_weight > 0 THEN old.staked ELSE 0
      BY <1>3
    <2>2. At(WeighingStake(s), v) = n
      BY <1>2, <2>1 DEF At, WeighingStake
    <2>3. row.last_vote_weight = old.last_vote_weight
      BY <1>3 DEF SameVote
    <2>4. WeighingStake(t)[v] = IF old.last_vote_weight > 0 THEN row.staked ELSE 0
      BY <1>4, <2>3 DEF WeighingStake
    <2>5. n <= WeighingStake(t)[v]
      BY <1>3, <1>5, <2>1, <2>4
    <2>6. \A y \in DOMAIN s.voters \ {v} : WeighingStake(s)[y] <= WeighingStake(t)[y]
      <3>1. \A y \in DOMAIN s.voters \ {v} : WeighingStake(t)[y] = WeighingStake(s)[y]
        BY <1>4 DEF WeighingStake
      <3>2. \A y \in DOMAIN s.voters : WeighingStake(s)[y] \in Nat
        BY WeighingStakeType
      <3> QED BY <3>1, <3>2
    <2>7. SumFunction(WeighingStake(s)) + n - At(WeighingStake(s), v) <= SumFunction(WeighingStake(t))
      BY <1>4, <2>5, <2>6, WeighsMore
    <2>8. SumFunction(WeighingStake(s)) \in Int /\ SumFunction(WeighingStake(t)) \in Int /\ s.stake \in Int
      BY <1>4, WeighingStakeType DEF IsVotes
    <2> QED BY <1>4, <1>5, <2>2, <2>7, <2>8 DEF StakeWeighsOnce
  <1> QED BY <1>1, <1>3, <1>5

LEMMA ChangeStakeWeighs ==
    ASSUME VotesInv, NEW U, CoarseBy(U), WeightsInv(U),
           NEW v \in Accounts, NEW change \in StakeChanges, ChangeStake(v, change)
    PROVE  WeightsInv(U)' /\ (~activated => StakeWeighsOnce(Votes'))
  <1>1. week' = week /\ (change < 0 => activated) /\ change \in Int
    BY VotingConstants DEF ChangeStake
  <1>2. PICK t, row :
              /\ row = MoreStake(OldRow(Votes, v), change)
              /\ HasRow(Votes, t, v, row)
              /\ Become(VotingPower(Votes, v, change))
              /\ \/ /\ MayBeVote(t, v, row.proxy, row.producers)
                    /\ VotingPower(Votes, v, change) = UpdateVotes(t, v, row.proxy, row.producers)
                 \/ /\ ~(row.producers # {} \/ row.proxy # NoProxy)
                    /\ VotingPower(Votes, v, change) = t
    BY ChangeStakeSteps DEF VotesInv
  <1>3. IsVotes(Votes) /\ Votes.activated = activated /\ Chained(Votes)
    BY DEF Votes, VotesInv
  <1>4. SameVote(OldRow(Votes, v), row) /\ (~activated => StakeWeighsOnce(t))
    BY <1>1, <1>2, <1>3, StakedWeighs DEF WeightsInv
  <1>5. Weighed(U, t) /\ FullExcept(t, {v})
    BY <1>2, <1>4, SameVoteCounts DEF WeightsInv
  <1>6. IsVotes(t) /\ t.voters[v] = row /\ t.activated = activated
    BY <1>2, <1>3 DEF HasRow
  <1>7. Chained(t)
    <2>1. PICK old : old = OldRow(Votes, v) /\ old \in VoterRows
      BY <1>3, OldRowType
    <2>2. row.proxy = old.proxy /\ row.is_proxy = old.is_proxy
      BY <1>2, <2>1 DEF MoreStake, VoterRows
    <2>3. \/ v \in DOMAIN Votes.voters /\ old = Votes.voters[v]
          \/ old.proxy = NoProxy
      BY <1>3, <2>1, OldRowType DEF OldRow
    <2> QED BY <1>2, <1>3, <1>6, <2>2, <2>3, SameChains DEF HasRow
  <1>8. PICK u : u = VotingPower(Votes, v, change)
    OBVIOUS
  <1>9. KeepsWeighed(U, Votes, u)
    <2>1. CASE /\ MayBeVote(t, v, row.proxy, row.producers)
               /\ u = UpdateVotes(t, v, row.proxy, row.producers)
      <3>1. KeepsWeighed(U, t, u)
        BY <1>4, <1>5, <1>6, <1>7, <2>1, UpdateVotesKeeps DEF VotesInv
      <3> QED BY <1>3, <1>6, <3>1 DEF KeepsWeighed
    <2>2. CASE ~(row.producers # {} \/ row.proxy # NoProxy) /\ u = t
      <3>1. FullExcept(t, {})
        BY <1>5, <1>6, <2>2 DEF FullExcept
      <3> QED BY <1>3, <1>4, <1>5, <1>6, <2>2, <3>1 DEF KeepsWeighed
    <2> QED BY <1>2, <1>8, <2>1, <2>2
  <1> QED BY <1>1, <1>2, <1>8, <1>9, BecomeKeeps

LEMMA StillWeighs ==
    ASSUME NEW s, NEW t, NEW v, IsVotes(s), IsVotes(t), DOMAIN t.voters = DOMAIN s.voters \cup {v},
           \A y \in DOMAIN s.voters : WeighingStake(s)[y] <= WeighingStake(t)[y],
           t.stake = s.stake, StakeWeighsOnce(s)
    PROVE  StakeWeighsOnce(t)
  <1>1. PICK n \in Nat : n = At(WeighingStake(s), v)
    <2>1. DOMAIN WeighingStake(s) = DOMAIN s.voters
          /\ \A y \in DOMAIN s.voters : WeighingStake(s)[y] \in Nat
      BY WeighingStakeType
    <2> QED BY <2>1 DEF At
  <1>2. n <= WeighingStake(t)[v]
    <2>1. DOMAIN WeighingStake(s) = DOMAIN s.voters
      BY WeighingStakeType
    <2>2. WeighingStake(t)[v] \in Nat
      BY WeighingStakeType
    <2> QED BY <1>1, <2>1, <2>2 DEF At
  <1>3. SumFunction(WeighingStake(s)) + n - At(WeighingStake(s), v) <= SumFunction(WeighingStake(t))
    BY <1>2, WeighsMore
  <1>4. SumFunction(WeighingStake(s)) \in Int /\ SumFunction(WeighingStake(t)) \in Int /\ s.stake \in Int
    BY WeighingStakeType DEF IsVotes
  <1> QED BY <1>1, <1>3, <1>4 DEF StakeWeighsOnce

LEMMA RegProxyWeighs ==
    ASSUME VotesInv, NEW U, CoarseBy(U), WeightsInv(U),
           NEW v \in Accounts, NEW on \in BOOLEAN, RegProxy(v, on)
    PROVE  WeightsInv(U)' /\ (~activated => StakeWeighsOnce(Votes'))
  <1>1. /\ week' = week /\ Votes.voters = voters /\ Votes.activated = activated
        /\ IsVotes(Votes) /\ week \in Weeks
    BY DEF RegProxy, Votes, VotesInv
  <1>2. ASSUME NEW t, NEW row, HasRow(Votes, t, v, row), SameVote(OldRow(Votes, v), row),
               row.staked = OldRow(Votes, v).staked
        PROVE  /\ Weighed(U, t) /\ FullExcept(t, {v}) /\ t.activated = activated
               /\ ~activated => StakeWeighsOnce(t)
    <2>1. Weighed(U, t) /\ FullExcept(t, {v})
      BY <1>2, SameVoteCounts DEF WeightsInv
    <2>2. /\ IsVotes(t) /\ DOMAIN t.voters = DOMAIN Votes.voters \cup {v}
          /\ \A y \in DOMAIN Votes.voters \ {v} : t.voters[y] = Votes.voters[y]
          /\ t.voters[v] = row /\ t.stake = Votes.stake /\ t.activated = activated
      BY <1>1, <1>2 DEF HasRow
    <2>3. \A y \in DOMAIN Votes.voters : WeighingStake(t)[y] = WeighingStake(Votes)[y]
      BY <1>2, <2>2 DEF WeighingStake, SameVote, OldRow
    <2>4. \A y \in DOMAIN Votes.voters : WeighingStake(Votes)[y] \in Nat
      BY <1>1, WeighingStakeType
    <2>5. \A y \in DOMAIN Votes.voters : WeighingStake(Votes)[y] <= WeighingStake(t)[y]
      BY <2>3, <2>4
    <2> QED BY <1>1, <2>1, <2>2, <2>5, StillWeighs DEF WeightsInv
  <1>3. CASE v \in DOMAIN voters
    <2>1. PICK t, u, row : /\ t = SetProxy(Votes, v, on) /\ u = Propagate(t, v)
                           /\ row = AsProxy(voters[v], on)
      OBVIOUS
    <2>2. Become(u) /\ HasRow(Votes, t, v, row) /\ Reweighs(t, u)
      BY <1>3, <2>1, RegProxySteps DEF VotesInv
    <2>3. voters[v] \in VoterRows /\ OldRow(Votes, v) = voters[v]
      BY <1>1, <1>3 DEF IsVotes, OldRow
    <2>4. SameVote(OldRow(Votes, v), row) /\ row.staked = OldRow(Votes, v).staked
      BY <2>1, <2>3 DEF AsProxy, SameVote, VoterRows
    <2>5. /\ Weighed(U, t) /\ FullExcept(t, {v}) /\ t.activated = activated
          /\ ~activated => StakeWeighsOnce(t)
      BY <1>2, <2>2, <2>4
    <2>6. IsVotes(t) /\ v \in DOMAIN t.voters
      BY <2>2 DEF HasRow
    <2>7. PICK rank \in [Accounts -> Nat] : Ranked(t, rank)
      <3>1. PICK rank \in [Accounts -> Nat] : Ranked(Votes, rank)
        BY DEF VotesInv, Chained
      <3>2. \A y \in DOMAIN t.voters : y \in DOMAIN voters /\ t.voters[y].proxy = voters[y].proxy
        BY <1>1, <1>3, <2>2, <2>3, <2>4 DEF HasRow, SameVote
      <3> QED BY <1>1, <3>1, <3>2 DEF Ranked
    <2>8. /\ Tallied(U, u, NoProxy, NoProxy, 0, {}, 0) /\ FullExcept(u, {NoProxy})
          /\ Passes(t, u, NoProxy)
      <3>1. 0 \in Parts(U)
        BY PartsZero DEF CoarseBy
      <3>2. FullExcept(t, {NoProxy, v})
        BY <2>5 DEF FullExcept
      <3>3. Tallied(U, t, NoProxy, NoProxy, 0, {}, 0)
        BY <2>5 DEF Weighed
      <3>4. NoProxy \in Accounts => rank[v] < rank[NoProxy]
        BY VotingConstants
      <3> QED BY <1>1, <2>1, <2>6, <2>7, <3>1, <3>2, <3>3, <3>4, PropagateCounts
    <2>9. FullExcept(u, {}) /\ Weighed(U, u)
      <3>1. NoProxy \notin DOMAIN u.voters
        BY <2>8, VotingConstants DEF Tallied, IsVotes
      <3> QED BY <2>8, <3>1 DEF FullExcept, Weighed
    <2>10. ~activated => StakeWeighsOnce(u)
      <3>1. /\ IsVotes(u) /\ DOMAIN u.voters = DOMAIN t.voters \cup {v} /\ u.stake = t.stake
            /\ \A y \in DOMAIN t.voters : u.voters[y].staked = t.voters[y].staked
        BY <2>2, <2>6 DEF Reweighs, SameBallot
      <3>2. \A y \in DOMAIN t.voters : WeighingStake(t)[y] <= WeighingStake(u)[y]
        <4>1. \A y \in DOMAIN t.voters : t.voters[y].staked \in Nat
          BY <2>6, WeighingStakeType
        <4> QED BY <2>8, <3>1, <4>1 DEF WeighingStake, Passes, KeepsWeights, Weighs
      <3> QED BY <2>5, <2>6, <3>1, <3>2, StillWeighs
    <2>11. KeepsWeighed(U, Votes, u)
      BY <1>1, <2>2, <2>5, <2>9, <2>10 DEF KeepsWeighed, Reweighs
    <2> QED BY <1>1, <2>2, <2>11, BecomeKeeps
  <1>4. CASE v \notin DOMAIN voters
    <2>1. PICK t, row : t = AddVoter(Votes, v, row) /\ row = AsProxy(NewVoter, on)
      OBVIOUS
    <2>2. Become(t) /\ HasRow(Votes, t, v, row)
      BY <1>4, <2>1, RegProxySteps DEF VotesInv
    <2>3. OldRow(Votes, v) = NewVoter
      BY <1>1, <1>4 DEF OldRow
    <2>4. /\ SameVote(OldRow(Votes, v), row) /\ row.staked = OldRow(Votes, v).staked
          /\ row.producers = {} /\ row.proxy = NoProxy
      BY <2>1, <2>3 DEF AsProxy, SameVote, NewVoter
    <2>5. /\ Weighed(U, t) /\ FullExcept(t, {v}) /\ t.activated = activated
          /\ ~activated => StakeWeighsOnce(t)
      BY <1>2, <2>2, <2>4
    <2>6. FullExcept(t, {})
      BY <2>2, <2>4, <2>5 DEF FullExcept, HasRow
    <2>7. KeepsWeighed(U, Votes, t)
      BY <1>1, <2>5, <2>6 DEF KeepsWeighed
    <2> QED BY <1>1, <2>2, <2>7, BecomeKeeps
  <1> QED BY <1>3, <1>4

LEMMA ProducerWeighs ==
    ASSUME VotesInv, NEW U, CoarseBy(U), WeightsInv(U), NEW p \in Candidates,
           RegProducer(p) \/ UnregProd(p)
    PROVE  WeightsInv(U)' /\ (~activated => StakeWeighsOnce(Votes'))
  <1>1. PICK s, n : s = Votes /\ n = Votes'
    OBVIOUS
  <1>2. /\ n.voters = s.voters /\ n.total = s.total /\ n.stake = s.stake
        /\ s.producers = producers /\ n.producers = producers'
        /\ week' = week /\ activated' = activated
    BY <1>1 DEF RegProducer, UnregProd, Votes
  <1>3. IsVotes(s) /\ IsVotes(n) /\ Weighed(U, s) /\ CoarseLasts(U, s) /\ U \in Nat
        /\ CountedBut(s, NoProxy, NoProxy, 0, {}, 0)
    <2>1. IsVotes(n)
      BY <1>1, ProducerInv DEF VotesInv
    <2> QED BY <1>1, <2>1 DEF WeightsInv, Weighed, Tallied, CoarseBy
  <1>4. \A q \in DOMAIN s.producers : s.producers[q] \in ProducerRows
    BY <1>3 DEF IsVotes
  <1>5. /\ DOMAIN n.producers = DOMAIN s.producers \cup {p}
        /\ \A q \in DOMAIN s.producers : n.producers[q].total_votes = s.producers[q].total_votes
        /\ p \notin DOMAIN s.producers => n.producers[p].total_votes = 0
    <2>1. CASE RegProducer(p) /\ p \in DOMAIN producers
      <3>1. producers' = [producers EXCEPT ![p].is_active = TRUE]
        BY <2>1 DEF RegProducer
      <3>2. PICK new : new = TRUE
        OBVIOUS
      <3>3. producers' = [producers EXCEPT ![p].is_active = new] /\ p \in DOMAIN producers
        BY <2>1, <3>1, <3>2
      <3> QED BY <1>2, <1>4, <3>3 DEF ProducerRows
    <2>2. CASE RegProducer(p) /\ p \notin DOMAIN producers
      <3>1. producers' = Row(producers, p, [is_active |-> TRUE, total_votes |-> 0])
        BY <2>2 DEF RegProducer
      <3> QED BY <1>2, <1>4, <2>2, <3>1 DEF Row, ProducerRows
    <2>3. CASE UnregProd(p)
      <3>1. producers' = [producers EXCEPT ![p].is_active = FALSE] /\ p \in DOMAIN producers
        BY <2>3 DEF UnregProd
      <3> QED BY <1>2, <1>4, <3>1 DEF ProducerRows
    <2> QED BY <2>1, <2>2, <2>3
  <1>6. \A x : /\ ProxyShare(n, NoProxy, x) = ProxyShare(s, NoProxy, x)
               /\ VoteShare(n, NoProxy, x) = VoteShare(s, NoProxy, x)
    BY <1>2 DEF ProxyShare, VoteShare
  <1>7. ASSUME p \notin DOMAIN s.producers
        PROVE  SumFunction(VoteShare(s, NoProxy, p)) = 0
    <2>1. PICK f : f = VoteShare(s, NoProxy, p)
      OBVIOUS
    <2>2. IsFiniteSet(DOMAIN f) /\ DOMAIN f = DOMAIN s.voters
      BY <1>3, <2>1, ShareSums
    <2>3. \A y \in DOMAIN f : f[y] = 0
      BY <1>3, <1>7, <2>1, <2>2 DEF VoteShare, IsVotes
    <2> QED BY <2>1, <2>2, <2>3, SumZero DEF SumFunction
  <1>8. TotalVotes(n) = TotalVotes(s)
    <2>1. PICK f, g : /\ f = [q \in DOMAIN s.producers |-> s.producers[q].total_votes]
                      /\ g = [q \in DOMAIN n.producers |-> n.producers[q].total_votes]
      OBVIOUS
    <2>2. /\ IsFiniteSet(DOMAIN f) /\ DOMAIN f = DOMAIN s.producers /\ DOMAIN g = DOMAIN n.producers
          /\ (\A q \in DOMAIN f : f[q] \in Int) /\ (\A q \in DOMAIN g : g[q] \in Int)
      <3>1. IsFiniteSet(DOMAIN s.producers)
        BY <1>3, VotingConstants, FS_Subset DEF IsVotes
      <3>2. \A q \in DOMAIN s.producers : s.producers[q].total_votes \in Int
        BY <1>4 DEF ProducerRows
      <3>3. \A q \in DOMAIN n.producers : n.producers[q].total_votes \in Int
        BY <1>5, <3>2
      <3> QED BY <2>1, <3>1, <3>2, <3>3
    <2>3. /\ DOMAIN f \ {p} = DOMAIN g \ {p} /\ \A q \in DOMAIN f \ {p} : f[q] = g[q]
          /\ At(f, p) = At(g, p)
      BY <1>5, <2>1, <2>2 DEF At
    <2>4. Moves(SumFunction(f), SumFunction(g), At(f, p), At(g, p))
      BY <2>2, <2>3, SumChanges
    <2>5. SumFunction(g) = SumFunction(f)
      BY <2>3, <2>4 DEF Moves
    <2> QED BY <2>1, <2>5 DEF TotalVotes
  <1>9. CountedBut(n, NoProxy, NoProxy, 0, {}, 0)
    <2>1. \A q \in DOMAIN n.producers :
              n.producers[q].total_votes = SumFunction(VoteShare(n, NoProxy, q)) + 0
      <3>1. \A q \in DOMAIN s.producers :
                s.producers[q].total_votes = SumFunction(VoteShare(s, NoProxy, q)) + 0
        BY <1>3 DEF CountedBut
      <3> QED BY <1>5, <1>6, <1>7, <3>1
    <2> QED BY <1>2, <1>3, <1>6, <1>8, <2>1 DEF CountedBut
  <1>10. Weighed(U, n)
    BY <1>2, <1>3, <1>9 DEF Weighed, Tallied, CoarseLasts
  <1>11. (FullExcept(Votes, {}))'
    BY <1>1, <1>2 DEF WeightsInv, FullExcept, IsFull
  <1>12. ~activated => StakeWeighsOnce(n)
    BY <1>1, <1>2 DEF WeightsInv, StakeWeighsOnce, WeighingStake
  <1> QED BY <1>1, <1>2, <1>10, <1>11, <1>12 DEF WeightsInv, Weighed, Tallied

LEMMA SameVotesWeigh ==
    ASSUME NEW U, WeightsInv(U), week' \in Weeks, week \in Weeks, week <= week',
           UNCHANGED <<voters, producers, total_vote_weight, activated_stake, activated>>
    PROVE  WeightsInv(U)' /\ (~activated => StakeWeighsOnce(Votes'))
  <1>1. Votes' = Votes /\ activated' = activated
    BY DEF Votes
  <1>2. \A w \in Weeks : w <= week => w <= week'
    BY VotingConstants
  <1>3. \A row : IsFull(row) => IsFull(row)'
    BY <1>2 DEF IsFull
  <1>4. (FullExcept(Votes, {}))'
    <2>1. \A y \in DOMAIN Votes.voters \ {} :
              Votes.voters[y].producers # {} \/ Votes.voters[y].proxy # NoProxy
                  => IsFull(Votes.voters[y])
      BY DEF WeightsInv, FullExcept
    <2> QED BY <1>1, <1>3, <2>1 DEF FullExcept, IsFull
  <1> QED BY <1>1, <1>4 DEF WeightsInv, Weighed, Tallied

WeightsCount == \E U : CoarseBy(U) /\ WeightsInv(U)

LEMMA WeightsStep ==
    VotesInv /\ WeightsCount /\ [Next]_votingVars
        => WeightsCount' /\ (~activated => StakeWeighsOnce(Votes'))
  <1> SUFFICES ASSUME VotesInv, WeightsCount, [Next]_votingVars
               PROVE  WeightsCount' /\ (~activated => StakeWeighsOnce(Votes'))
    OBVIOUS
  <1>1. PICK U : CoarseBy(U) /\ WeightsInv(U)
    BY DEF WeightsCount
  <1>2. WeightsInv(U)' /\ (~activated => StakeWeighsOnce(Votes'))
    <2>1. CASE NextWeek
      <3>1. week \in Weeks /\ week' \in Weeks /\ week <= week'
        BY <2>1, VotingConstants DEF NextWeek, VotesInv
      <3> QED BY <1>1, <2>1, <3>1, SameVotesWeigh DEF NextWeek
    <2>2. CASE UNCHANGED votingVars
      <3>1. week \in Weeks /\ week' \in Weeks /\ week <= week'
        BY <2>2, VotingConstants DEF votingVars, VotesInv
      <3>2. UNCHANGED <<voters, producers, total_vote_weight, activated_stake, activated>>
        BY <2>2 DEF votingVars
      <3> QED BY <1>1, <3>1, <3>2, SameVotesWeigh
    <2> QED BY <1>1, <2>1, <2>2, VoteProducerWeighs, ChangeStakeWeighs, RegProxyWeighs, ProducerWeighs
            DEF Next
  <1>3. WeightsCount'
    BY <1>1, <1>2 DEF WeightsCount, CoarseBy
  <1> QED BY <1>2, <1>3

LEMMA WeightsInitially ==
    ASSUME WeightsAreCoarse, Init
    PROVE  WeightsCount
  <1>1. PICK U \in Nat : CoarseBy(U)
    BY DEF WeightsAreCoarse
  <1>2. VotesInv
    BY InitialVotes
  <1>3. /\ DOMAIN Votes.voters = {} /\ DOMAIN Votes.producers = {}
        /\ Votes.total = 0 /\ Votes.stake = 0
    BY DEF Init, Votes
  <1>4. TotalVotes(Votes) = 0
    BY <1>3, SumOfNone DEF TotalVotes
  <1>5. SumFunction(WeighingStake(Votes)) = 0
    BY <1>3, SumOfNone DEF WeighingStake
  <1>6. Weighed(U, Votes) /\ FullExcept(Votes, {})
    BY <1>2, <1>3, <1>4 DEF VotesInv, Weighed, Tallied, CoarseLasts, CountedBut, FullExcept
  <1> QED BY <1>1, <1>3, <1>5, <1>6 DEF WeightsCount, WeightsInv, StakeWeighsOnce

\* A sum over some voters, as a sum over all.
LEMMA LastWeightShares ==
    ASSUME VotesInv, NEW V \in SUBSET DOMAIN voters, NEW f, DOMAIN f = DOMAIN voters,
           \A y \in DOMAIN voters : f[y] = IF y \in V THEN voters[y].last_vote_weight ELSE 0
    PROVE  LastWeight(V) = SumFunction(f)
  <1>1. IsFiniteSet(DOMAIN voters) /\ \A y \in DOMAIN voters : voters[y].last_vote_weight \in Int
    <2>1. Votes.voters = voters /\ IsVotes(Votes)
      BY DEF Votes, VotesInv
    <2> QED BY <2>1, WeighingStakeType
  <1> DEFINE g == [y \in DOMAIN voters |-> voters[y].last_vote_weight]
  <1>2. \A y \in DOMAIN voters : g[y] \in Int /\ f[y] = IF y \in V THEN g[y] ELSE 0
    BY <1>1
  <1> HIDE DEF g
  <1>3. SumFunctionOnSet(f, DOMAIN voters) = SumFunctionOnSet(g, V)
    BY <1>1, <1>2, SumExtends
  <1> QED BY <1>3 DEF LastWeight, SumFunction, g

LEMMA WeightsProperties ==
    ASSUME VotesInv, WeightsCount
    PROVE  VotesAreCounted /\ ProxiesAreCounted /\ VotesHaveFullWeight
  <1>1. PICK U : CoarseBy(U) /\ WeightsInv(U)
    BY DEF WeightsCount
  <1>2. /\ Votes.voters = voters /\ Votes.producers = producers /\ Votes.total = total_vote_weight
        /\ CountedBut(Votes, NoProxy, NoProxy, 0, {}, 0) /\ NoProxy \notin DOMAIN voters
        /\ FullExcept(Votes, {}) /\ IsVotes(Votes) /\ CoarseLasts(U, Votes) /\ U \in Nat
    BY <1>1, VotingConstants DEF Votes, WeightsInv, Weighed, Tallied, IsVotes, CoarseBy
  <1>3. ASSUME NEW p \in DOMAIN producers
        PROVE  producers[p].total_votes
                   = LastWeight({v \in DOMAIN voters : p \in voters[v].producers})
    <2> DEFINE V == {v \in DOMAIN voters : p \in voters[v].producers}
    <2>1. PICK f : f = VoteShare(Votes, NoProxy, p)
      OBVIOUS
    <2>2. DOMAIN f = DOMAIN voters
          /\ \A y \in DOMAIN voters : f[y] = IF y \in V THEN voters[y].last_vote_weight ELSE 0
      BY <1>2, <2>1 DEF VoteShare
    <2>3. V \in SUBSET DOMAIN voters
      OBVIOUS
    <2> HIDE DEF V
    <2>4. LastWeight(V) = SumFunction(f)
      BY <2>2, <2>3, LastWeightShares
    <2>5. producers[p].total_votes = SumFunction(f) + 0 /\ SumFunction(f) \in Nat
      <3>1. producers[p].total_votes = SumFunction(f) + 0
        BY <1>2, <2>1 DEF CountedBut
      <3>2. SumFunction(f) \in Parts(U)
        BY <1>2, <2>1, ShareSums
      <3> QED BY <1>2, <3>1, <3>2, PartsNat
    <2>6. producers[p].total_votes = LastWeight(V)
      BY <2>4, <2>5
    <2> QED BY <2>6 DEF V
  <1>4. VotesAreCounted
    BY <1>2, <1>3 DEF VotesAreCounted, CountedBut, TotalVotes
  <1>5. ASSUME NEW x \in DOMAIN voters
        PROVE  voters[x].proxied_vote_weight
                   = LastWeight({v \in DOMAIN voters : voters[v].proxy = x})
    <2> DEFINE V == {v \in DOMAIN voters : voters[v].proxy = x}
    <2>1. PICK f : f = ProxyShare(Votes, NoProxy, x)
      OBVIOUS
    <2>2. DOMAIN f = DOMAIN voters
          /\ \A y \in DOMAIN voters : f[y] = IF y \in V THEN voters[y].last_vote_weight ELSE 0
      BY <1>2, <2>1 DEF ProxyShare
    <2>3. V \in SUBSET DOMAIN voters
      OBVIOUS
    <2> HIDE DEF V
    <2>4. LastWeight(V) = SumFunction(f)
      BY <2>2, <2>3, LastWeightShares
    <2>5. voters[x].proxied_vote_weight = SumFunction(f) + 0 /\ SumFunction(f) \in Nat
      <3>1. voters[x].proxied_vote_weight = SumFunction(f) + 0
        BY <1>2, <2>1 DEF CountedBut
      <3>2. SumFunction(f) \in Parts(U)
        BY <1>2, <2>1, ShareSums
      <3> QED BY <1>2, <3>1, <3>2, PartsNat
    <2>6. voters[x].proxied_vote_weight = LastWeight(V)
      BY <2>4, <2>5
    <2> QED BY <2>6 DEF V
  <1>6. ProxiesAreCounted
    BY <1>5 DEF ProxiesAreCounted
  <1>7. VotesHaveFullWeight
    BY <1>2 DEF VotesHaveFullWeight, FullExcept, IsFull
  <1> QED BY <1>4, <1>6, <1>7

LEMMA StakeBound ==
    ASSUME NEW s, IsVotes(s), StakeWeighsOnce(s)
    PROVE  s.stake <= SumFunction([v \in DOMAIN s.voters |-> s.voters[v].staked])
  <1>1. PICK f, g : f = WeighingStake(s) /\ g = [v \in DOMAIN s.voters |-> s.voters[v].staked]
    OBVIOUS
  <1>2. /\ IsFiniteSet(DOMAIN s.voters) /\ DOMAIN f = DOMAIN s.voters /\ DOMAIN g = DOMAIN s.voters
        /\ \A y \in DOMAIN s.voters : f[y] \in Nat /\ g[y] \in Nat /\ f[y] <= g[y]
    BY <1>1, WeighingStakeType
  <1>3. SumFunctionOnSet(f, DOMAIN s.voters) * 1 <= SumFunctionOnSet(g, DOMAIN s.voters) * 1
    <2>1. \A y \in DOMAIN s.voters : f[y] \in Nat /\ g[y] \in Nat /\ f[y] * 1 <= g[y] * 1
      BY <1>2
    <2> QED BY <1>2, <2>1, SumParts
  <1>4. SumFunctionOnSet(f, DOMAIN s.voters) \in Nat /\ SumFunctionOnSet(g, DOMAIN s.voters) \in Nat
    BY <1>2, SumNat
  <1>5. s.stake \in Int
    BY DEF IsVotes
  <1> QED BY <1>1, <1>2, <1>3, <1>4, <1>5 DEF StakeWeighsOnce, SumFunction

LEMMA OnceStep ==
    ASSUME VotesInv', ~activated => StakeWeighsOnce(Votes')
    PROVE  ~activated =>
               activated_stake' <= SumFunction([v \in DOMAIN voters' |-> voters'[v].staked])
  <1>1. PICK n : n = Votes'
    OBVIOUS
  <1>2. IsVotes(n) /\ n.stake = activated_stake' /\ n.voters = voters'
    BY <1>1 DEF VotesInv, Votes
  <1> QED BY <1>1, <1>2, StakeBound

\* However votes, proxies and stake change, and in whatever order the changes
\* are propagated, a producer has exactly the votes of those who vote for it.
THEOREM VotesCorrect ==
    ASSUME WeightsAreCoarse
    PROVE  Spec => []VotesAreCounted
  <1>1. Init => VotesInv /\ WeightsCount
    BY WeightsInitially, InitialVotes
  <1>2. VotesInv /\ WeightsCount => VotesAreCounted
    BY WeightsProperties
  <1> QED BY <1>1, <1>2, VotesStep, WeightsStep, PTL DEF Spec

\* The same of proxies and the voters they stand for, along chains of any
\* length and also while a proxy is not registered.
THEOREM ProxiesCorrect ==
    ASSUME WeightsAreCoarse
    PROVE  Spec => []ProxiesAreCounted
  <1>1. Init => VotesInv /\ WeightsCount
    BY WeightsInitially, InitialVotes
  <1>2. VotesInv /\ WeightsCount => ProxiesAreCounted
    BY WeightsProperties
  <1> QED BY <1>1, <1>2, VotesStep, WeightsStep, PTL DEF Spec

\* propagate_weight_change leaves no change of a stake or of a proxied weight
\* behind.
THEOREM WeightsCorrect ==
    ASSUME WeightsAreCoarse
    PROVE  Spec => []VotesHaveFullWeight
  <1>1. Init => VotesInv /\ WeightsCount
    BY WeightsInitially, InitialVotes
  <1>2. VotesInv /\ WeightsCount => VotesHaveFullWeight
    BY WeightsProperties
  <1> QED BY <1>1, <1>2, VotesStep, WeightsStep, PTL DEF Spec

\* No stake is counted twice by update_votes for the activation of the chain,
\* however often its vote gains and loses its weight.
THEOREM ActivationCorrect ==
    ASSUME WeightsAreCoarse
    PROVE  Spec => StakeActivatesOnce
  <1>1. Init => VotesInv /\ WeightsCount
    BY WeightsInitially, InitialVotes
  <1>2. VotesInv' /\ (~activated => StakeWeighsOnce(Votes'))
            => (~activated => activated_stake' <= SumFunction([v \in DOMAIN voters' |-> voters'[v].staked]))
    BY OnceStep
  <1> QED BY <1>1, <1>2, VotesStep, WeightsStep, PTL DEF Spec, StakeActivatesOnce

-----------------------------------------------------------------------------
(***************************************************************************)
(* VotePay: the rate of the total and the total are those of the shares,   *)
(* if no row from before the shares has a time of its last claim.          *)
(***************************************************************************)
RateOf(p) == IF TakesPart(p) THEN producers[p].total_votes ELSE 0
Rates == [p \in DOMAIN producers2 |-> RateOf(p)]
Accruals == [p \in DOMAIN producers2 |-> Accrued(p)]

\* A producer with a share has a time of its last claim, one without has none.
PayTypes ==
    /\ DOMAIN producers \subseteq Candidates
    /\ \A p \in DOMAIN producers : producers[p].total_votes \in Nat
    /\ now \in ClaimWindow..MaxTime /\ state_update \in 0..now
    /\ DOMAIN last_claim = DOMAIN producers
    /\ \A p \in DOMAIN last_claim : last_claim[p] \in Nat /\ (last_claim[p] = 0 <=> p \notin DOMAIN producers2)
    /\ DOMAIN producers2 \subseteq DOMAIN producers
    /\ \A p \in DOMAIN producers2 : producers2[p].share \in Nat /\ producers2[p].updated \in 0..now
    /\ total_share \in Nat /\ change_rate \in Nat

PayInv == PayTypes /\ change_rate = SumFunction(Rates) /\ TotalIsSumOfShares

LEMMA ShareTypes ==
    ASSUME PayTypes
    PROVE  /\ now \in Nat /\ state_update \in Nat /\ ClaimWindow \in Nat \ {0}
           /\ IsFiniteSet(DOMAIN producers2)
           /\ \A p \in DOMAIN producers2 :
                 /\ producers[p].total_votes \in Nat /\ last_claim[p] \in Nat
                 /\ producers2[p].share \in Nat /\ producers2[p].updated \in 0..now
                 /\ RateOf(p) \in Nat /\ Accrued(p) \in Nat
  <1>1. now \in Nat /\ state_update \in Nat /\ ClaimWindow \in Nat \ {0}
    BY VotePayConstants DEF PayTypes
  <1>2. IsFiniteSet(DOMAIN producers2)
    BY VotingConstants, FS_Subset DEF PayTypes
  <1>3. ASSUME NEW p \in DOMAIN producers2
        PROVE  /\ producers[p].total_votes \in Nat /\ last_claim[p] \in Nat
               /\ producers2[p].share \in Nat /\ producers2[p].updated \in 0..now
    BY DEF PayTypes
  <1>4. ASSUME NEW p \in DOMAIN producers2
        PROVE  RateOf(p) \in Nat /\ Accrued(p) \in Nat
    <2>1. \A a \in Nat : \A n, u \in Int : u \in 0..n => a * (n - u) \in Nat
      OBVIOUS
    <2>2. producers[p].total_votes * (now - producers2[p].updated) \in Nat
      BY <1>1, <1>3, <2>1
    <2> QED BY <1>3, <2>2 DEF RateOf, Accrued
  <1> QED BY <1>1, <1>2, <1>3, <1>4

LEMMA RateSum ==
    ASSUME PayTypes
    PROVE  SumFunction([p \in {q \in DOMAIN producers2 : TakesPart(q)} |-> producers[p].total_votes])
               = SumFunction(Rates)
  <1> DEFINE D == DOMAIN producers2
             T == {q \in D : TakesPart(q)}
             f == [p \in D |-> producers[p].total_votes]
             g == [p \in T |-> producers[p].total_votes]
  <1>1. IsFiniteSet(D) /\ T \in SUBSET D /\ \A p \in D : f[p] \in Int
    BY ShareTypes
  <1>2. \A p \in D : f[p] \in Int /\ Rates[p] = IF p \in T THEN f[p] ELSE 0
    BY <1>1 DEF Rates, RateOf
  <1>3. SumFunctionOnSet(Rates, D) = SumFunctionOnSet(f, T)
    <2> HIDE DEF f, T, D
    <2> QED BY <1>1, <1>2, SumExtends
  <1>4. SumFunctionOnSet(g, T) = SumFunctionOnSet(f, T)
    <2>1. IsFiniteSet(T) /\ \A p \in T : g[p] = f[p]
      BY <1>1, FS_Subset
    <2> HIDE DEF f, g, T
    <2> QED BY <2>1, SumAgree
  <1>5. DOMAIN Rates = D /\ DOMAIN g = T
    BY DEF Rates
  <1>6. SumFunction(Rates) = SumFunctionOnSet(Rates, D) /\ SumFunction(g) = SumFunctionOnSet(g, T)
    BY <1>5 DEF SumFunction
  <1> QED BY <1>3, <1>4, <1>6

\* No more is taken from a total than is in it.
LEMMA NotClamped ==
    ASSUME NEW x \in Int, NEW n \in Int, NEW sum \in Nat, x + n = sum
    PROVE  Clamped(x, n) = sum
  BY DEF Clamped

\* What an action does to the votes, as far as the shares depend on it.
CountsVotes(s, t) ==
    /\ IsVotes(t)
    /\ DOMAIN t.producers = DOMAIN s.producers
    /\ \A p \in DOMAIN s.producers : p \notin UNION t.counts => t.producers[p] = s.producers[p]
    /\ t.counts = {} => t.producers = s.producers

\* Counting votes: what the rate and the total lose and win is what the shares do.
LEMMA CountSharesPay ==
    ASSUME PayInv, NEW t, CountsVotes(Votes, t), producers' = t.producers, CountShares(t.counts)
    PROVE  PayInv'
  <1> DEFINE counts == t.counts
             D == DOMAIN producers2
             P == (UNION counts) \cap D
             L == {q \in P : Lapses(q)}
             lost == [p \in L |-> Accrued(p)]
             delta == [p \in P |-> RateDelta(p)]
  <1>1. Votes.producers = producers
    BY DEF Votes
  <1>2. /\ DOMAIN producers' = DOMAIN producers
        /\ \A p \in DOMAIN producers : p \notin UNION counts => producers'[p] = producers[p]
        /\ counts = {} => producers' = producers
        /\ \A p \in DOMAIN producers : producers'[p].total_votes \in Nat
    BY <1>1 DEF CountsVotes, IsVotes, ProducerRows
  <1>3. /\ last_claim' = last_claim /\ now' = now
        /\ producers2' = [p \in D |-> IF p \in P THEN [share |-> IF Lapses(p) THEN 0 ELSE Accrued(p), updated |-> now]
                                      ELSE producers2[p]]
        /\ IF counts = {} THEN UNCHANGED <<total_share, change_rate, state_update>>
           ELSE UpdateTotalVotepayShare(-SumFunction(lost), SumFunction(delta))
    BY DEF CountShares
  <1> HIDE DEF counts
  <1>4. /\ P \in SUBSET D /\ L \in SUBSET P /\ IsFiniteSet(D) /\ IsFiniteSet(P) /\ IsFiniteSet(L)
        /\ D \subseteq DOMAIN producers
    <2>1. IsFiniteSet(D) /\ D \subseteq DOMAIN producers
      BY ShareTypes DEF PayInv, PayTypes
    <2> QED BY <2>1, FS_Subset
  <1>5. \A p \in D : /\ producers[p].total_votes \in Nat /\ last_claim[p] \in Nat
                     /\ producers2[p].share \in Nat /\ producers2[p].updated \in 0..now
                     /\ RateOf(p) \in Nat /\ Accrued(p) \in Nat
    BY ShareTypes DEF PayInv
  <1>6. now \in Nat /\ state_update \in Nat /\ ClaimWindow \in Nat \ {0}
    BY ShareTypes DEF PayInv
  <1> HIDE DEF P
  <1>7. ASSUME NEW p \in P
        PROVE  /\ producers2'[p].share = IF Lapses(p) THEN 0 ELSE Accrued(p)
               /\ producers2'[p].updated = now
    BY <1>3, <1>4
  <1>8. \A p \in D : producers'[p].total_votes \in Nat
    BY <1>2, <1>4
  <1>9. ASSUME NEW p \in P
        PROVE  RateDelta(p) \in Int /\ RateOf(p)' = RateOf(p) + RateDelta(p)
    <2>1. p \in D /\ producers'[p].total_votes \in Nat
      BY <1>4, <1>8
    <2> QED BY <1>3, <1>5, <1>6, <1>7, <2>1 DEF RateOf, RateDelta, TakesPart, UpdatedAfter, Crossed, Lapses
  <1>10. ASSUME NEW p \in D, p \notin P
         PROVE  RateOf(p)' = RateOf(p) /\ Accrued(p)' = Accrued(p)
    <2>1. producers'[p] = producers[p]
      BY <1>2, <1>4, <1>10 DEF P
    <2>2. producers2'[p] = producers2[p]
      BY <1>3, <1>10
    <2> QED BY <1>3, <2>1, <2>2 DEF RateOf, Accrued, TakesPart, UpdatedAfter
  <1>11. ASSUME NEW p \in P
         PROVE  Accrued(p)' = IF Lapses(p) THEN 0 ELSE Accrued(p)
    <2>1. p \in D /\ producers'[p].total_votes \in Nat
      BY <1>4, <1>8
    <2>2. \A x \in Nat : x * (now' - now) = 0
      BY <1>3, <1>6
    <2> QED BY <1>5, <1>7, <2>1, <2>2 DEF Accrued
  <1>12. DOMAIN producers2' = D
    BY <1>3
  <1>13. CASE counts = {}
    <2>1. P = {}
      BY <1>13 DEF P
    <2>2. UNCHANGED <<producers, last_claim, now, total_share, change_rate, state_update>>
      BY <1>2, <1>3, <1>13
    <2>3. Rates' = Rates /\ Accruals' = Accruals /\ DOMAIN producers2' = D
      BY <1>10, <1>12, <2>1 DEF Rates, Accruals
    <2>4. \A p \in D : producers2'[p] = producers2[p]
      BY <1>3, <2>1
    <2>5. PayTypes'
      BY <1>12, <2>2, <2>4 DEF PayInv, PayTypes
    <2> QED BY <2>2, <2>3, <2>5 DEF PayInv, TotalIsSumOfShares, Accruals
  <1>14. CASE counts # {}
    <2>1. SumFunctionOnSet(Rates', D) = SumFunctionOnSet(Rates, D) + SumFunctionOnSet(delta, P)
      <3>1. \A p \in D : Rates[p] \in Int
        BY <1>5 DEF Rates
      <3>2. \A p \in P : delta[p] \in Int
        BY <1>9
      <3>3. \A p \in D : Rates'[p] = Rates[p] + IF p \in P THEN delta[p] ELSE 0
        <4>1. ASSUME NEW p \in D, p \in P PROVE Rates'[p] = Rates[p] + delta[p]
          BY <1>9, <1>12, <4>1 DEF Rates
        <4>2. ASSUME NEW p \in D, p \notin P PROVE Rates'[p] = Rates[p] /\ Rates[p] \in Int
          BY <1>10, <1>12, <3>1, <4>2 DEF Rates
        <4> QED BY <4>1, <4>2
      <3> HIDE DEF delta
      <3> QED BY <1>4, <3>1, <3>2, <3>3, SumAdded
    <2>2. SumFunctionOnSet(Accruals, D) = SumFunctionOnSet(Accruals', D) + SumFunctionOnSet(lost, L)
      <3>1. ASSUME NEW p \in D
            PROVE  Accruals'[p] \in Int /\ Accruals[p] = Accruals'[p] + IF p \in L THEN lost[p] ELSE 0
        <4>1. CASE p \in L
          BY <1>4, <1>5, <1>11, <1>12, <4>1 DEF Accruals
        <4>2. CASE p \in P \ L
          BY <1>4, <1>5, <1>11, <1>12, <4>2 DEF Accruals
        <4>3. CASE p \notin P
          BY <1>4, <1>5, <1>10, <1>12, <4>3 DEF Accruals
        <4> QED BY <4>1, <4>2, <4>3
      <3>2. \A p \in L : lost[p] \in Int
        BY <1>4, <1>5
      <3>3. L \in SUBSET D
        BY <1>4
      <3> HIDE DEF lost, L
      <3> QED BY <1>4, <3>1, <3>2, <3>3, SumAdded
    <2>3. /\ SumFunction(Rates) = SumFunctionOnSet(Rates, D)
          /\ SumFunction(Rates') = SumFunctionOnSet(Rates', D)
          /\ SumFunction(Accruals) = SumFunctionOnSet(Accruals, D)
          /\ SumFunction(Accruals') = SumFunctionOnSet(Accruals', D)
          /\ SumFunction(delta) = SumFunctionOnSet(delta, P)
          /\ SumFunction(lost) = SumFunctionOnSet(lost, L)
      <3>1. DOMAIN Rates = D /\ DOMAIN Rates' = D /\ DOMAIN Accruals = D /\ DOMAIN Accruals' = D
            /\ DOMAIN delta = P /\ DOMAIN lost = L
        BY <1>12 DEF Rates, Accruals
      <3> HIDE DEF delta, lost
      <3> QED BY <3>1 DEF SumFunction
    <2>4. SumFunctionOnSet(Rates', D) \in Nat /\ SumFunctionOnSet(Accruals', D) \in Nat
          /\ SumFunctionOnSet(delta, P) \in Int /\ SumFunctionOnSet(lost, L) \in Int
      <3>1. \A p \in D : Rates'[p] \in Nat /\ Accruals'[p] \in Nat
        <4>1. ASSUME NEW p \in D PROVE Accruals'[p] \in Nat
          BY <1>4, <1>5, <1>10, <1>11, <1>12 DEF Accruals
        <4>2. ASSUME NEW p \in D PROVE Rates'[p] \in Nat
          BY <1>8, <1>12 DEF Rates, RateOf
        <4> QED BY <4>1, <4>2
      <3>2. (\A p \in P : delta[p] \in Int) /\ \A p \in L : lost[p] \in Int
        BY <1>4, <1>5, <1>9
      <3> HIDE DEF delta, lost, L
      <3> QED BY <1>4, <3>1, <3>2, SumNat, SumInt
    <2>5. PICK rates \in Nat, shares \in Nat, more \in Int, less \in Int :
              /\ rates = SumFunction(Rates') /\ shares = SumFunction(Accruals')
              /\ more = SumFunction(delta) /\ less = SumFunction(lost)
      BY <2>3, <2>4
    <2> HIDE DEF delta, lost, L
    <2>6. /\ total_share' = Clamped(total_share, change_rate * (now - state_update) + (-less))
          /\ change_rate' = Clamped(change_rate, more)
          /\ state_update' = now
      BY <1>3, <1>14, <2>5 DEF UpdateTotalVotepayShare
    <2>7. change_rate \in Nat /\ total_share \in Nat
          /\ change_rate = SumFunction(Rates)
          /\ total_share + change_rate * (now - state_update) = SumFunction(Accruals)
      BY DEF PayInv, PayTypes, TotalIsSumOfShares, Accruals
    <2>8. change_rate + more = rates
      BY <2>1, <2>3, <2>5, <2>7
    <2>9. change_rate' = rates
      BY <2>6, <2>7, <2>8, NotClamped
    <2>10. change_rate * (now - state_update) \in Int
      BY <1>6, <2>7
    <2>11. PICK time \in Int : time = change_rate * (now - state_update)
      BY <2>10
    <2>12. total_share + (time + (-less)) = shares
      BY <2>2, <2>3, <2>5, <2>7, <2>11
    <2>13. total_share' = shares
      BY <2>6, <2>7, <2>11, <2>12, NotClamped
    <2>14. PayTypes'
      <3>1. \A p \in D : producers2'[p].share \in Nat /\ producers2'[p].updated \in 0..now'
        <4>1. now \in 0..now
          BY <1>6
        <4>2. ASSUME NEW p \in D, p \in P
              PROVE  producers2'[p].share \in Nat /\ producers2'[p].updated \in 0..now'
          BY <1>3, <1>5, <1>7, <4>1, <4>2
        <4>3. ASSUME NEW p \in D, p \notin P
              PROVE  producers2'[p].share \in Nat /\ producers2'[p].updated \in 0..now'
          BY <1>3, <1>5, <4>3
        <4> QED BY <4>2, <4>3
      <3>2. state_update' \in 0..now'
        BY <1>3, <1>6, <2>6
      <3> QED BY <1>2, <1>3, <1>12, <2>9, <2>13, <3>1, <3>2 DEF PayInv, PayTypes
    <2>15. \A x \in Nat : x * (now' - state_update') = 0
      BY <1>3, <1>6, <2>6
    <2>16. total_share' + change_rate' * (now' - state_update') = SumFunction(Accruals')
      BY <2>5, <2>9, <2>13, <2>15
    <2> QED BY <2>5, <2>9, <2>14, <2>16 DEF PayInv, TotalIsSumOfShares, Accruals
  <1> QED BY <1>13, <1>14

LEMMA VoteProducerPay ==
    ASSUME VotesInv, PayInv, NEW v, NEW proxy, NEW prods, PayVoteProducer(v, proxy, prods)
    PROVE  PayInv'
  <1>1. PICK t : t = UpdateVotes(Votes, v, proxy, prods)
    OBVIOUS
  <1>2. Become(t) /\ Revotes(Votes, t, v, proxy, prods) /\ CountShares(t.counts)
    BY <1>1, VoteProducerSteps DEF PayVoteProducer, VotesInv
  <1>3. CountsVotes(Votes, t) /\ producers' = t.producers
    BY <1>2 DEF Revotes, CountsVotes, Become
  <1> QED BY <1>2, <1>3, CountSharesPay

LEMMA ChangeStakePay ==
    ASSUME VotesInv, PayInv, NEW v \in Accounts, NEW change \in StakeChanges, PayChangeStake(v, change)
    PROVE  PayInv'
  <1>1. PICK u : u = VotingPower(Votes, v, change)
    OBVIOUS
  <1>2. CountShares(u.counts) /\ ChangeStake(v, change)
    BY <1>1 DEF PayChangeStake
  <1>3. PICK t, row :
              /\ HasRow(Votes, t, v, row)
              /\ Become(u)
              /\ \/ Revotes(t, u, v, row.proxy, row.producers)
                 \/ u = t
    BY <1>1, <1>2, ChangeStakeSteps DEF VotesInv
  <1>4. Votes.counts = {}
    BY DEF Votes
  <1>5. CountsVotes(Votes, t)
    BY <1>3, <1>4 DEF HasRow, CountsVotes
  <1>6. t.producers = Votes.producers
    BY <1>3 DEF HasRow
  <1>7. CountsVotes(Votes, u) /\ producers' = u.producers
    <2>1. CASE Revotes(t, u, v, row.proxy, row.producers)
      BY <1>3, <1>6, <2>1 DEF Revotes, CountsVotes, Become
    <2>2. CASE u = t
      BY <1>3, <1>5, <2>2 DEF Become
    <2> QED BY <1>3, <2>1, <2>2
  <1> QED BY <1>2, <1>7, CountSharesPay

LEMMA RegProxyPay ==
    ASSUME VotesInv, PayInv, NEW v \in Accounts, NEW on \in BOOLEAN, PayRegProxy(v, on)
    PROVE  PayInv'
  <1>1. RegProxy(v, on) /\ Votes.counts = {}
    BY DEF PayRegProxy, Votes
  <1>2. CASE v \in DOMAIN voters
    <2>1. PICK t, u : t = SetProxy(Votes, v, on) /\ u = Propagate(t, v)
      OBVIOUS
    <2>2. Become(u) /\ HasRow(Votes, t, v, AsProxy(voters[v], on)) /\ Reweighs(t, u)
      BY <1>1, <1>2, <2>1, RegProxySteps DEF VotesInv
    <2>3. CountShares(u.counts)
      BY <1>2, <2>1 DEF PayRegProxy, SetProxy
    <2>4. CountsVotes(Votes, u) /\ producers' = u.producers
      BY <2>2 DEF HasRow, Reweighs, CountsVotes, Become
    <2> QED BY <2>3, <2>4, CountSharesPay
  <1>3. CASE v \notin DOMAIN voters
    <2>1. PICK t : t = AddVoter(Votes, v, AsProxy(NewVoter, on))
      OBVIOUS
    <2>2. Become(t) /\ HasRow(Votes, t, v, AsProxy(NewVoter, on))
      BY <1>1, <1>3, <2>1, RegProxySteps DEF VotesInv
    <2>3. t.counts = {} /\ CountShares({})
      BY <1>1, <1>3, <2>2 DEF HasRow, PayRegProxy
    <2>4. CountsVotes(Votes, t) /\ producers' = t.producers
      BY <2>2 DEF HasRow, CountsVotes, Become
    <2> QED BY <2>3, <2>4, CountSharesPay
  <1> QED BY <1>2, <1>3

\* Registration: a row from before the shares gets a share, and its votes are
\* added to the rate.
LEMMA RegProducerPay ==
    ASSUME PayInv, NEW p \in Candidates, PayRegProducer(p)
    PROVE  PayInv'
  <1> DEFINE D == DOMAIN producers2
             claim == IF p \in DOMAIN producers /\ last_claim[p] # 0 THEN last_claim[p] ELSE now
  <1>1. /\ now' = now
        /\ last_claim' = Row(last_claim, p, claim)
        /\ producers2' = IF p \in D THEN producers2 ELSE Row(producers2, p, NewShare)
        /\ producers' = IF p \in DOMAIN producers THEN [producers EXCEPT ![p].is_active = TRUE]
                        ELSE Row(producers, p, [is_active |-> TRUE, total_votes |-> 0])
        /\ IF p \in DOMAIN producers \ D
           THEN UpdateTotalVotepayShare(0, producers[p].total_votes)
           ELSE UNCHANGED <<total_share, change_rate, state_update>>
    BY DEF PayRegProducer, RegProducer
  <1>2. /\ now \in Nat /\ state_update \in Nat /\ ClaimWindow \in Nat \ {0} /\ now \in ClaimWindow..MaxTime
        /\ IsFiniteSet(D) /\ D \subseteq DOMAIN producers /\ DOMAIN last_claim = DOMAIN producers
        /\ \A q \in D : /\ producers[q].total_votes \in Nat /\ last_claim[q] \in Nat
                        /\ producers2[q].share \in Nat /\ producers2[q].updated \in 0..now
                        /\ RateOf(q) \in Nat /\ Accrued(q) \in Nat
        /\ \A q \in DOMAIN producers : /\ last_claim[q] \in Nat /\ (last_claim[q] = 0 <=> q \notin D)
                                       /\ producers[q].total_votes \in Nat
    BY ShareTypes DEF PayInv, PayTypes
  <1>3. PICK old \in Nat : old = IF p \in DOMAIN producers THEN producers[p].total_votes ELSE 0
    BY <1>2
  <1>4. /\ DOMAIN producers' = DOMAIN producers \cup {p}
        /\ \A q \in DOMAIN producers \ {p} : producers'[q] = producers[q]
        /\ producers'[p].total_votes = old
    BY <1>1, <1>3 DEF Row
  <1>5. /\ DOMAIN last_claim' = DOMAIN producers \cup {p}
        /\ \A q \in DOMAIN producers \ {p} : last_claim'[q] = last_claim[q]
        /\ last_claim'[p] = claim
    BY <1>1, <1>2 DEF Row
  <1>6. claim \in Nat \ {0} /\ (p \in D => claim = last_claim[p]) /\ (p \notin D => claim = now)
    BY <1>2
  <1>7. /\ DOMAIN producers2' = D \cup {p}
        /\ \A q \in D : producers2'[q] = producers2[q]
        /\ p \notin D => producers2'[p].share = 0 /\ producers2'[p].updated = now
    BY <1>1 DEF Row, NewShare
  <1>8. /\ change_rate \in Nat /\ total_share \in Nat /\ state_update \in 0..now
        /\ change_rate = SumFunction(Rates)
        /\ total_share + change_rate * (now - state_update) = SumFunction(Accruals)
    BY DEF PayInv, PayTypes, TotalIsSumOfShares, Accruals
  <1>9. PICK grown \in Nat : grown = change_rate * (now - state_update)
    <2>1. \A a \in Nat : \A n, u \in Int : u \in 0..n => a * (n - u) \in Nat
      OBVIOUS
    <2> QED BY <1>2, <1>8, <2>1
  <1> HIDE DEF claim
  <1>10. ASSUME NEW q \in D
         PROVE  RateOf(q)' = RateOf(q) /\ Accrued(q)' = Accrued(q)
    <2>1. producers'[q].total_votes = producers[q].total_votes
      BY <1>2, <1>3, <1>4
    <2>2. last_claim'[q] = last_claim[q] /\ producers2'[q] = producers2[q]
      BY <1>2, <1>5, <1>6, <1>7
    <2> QED BY <1>1, <2>1, <2>2 DEF RateOf, Accrued, TakesPart, UpdatedAfter
  <1>11. ASSUME p \notin D
         PROVE  RateOf(p)' = old /\ Accrued(p)' = 0
    <2>1. last_claim'[p] = now /\ producers2'[p].updated = now /\ producers2'[p].share = 0
      BY <1>5, <1>6, <1>7, <1>11
    <2>2. ~UpdatedAfter(p)'
      BY <1>2, <2>1 DEF UpdatedAfter
    <2>3. \A x \in Nat : x * (now' - now) = 0
      BY <1>1, <1>2
    <2> QED BY <1>4, <2>1, <2>2, <2>3 DEF RateOf, Accrued, TakesPart
  <1>12. /\ DOMAIN Rates = D /\ DOMAIN Accruals = D
         /\ DOMAIN Rates' = D \cup {p} /\ DOMAIN Accruals' = D \cup {p}
         /\ \A q \in D : /\ Rates[q] \in Int /\ Accruals[q] \in Int
                         /\ Rates'[q] = Rates[q] /\ Accruals'[q] = Accruals[q]
         /\ p \notin D => Rates'[p] = old /\ Accruals'[p] = 0
    BY <1>2, <1>7, <1>10, <1>11 DEF Rates, Accruals
  <1>13. Moves(SumFunction(Rates), SumFunction(Rates'), At(Rates, p), At(Rates', p))
    <2>1. DOMAIN Rates \ {p} = DOMAIN Rates' \ {p} /\ \A q \in DOMAIN Rates' : Rates'[q] \in Int
      BY <1>12
    <2> HIDE DEF D
    <2> QED BY <1>2, <1>12, <2>1, SumChanges DEF D
  <1>14. Moves(SumFunction(Accruals), SumFunction(Accruals'), At(Accruals, p), At(Accruals', p))
    <2>1. DOMAIN Accruals \ {p} = DOMAIN Accruals' \ {p} /\ \A q \in DOMAIN Accruals' : Accruals'[q] \in Int
      BY <1>12
    <2> HIDE DEF D
    <2> QED BY <1>2, <1>12, <2>1, SumChanges DEF D
  <1>15. /\ SumFunction(Rates') = change_rate + IF p \in D THEN 0 ELSE old
         /\ SumFunction(Accruals') = total_share + grown
    BY <1>8, <1>9, <1>12, <1>13, <1>14 DEF Moves, At
  <1>16. /\ total_share' \in Nat /\ change_rate' \in Nat /\ state_update' \in 0..now'
         /\ change_rate' = SumFunction(Rates')
         /\ total_share' + change_rate' * (now' - state_update') = SumFunction(Accruals')
    <2>1. CASE p \in DOMAIN producers \ D
      <3>1. /\ total_share' = Clamped(total_share, grown + 0)
            /\ change_rate' = Clamped(change_rate, old)
            /\ state_update' = now
        BY <1>1, <1>3, <1>9, <2>1 DEF UpdateTotalVotepayShare
      <3>2. total_share' = total_share + grown /\ change_rate' = change_rate + old
        BY <1>8, <3>1 DEF Clamped
      <3>3. \A x \in Nat : x * (now' - state_update') = 0
        BY <1>1, <1>2, <3>1
      <3>4. change_rate' \in Nat /\ total_share' \in Nat
        BY <1>8, <3>2
      <3>5. change_rate' * (now' - state_update') = 0
        BY <3>3, <3>4
      <3>6. state_update' \in 0..now'
        BY <1>1, <1>2, <3>1
      <3> QED BY <1>15, <2>1, <3>2, <3>4, <3>5, <3>6
    <2>2. CASE p \notin DOMAIN producers \ D
      <3>1. total_share' = total_share /\ change_rate' = change_rate /\ state_update' = state_update
        BY <1>1, <2>2
      <3>2. p \in D \/ old = 0
        BY <1>3, <2>2
      <3> QED BY <1>1, <1>8, <1>9, <1>15, <3>1, <3>2
    <2> QED BY <2>1, <2>2
  <1>17. PayTypes'
    <2>1. \A q \in DOMAIN producers' : producers'[q].total_votes \in Nat
      BY <1>2, <1>4
    <2>2. \A q \in DOMAIN producers2' : producers2'[q].share \in Nat /\ producers2'[q].updated \in 0..now'
      BY <1>1, <1>2, <1>7
    <2>3. \A q \in DOMAIN last_claim' :
              last_claim'[q] \in Nat /\ (last_claim'[q] = 0 <=> q \notin DOMAIN producers2')
      BY <1>2, <1>5, <1>6, <1>7
    <2>4. DOMAIN producers' \subseteq Candidates
      BY <1>4 DEF PayInv, PayTypes
    <2> QED BY <1>1, <1>2, <1>4, <1>5, <1>7, <1>16, <2>1, <2>2, <2>3, <2>4 DEF PayTypes
  <1> QED BY <1>16, <1>17 DEF PayInv, TotalIsSumOfShares, Accruals

LEMMA UnregProdPay ==
    ASSUME PayInv, NEW p \in Candidates, PayUnregProd(p)
    PROVE  PayInv'
  <1>1. /\ p \in DOMAIN producers /\ producers' = [producers EXCEPT ![p].is_active = FALSE]
        /\ UNCHANGED <<last_claim, producers2, total_share, change_rate, state_update, now>>
    BY DEF PayUnregProd, UnregProd, payVars
  <1>2. /\ DOMAIN producers' = DOMAIN producers
        /\ \A q \in DOMAIN producers : producers'[q].total_votes = producers[q].total_votes
    BY <1>1
  <1>3. \A q \in DOMAIN producers2 : RateOf(q)' = RateOf(q) /\ Accrued(q)' = Accrued(q)
    BY <1>1, <1>2 DEF RateOf, Accrued, TakesPart, UpdatedAfter, PayInv, PayTypes
  <1>4. Rates' = Rates /\ Accruals' = Accruals
    BY <1>1, <1>3 DEF Rates, Accruals
  <1>5. PayTypes'
    BY <1>1, <1>2 DEF PayInv, PayTypes
  <1> QED BY <1>1, <1>4, <1>5 DEF PayInv, TotalIsSumOfShares, Accruals

LEMMA SamePay ==
    ASSUME PayInv, UNCHANGED <<producers, payVars, now>>
    PROVE  PayInv'
  <1>1. UNCHANGED <<producers, last_claim, producers2, total_share, change_rate, state_update, now>>
    BY DEF payVars
  <1>2. Rates' = Rates /\ Accruals' = Accruals
    BY <1>1 DEF Rates, RateOf, Accruals, Accrued, TakesPart, UpdatedAfter
  <1>3. PayTypes'
    BY <1>1 DEF PayInv, PayTypes
  <1> QED BY <1>1, <1>2, <1>3 DEF PayInv, TotalIsSumOfShares, Accruals

\* A unit of time adds its rate to every share.
LEMMA TickPay ==
    ASSUME PayInv, Tick
    PROVE  PayInv'
  <1> DEFINE D == DOMAIN producers2
  <1>1. /\ now' = now + 1 /\ now < MaxTime
        /\ UNCHANGED <<producers, last_claim, producers2, total_share, change_rate, state_update>>
    BY DEF Tick, payVars
  <1>2. /\ now \in Nat /\ state_update \in Nat /\ IsFiniteSet(D) /\ now \in ClaimWindow..MaxTime
        /\ state_update \in 0..now
        /\ \A q \in D : /\ producers[q].total_votes \in Nat /\ last_claim[q] \in Nat
                        /\ producers2[q].share \in Nat /\ producers2[q].updated \in 0..now
                        /\ RateOf(q) \in Nat /\ Accrued(q) \in Nat
    BY ShareTypes DEF PayInv, PayTypes
  <1>3. ASSUME NEW q \in D
        PROVE  RateOf(q)' = RateOf(q) /\ Accrued(q)' = Accrued(q) + RateOf(q)
    <2>1. UpdatedAfter(q)' <=> UpdatedAfter(q)
      BY <1>1 DEF UpdatedAfter
    <2>2. \A a \in Nat : \A n, u \in Int : a * ((n + 1) - u) = a * (n - u) + a
      OBVIOUS
    <2>3. producers[q].total_votes * (now' - producers2[q].updated)
              = producers[q].total_votes * (now - producers2[q].updated) + producers[q].total_votes
      <3>1. PICK a \in Nat, u \in Int : a = producers[q].total_votes /\ u = producers2[q].updated
        BY <1>2
      <3>2. PICK n \in Int : n = now /\ now' = n + 1
        BY <1>1, <1>2
      <3>3. a * ((n + 1) - u) = a * (n - u) + a
        BY <2>2
      <3> QED BY <3>1, <3>2, <3>3
    <2>4. producers[q].total_votes * (now - producers2[q].updated) \in Int
      BY <1>2
    <2> QED BY <1>1, <1>2, <2>1, <2>3, <2>4 DEF RateOf, Accrued, TakesPart
  <1>4. /\ Rates' = Rates /\ DOMAIN Rates = D /\ DOMAIN Accruals = D /\ DOMAIN Accruals' = D
        /\ \A q \in D : Rates[q] \in Int /\ Accruals[q] \in Int /\ Accruals'[q] = Accruals[q] + Rates[q]
    BY <1>1, <1>2, <1>3 DEF Rates, Accruals
  <1>5. SumFunctionOnSet(Accruals', D) = SumFunctionOnSet(Accruals, D) + SumFunctionOnSet(Rates, D)
    <2> HIDE DEF D
    <2> QED BY <1>2, <1>4, SumPlus
  <1>6. SumFunction(Accruals') = SumFunction(Accruals) + SumFunction(Rates)
    BY <1>4, <1>5 DEF SumFunction
  <1>7. /\ change_rate \in Nat /\ total_share \in Nat /\ change_rate = SumFunction(Rates)
        /\ total_share + change_rate * (now - state_update) = SumFunction(Accruals)
    BY DEF PayInv, PayTypes, TotalIsSumOfShares, Accruals
  <1>8. change_rate * (now' - state_update) = change_rate * (now - state_update) + change_rate
        /\ change_rate * (now - state_update) \in Int
    <2>1. \A a \in Nat : \A n, u \in Int : a * ((n + 1) - u) = a * (n - u) + a
      OBVIOUS
    <2> QED BY <1>1, <1>2, <1>7, <2>1
  <1>9. total_share' + change_rate' * (now' - state_update') = SumFunction(Accruals')
    BY <1>1, <1>6, <1>7, <1>8
  <1>10. PayTypes'
    <2>1. \A q \in D : producers2'[q].updated \in 0..now'
      BY <1>1, <1>2
    <2>2. now' \in ClaimWindow..MaxTime /\ state_update' \in 0..now'
      BY <1>1, <1>2, VotePayConstants
    <2> QED BY <1>1, <2>1, <2>2 DEF PayInv, PayTypes
  <1> QED BY <1>1, <1>4, <1>7, <1>9, <1>10 DEF PayInv, TotalIsSumOfShares, Accruals

LEMMA PayVotesStep == VotesInv /\ PayTypes /\ [PayNext]_vars => VotesInv'
  <1> SUFFICES ASSUME VotesInv, PayTypes, [PayNext]_vars PROVE VotesInv'
    OBVIOUS
  <1>1. CASE Tick
    <2>1. now + 1 \in ClaimWindow..MaxTime
      BY <1>1, VotePayConstants DEF Tick, PayTypes
    <2>2. week' \in Weeks
      BY <1>1, <2>1, VotePayConstants DEF Tick
    <2> QED BY <1>1, <2>2, SameVotesInv DEF Tick
  <1>2. CASE UNCHANGED vars
    BY <1>2, SameVotesInv DEF vars, votingVars, VotesInv
  <1> QED BY <1>1, <1>2, VoteProducerInv, ChangeStakeInv, RegProxyInv, ProducerInv
          DEF PayNext, PayVoteProducer, PayChangeStake, PayRegProxy, PayRegProducer, PayUnregProd

LEMMA PayStep == VotesInv /\ PayInv /\ [PayNext]_vars => VotesInv' /\ PayInv'
  <1> SUFFICES ASSUME VotesInv, PayInv, [PayNext]_vars PROVE VotesInv' /\ PayInv'
    OBVIOUS
  <1>1. VotesInv'
    BY PayVotesStep DEF PayInv
  <1>2. CASE UNCHANGED vars
    BY <1>1, <1>2, SamePay DEF vars, votingVars
  <1> QED BY <1>1, <1>2, VoteProducerPay, ChangeStakePay, RegProxyPay, RegProducerPay, UnregProdPay,
             TickPay DEF PayNext

LEMMA PayInitially ==
    ASSUME LegacyClaims \subseteq {0}, PayInit
    PROVE  VotesInv /\ PayInv
  <1>1. ClaimWindow \in ClaimWindow..MaxTime /\ week \in Weeks
    BY VotePayConstants DEF PayInit
  <1>2. VotesInv
    BY <1>1, NoVotes, VotePayConstants DEF PayInit
  <1>3. PayTypes
    <2>1. /\ DOMAIN producers = Legacy /\ DOMAIN producers2 = {}
          /\ \A p \in Legacy : producers[p].total_votes = 0
          /\ last_claim \in [Legacy -> LegacyClaims]
          /\ total_share = 0 /\ change_rate = 0 /\ state_update = 0 /\ now = ClaimWindow
      BY DEF PayInit
    <2>2. \A p \in Legacy : last_claim[p] = 0
      BY <2>1
    <2>3. now \in ClaimWindow..MaxTime /\ state_update \in 0..now
      BY <1>1, <2>1, VotePayConstants
    <2> QED BY <2>1, <2>2, <2>3, VotePayConstants DEF PayTypes
  <1>4. DOMAIN Rates = {} /\ DOMAIN Accruals = {}
    BY DEF PayInit, Rates, Accruals
  <1>5. SumFunction(Rates) = 0 /\ SumFunction(Accruals) = 0
    BY <1>4, SumOfNone
  <1>6. total_share = 0 /\ change_rate = 0 /\ now - state_update \in Int
    BY VotePayConstants DEF PayInit
  <1> QED BY <1>2, <1>3, <1>5, <1>6 DEF PayInv, TotalIsSumOfShares, Accruals

\* voting.cpp keeps the rate of the total apart from the votes it is the rate
\* of: it is the sum of the votes of exactly the producers that take part,
\* whoever lapses, votes or registers, if no row from before the shares
\* brings a time of its last claim.
THEOREM RateOfVotesCorrect ==
    ASSUME LegacyClaims \subseteq {0}
    PROVE  PaySpec => []RateIsOfVotes
  <1>1. PayInit => VotesInv /\ PayInv
    BY PayInitially
  <1>2. PayInv => RateIsOfVotes
    BY RateSum DEF PayInv, RateIsOfVotes
  <1> QED BY <1>1, <1>2, PayStep, PTL DEF PaySpec

\* The total is not summed up but grows by that rate, and it is the sum of
\* the shares whenever and in whatever order they are updated.
THEOREM TotalCorrect ==
    ASSUME LegacyClaims \subseteq {0}
    PROVE  PaySpec => []TotalIsSumOfShares
  <1>1. PayInit => VotesInv /\ PayInv
    BY PayInitially
  <1>2. PayInv => TotalIsSumOfShares
    BY DEF PayInv
  <1> QED BY <1>1, <1>2, PayStep, PTL DEF PaySpec

-----------------------------------------------------------------------------
(***************************************************************************)
(* The order of the two times of a producer matters: a new registration    *)
(* may put the last claim after an update that already was past the old    *)
(* one, and the share counts again from then on.                           *)
(***************************************************************************)
SharesInv ==
    /\ now \in Nat
    /\ DOMAIN producers2 \subseteq DOMAIN last_claim
    /\ \A p \in DOMAIN producers2 : producers2[p].updated \in 0..now
    /\ LapsedHaveNoShare

-----------------------------------------------------------------------------
\* Counting votes: the share is lost at the first count after the threshold,
\* and nothing accrues from the second on.
LEMMA CountSharesInv ==
    ASSUME SharesInv, NEW counts, CountShares(counts)
    PROVE  SharesInv'
  <1> DEFINE P == (UNION counts) \cap DOMAIN producers2
  <1>1. /\ now' = now /\ last_claim' = last_claim
        /\ producers2' = [p \in DOMAIN producers2 |->
                IF p \in P THEN [share |-> IF Lapses(p) THEN 0 ELSE Accrued(p), updated |-> now]
                           ELSE producers2[p]]
    BY DEF CountShares
  <1> HIDE DEF P
  <1>2. ASSUME NEW p \in DOMAIN producers2, p \in P
        PROVE  /\ producers2'[p].updated \in 0..now'
               /\ UpdatedAfter(p)' => producers2'[p].share = 0
    <2>1. producers2'[p] = [share |-> IF Lapses(p) THEN 0 ELSE Accrued(p), updated |-> now]
      BY <1>1, <1>2
    <2>2. producers2'[p].updated = now /\ producers2'[p].share = IF Lapses(p) THEN 0 ELSE Accrued(p)
      BY <2>1
    <2>3. ASSUME UpdatedAfter(p)'
          PROVE  producers2'[p].share = 0
      <3>1. Crossed(p)
        BY <1>1, <2>2, <2>3 DEF UpdatedAfter, Crossed
      <3>2. CASE Lapses(p)
        BY <2>2, <3>2
      <3>3. CASE ~Lapses(p)
        <4>1. UpdatedAfter(p)
          BY <3>1, <3>3 DEF Lapses
        <4>2. producers2[p].share = 0
          BY <4>1 DEF SharesInv, LapsedHaveNoShare
        <4>3. Accrued(p) = 0
          BY <4>1, <4>2 DEF Accrued
        <4> QED BY <2>2, <3>3, <4>3
      <3> QED BY <3>2, <3>3
    <2> QED BY <1>1, <2>2, <2>3 DEF SharesInv
  <1>3. ASSUME NEW p \in DOMAIN producers2, p \notin P
        PROVE  /\ producers2'[p].updated \in 0..now'
               /\ UpdatedAfter(p)' => producers2'[p].share = 0
    BY <1>1, <1>3 DEF SharesInv, LapsedHaveNoShare, UpdatedAfter
  <1> QED BY <1>1, <1>2, <1>3 DEF SharesInv, LapsedHaveNoShare

\* Registration: a row made now has no share; one that is there keeps it, and
\* has not been updated past a claim of now.
LEMMA RegProducerInv ==
    ASSUME SharesInv, NEW p, PayRegProducer(p)
    PROVE  SharesInv'
  <1> DEFINE claim == IF p \in DOMAIN producers /\ last_claim[p] # 0 THEN last_claim[p] ELSE now
  <1>1. /\ now' = now
        /\ last_claim' = Row(last_claim, p, claim)
        /\ producers2' = IF p \in DOMAIN producers2 THEN producers2 ELSE Row(producers2, p, NewShare)
    BY DEF PayRegProducer
  <1>2. /\ last_claim'[p] = claim
        /\ DOMAIN last_claim' = DOMAIN last_claim \cup {p}
        /\ \A q \in DOMAIN last_claim : q # p => last_claim'[q] = last_claim[q]
    BY <1>1 DEF Row
  <1>3. NewShare.share = 0 /\ NewShare.updated = now
    BY DEF NewShare
  <1>4. CASE p \notin DOMAIN producers2
    <2>1. /\ DOMAIN producers2' = DOMAIN producers2 \cup {p}
          /\ \A q \in DOMAIN producers2' : producers2'[q] = IF q = p THEN NewShare ELSE producers2[q]
      BY <1>1, <1>4 DEF Row
    <2> QED BY <1>1, <1>2, <1>3, <2>1 DEF SharesInv, LapsedHaveNoShare, UpdatedAfter
  <1>5. CASE p \in DOMAIN producers2
    <2>1. producers2' = producers2
      BY <1>1, <1>5
    <2>2. ASSUME UpdatedAfter(p)'
          PROVE  producers2[p].share = 0
      <3>1. CASE claim = last_claim[p]
        BY <1>2, <1>5, <2>1, <2>2, <3>1 DEF SharesInv, LapsedHaveNoShare, UpdatedAfter
      <3>2. CASE claim = now
        <4>1. producers2[p].updated \in 0..now
          BY <1>5 DEF SharesInv
        <4>2. now + ClaimWindow <= producers2[p].updated
          BY <1>2, <2>1, <2>2, <3>2 DEF UpdatedAfter
        <4> QED BY <4>1, <4>2, VotePayConstants DEF SharesInv
      <3> QED BY <3>1, <3>2
    <2>3. ASSUME NEW q \in DOMAIN producers2, q # p, UpdatedAfter(q)'
          PROVE  producers2[q].share = 0
      BY <1>2, <2>1, <2>3 DEF SharesInv, LapsedHaveNoShare, UpdatedAfter
    <2> HIDE DEF claim
    <2> QED BY <1>1, <1>2, <1>5, <2>1, <2>2, <2>3 DEF SharesInv, LapsedHaveNoShare
  <1> QED BY <1>4, <1>5

LEMMA SharesStep == SharesInv /\ [PayNext]_vars => SharesInv'
  <1> SUFFICES ASSUME SharesInv, [PayNext]_vars PROVE SharesInv'
    OBVIOUS
  <1>1. ASSUME NEW v, NEW proxy, NEW prods, PayVoteProducer(v, proxy, prods)
        PROVE  SharesInv'
    BY <1>1, CountSharesInv DEF PayVoteProducer
  <1>2. ASSUME NEW v, NEW on, PayRegProxy(v, on)
        PROVE  SharesInv'
    BY <1>2, CountSharesInv DEF PayRegProxy
  <1>3. ASSUME NEW v, NEW change, PayChangeStake(v, change)
        PROVE  SharesInv'
    BY <1>3, CountSharesInv DEF PayChangeStake
  <1>4. ASSUME NEW p, PayRegProducer(p)
        PROVE  SharesInv'
    BY <1>4, RegProducerInv
  <1>5. ASSUME NEW p, PayUnregProd(p)
        PROVE  SharesInv'
    BY <1>5 DEF PayUnregProd, payVars, SharesInv, LapsedHaveNoShare, UpdatedAfter
  <1>6. CASE Tick
    BY <1>6 DEF Tick, payVars, SharesInv, LapsedHaveNoShare, UpdatedAfter
  <1>7. CASE UNCHANGED vars
    BY <1>7 DEF vars, payVars, SharesInv, LapsedHaveNoShare, UpdatedAfter
  <1> QED BY <1>1, <1>2, <1>3, <1>4, <1>5, <1>6, <1>7 DEF PayNext

\* voting.cpp: "only reset votepay_share once after threshold".  Once is
\* enough: a producer past the threshold never has a share again unless it
\* takes part again.
THEOREM LapsedCorrect == PaySpec => []LapsedHaveNoShare
  <1>1. PayInit => SharesInv
    BY VotePayConstants DEF PayInit, SharesInv, LapsedHaveNoShare
  <1>2. SharesInv => LapsedHaveNoShare
    BY DEF SharesInv
  <1> QED BY <1>1, <1>2, SharesStep, PTL DEF PaySpec
=============================================================================
