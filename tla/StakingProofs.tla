---------------------------- MODULE StakingProofs ----------------------------
(***************************************************************************)
(* Staking implements Voting; the tokens of eosio.stake are those that are *)
(* delegated and those that wait to be refunded; bandwidth and votes are   *)
(* what is delegated; a registered producer keeps its minimal stake; and   *)
(* no scheduled refund runs too early: for any accounts, amounts, delay    *)
(* and range of the unsigned integers.                                     *)
(***************************************************************************)
EXTENDS Staking, Sums

(***************************************************************************)
(* DeferredInTime compares two tables that one action writes at different  *)
(* times: a restake sends the deferred refund anew but keeps the time of   *)
(* the row.  What makes it inductive is that no row is of the future.      *)
(***************************************************************************)
RefundTimes ==
    /\ now \in Nat
    /\ \A a \in DOMAIN refunds : refunds[a].time \in 0..now
    /\ \A a \in DOMAIN deferred : deferred[a] \in Nat
    /\ DeferredInTime

-----------------------------------------------------------------------------
\* The one place where refunds are made and scheduled.
LEMMA ScheduleRefundTimes ==
    ASSUME RefundTimes, NEW a, NEW left, NEW time \in 0..now, now' = now,
           ScheduleRefund(a, left, time)
    PROVE  RefundTimes'
  <1> USE StakingConstants
  <1>1. CASE left = None
    <2>1. /\ DOMAIN refunds' = DOMAIN refunds \ {a}
          /\ \A x \in DOMAIN refunds' : refunds'[x] = refunds[x]
          /\ DOMAIN deferred' = DOMAIN deferred \ {a}
          /\ \A x \in DOMAIN deferred' : deferred'[x] = deferred[x]
      BY <1>1 DEF ScheduleRefund, Restrict
    <2> QED BY <2>1 DEF RefundTimes, DeferredInTime
  <1>2. CASE left # None
    <2> DEFINE row == [net |-> left.net, cpu |-> left.cpu, time |-> time]
    <2>1. refunds' = V!Row(refunds, a, row) /\ deferred' = V!Row(deferred, a, now + RefundDelay)
      BY <1>2 DEF ScheduleRefund
    <2>2. row.time = time
      OBVIOUS
    <2> HIDE DEF row
    <2>3. /\ DOMAIN refunds' = DOMAIN refunds \cup {a}
          /\ \A x \in DOMAIN refunds' : refunds'[x] = IF x = a THEN row ELSE refunds[x]
          /\ DOMAIN deferred' = DOMAIN deferred \cup {a}
          /\ \A x \in DOMAIN deferred' :
                 deferred'[x] = IF x = a THEN now + RefundDelay ELSE deferred[x]
      BY <2>1 DEF V!Row
    <2>4. ASSUME NEW x \in DOMAIN refunds'
          PROVE  refunds'[x].time \in 0..now
      BY <2>2, <2>3 DEF RefundTimes
    <2>5. ASSUME NEW x \in DOMAIN deferred'
          PROVE  /\ deferred'[x] \in Nat
                 /\ x \in DOMAIN refunds' => deferred'[x] >= refunds'[x].time + RefundDelay
      <3>1. CASE x = a
        BY <2>2, <2>3, <3>1 DEF RefundTimes
      <3>2. CASE x # a
        BY <2>3, <3>2 DEF RefundTimes, DeferredInTime
      <3> QED BY <3>1, <3>2
    <2> QED BY <2>4, <2>5 DEF RefundTimes, DeferredInTime
  <1> QED BY <1>1, <1>2

\* Paying a refund erases its row.
LEMMA PayRefundTimes ==
    ASSUME RefundTimes, NEW owner, now' = now, PayRefund(owner),
           DOMAIN deferred' \subseteq DOMAIN deferred,
           \A a \in DOMAIN deferred' : deferred'[a] = deferred[a]
    PROVE  RefundTimes'
  <1>1. /\ DOMAIN refunds' = DOMAIN refunds \ {owner}
        /\ \A x \in DOMAIN refunds' : refunds'[x] = refunds[x]
    BY DEF PayRefund, Restrict
  <1> QED BY <1>1 DEF RefundTimes, DeferredInTime

\* Nothing scheduled is changed, but some of it may be cancelled.
LEMMA CancelTimes ==
    ASSUME RefundTimes, now' = now, refunds' = refunds,
           DOMAIN deferred' \subseteq DOMAIN deferred,
           \A a \in DOMAIN deferred' : deferred'[a] = deferred[a]
    PROVE  RefundTimes'
  BY DEF RefundTimes, DeferredInTime

\* All changes of stake.
LEMMA ChangebwTimes ==
    ASSUME RefundTimes, NEW from, NEW receiver, NEW d, NEW transfer,
           Changebw(from, receiver, d, transfer)
    PROVE  RefundTimes'
  <1> DEFINE owner == IF transfer THEN receiver ELSE from
             self == ~transfer /\ from = receiver
             r == Refunded(owner)
             uses == self \/ Total(d) < 0
             time == IF Total(d) < 0 \/ r = None THEN now ELSE refunds[owner].time
  <1>1. now' = now /\ ChangeRefund(from, owner, d, self)
    BY DEF Changebw
  <1>2. CASE uses
    <2>1. ScheduleRefund(owner, RefundLeft(r, d), time)
      BY <1>1, <1>2 DEF ChangeRefund
    <2>2. time \in 0..now
      <3>1. CASE Total(d) < 0 \/ r = None
        BY <3>1 DEF RefundTimes
      <3>2. CASE ~(Total(d) < 0 \/ r = None)
        <4>1. owner \in DOMAIN refunds
          BY <3>2 DEF Refunded
        <4> QED BY <3>2, <4>1 DEF RefundTimes
      <3> QED BY <3>1, <3>2
    <2> HIDE DEF owner, r, time
    <2> QED BY <1>1, <2>1, <2>2, ScheduleRefundTimes
  <1>3. CASE ~uses
    <2>1. deferred' = Restrict(deferred, DOMAIN deferred \ {owner}) /\ refunds' = refunds
      BY <1>1, <1>3 DEF ChangeRefund
    <2> QED BY <1>1, <2>1, CancelTimes DEF Restrict
  <1> QED BY <1>2, <1>3

-----------------------------------------------------------------------------
LEMMA TimesStep == RefundTimes /\ [Next]_vars => RefundTimes'
  <1> SUFFICES ASSUME RefundTimes, [Next]_vars PROVE RefundTimes'
    OBVIOUS
  <1>1. ASSUME NEW from \in Accounts, NEW receiver \in Accounts, NEW q \in Quantities,
               NEW transfer \in BOOLEAN, Delegatebw(from, receiver, q, transfer)
        PROVE  RefundTimes'
    BY <1>1, ChangebwTimes DEF Delegatebw
  <1>2. ASSUME NEW from \in Accounts, NEW receiver \in Accounts, NEW q \in Quantities,
               Undelegatebw(from, receiver, q)
        PROVE  RefundTimes'
    BY <1>2, ChangebwTimes DEF Undelegatebw
  <1>3. ASSUME NEW a \in Accounts, Refund(a)
        PROVE  RefundTimes'
    BY <1>3, PayRefundTimes DEF Refund
  <1>4. ASSUME NEW a \in Accounts, RunDeferred(a)
        PROVE  RefundTimes'
    <2>1. /\ now' = now
          /\ DOMAIN deferred' \subseteq DOMAIN deferred
          /\ \A x \in DOMAIN deferred' : deferred'[x] = deferred[x]
      BY <1>4 DEF RunDeferred, Restrict
    <2>2. CASE PayRefund(a)
      BY <2>1, <2>2, PayRefundTimes
    <2>3. CASE UNCHANGED refunds
      BY <2>1, <2>3, CancelTimes
    <2> QED BY <1>4, <2>2, <2>3 DEF RunDeferred
  <1>5. ASSUME NEW p \in Candidates, RegProducer(p)
        PROVE  RefundTimes'
    BY <1>5 DEF RegProducer, bandwidth, RefundTimes, DeferredInTime
  <1>6. CASE Vote
    BY <1>6 DEF Vote, bandwidth, RefundTimes, DeferredInTime
  <1>7. CASE Tick
    BY <1>7 DEF Tick, bandwidth, RefundTimes, DeferredInTime
  <1>8. CASE UNCHANGED vars
    BY <1>8 DEF vars, bandwidth, RefundTimes, DeferredInTime
  <1> QED BY <1>1, <1>2, <1>3, <1>4, <1>5, <1>6, <1>7, <1>8 DEF Next

\* No scheduled refund runs before its refund is available, however often
\* changebw sends it anew and keeps the time of the request.
THEOREM DeferredCorrect == Spec => []DeferredInTime
  <1>1. Init => RefundTimes
    BY DEF Init, RefundTimes, DeferredInTime
  <1>2. RefundTimes => DeferredInTime
    BY DEF RefundTimes
  <1> QED BY <1>1, <1>2, TimesStep, PTL DEF Spec

-----------------------------------------------------------------------------
\* A change of stake by changebw is one of Voting, of the stake of the owner.
LEMMA ChangebwVotes ==
    ASSUME NEW from \in Accounts, NEW receiver \in Accounts, NEW d, NEW transfer \in BOOLEAN,
           Changebw(from, receiver, d, transfer),
           Total(d) \in StakeChanges, Total(d) < 0 => activated
    PROVE  V!Next
  <1> DEFINE owner == IF transfer THEN receiver ELSE from
  <1>1. /\ V!MayChangeStake(V!Votes, owner, Total(d))
        /\ V!Become(V!VotingPower(V!Votes, owner, Total(d)))
        /\ UNCHANGED <<voted, week>>
    BY DEF Changebw
  <1>2. owner \in Accounts
    OBVIOUS
  <1> HIDE DEF owner
  <1>3. V!ChangeStake(owner, Total(d))
    BY <1>1 DEF V!ChangeStake
  <1> QED BY <1>2, <1>3 DEF V!Next

\* Every step of Staking is one of Voting or leaves the votes alone.
LEMMA VotesStep == [Next]_vars => [V!Next]_(V!votingVars)
  <1> SUFFICES ASSUME [Next]_vars PROVE V!Next \/ UNCHANGED votes
    BY DEF V!votingVars, votes
  <1>1. ASSUME NEW from \in Accounts, NEW receiver \in Accounts, NEW q \in Quantities,
               NEW transfer \in BOOLEAN, Delegatebw(from, receiver, q, transfer)
        PROVE  V!Next
    <2>1. Total(q) \in StakeChanges /\ ~(Total(q) < 0)
      <3>1. q.net \in Nat /\ q.cpu \in Nat
        BY StakingConstants
      <3> QED BY <3>1, StakingConstants DEF Total
    <2> QED BY <1>1, <2>1, ChangebwVotes DEF Delegatebw
  <1>2. ASSUME NEW from \in Accounts, NEW receiver \in Accounts, NEW q \in Quantities,
               Undelegatebw(from, receiver, q)
        PROVE  V!Next
    <2>1. Total(Minus(q)) = -Total(q)
      <3>1. q.net \in Nat /\ q.cpu \in Nat
        BY StakingConstants
      <3> QED BY <3>1 DEF Total, Minus
    <2>2. Total(Minus(q)) \in StakeChanges
      BY <2>1, StakingConstants
    <2>3. Changebw(from, receiver, Minus(q), FALSE) /\ activated
      BY <1>2 DEF Undelegatebw
    <2> QED BY <2>2, <2>3, ChangebwVotes
  <1>3. ASSUME NEW a \in Accounts, Refund(a) \/ RunDeferred(a)
        PROVE  UNCHANGED votes
    BY <1>3 DEF Refund, RunDeferred
  <1>4. ASSUME NEW p \in Candidates, RegProducer(p)
        PROVE  V!Next
    BY <1>4 DEF RegProducer, V!Next
  <1>5. CASE Vote
    BY <1>5 DEF Vote, V!Next
  <1>6. CASE Tick \/ UNCHANGED vars
    BY <1>6 DEF Tick, vars
  <1> QED BY <1>1, <1>2, <1>3, <1>4, <1>5, <1>6 DEF Next

\* What delegatebw, undelegatebw, refund and the deferred refund do to the
\* votes is what Voting says: they change the stake of one voter at a time,
\* who is the owner and not the payer, and take nothing back too early.
THEOREM VotingIsImplemented == Spec => ImplementsVoting
  <1>1. Init => V!Init
    BY DEF Init
  <1> QED BY <1>1, VotesStep, PTL DEF Spec, ImplementsVoting, V!Spec

-----------------------------------------------------------------------------
(***************************************************************************)
(* What voting does not change: the stake of the voters, and which         *)
(* producers are registered.  It is shown of each function of voting.cpp   *)
(* that the code of staking calls.                                         *)
(***************************************************************************)
\* The fields of the rows, and of what is voted on.
VoterFields == {"staked", "proxy", "producers", "is_proxy", "last_vote_weight", "proxied_vote_weight"}
VotesFields == {"voters", "producers", "total", "stake", "activated", "counts"}
IsVotes(s) ==
    /\ DOMAIN s = VotesFields
    /\ \A v \in DOMAIN s.voters : DOMAIN s.voters[v] = VoterFields
    /\ \A p \in DOMAIN s.producers : DOMAIN s.producers[p] = {"is_active", "total_votes"}

SameStakes(s, t) ==
    /\ DOMAIN t.voters = DOMAIN s.voters
    /\ \A v \in DOMAIN s.voters : t.voters[v].staked = s.voters[v].staked
    /\ DOMAIN t.producers = DOMAIN s.producers
    /\ \A p \in DOMAIN s.producers : t.producers[p].is_active = s.producers[p].is_active

\* Giving votes to a proxy or to producers.
LEMMA AddProxiedSame ==
    ASSUME NEW s, IsVotes(s), NEW x, NEW delta
    PROVE  IsVotes(V!AddProxied(s, x, delta)) /\ SameStakes(s, V!AddProxied(s, x, delta))
  <1> DEFINE t == [s EXCEPT !.voters[x].proxied_vote_weight = @ + delta]
  <1>1. V!AddProxied(s, x, delta) = t
    BY DEF V!AddProxied
  <1>2. DOMAIN t = VotesFields /\ t.producers = s.producers 
    BY DEF IsVotes, VotesFields
  <1>3. t.voters = [s.voters EXCEPT ![x].proxied_vote_weight = @ + delta]
    BY DEF IsVotes, VotesFields
  <1>4. DOMAIN t.voters = DOMAIN s.voters /\ \A v \in DOMAIN s.voters : DOMAIN t.voters[v] = VoterFields /\ t.voters[v].staked = s.voters[v].staked
    BY <1>3 DEF IsVotes, VoterFields
  <1> QED
    BY <1>1, <1>2, <1>4 DEF IsVotes, SameStakes

LEMMA AddVotesSame ==
    ASSUME NEW s, IsVotes(s), NEW P, NEW delta
    PROVE  IsVotes(V!AddVotes(s, P, delta)) /\ SameStakes(s, V!AddVotes(s, P, delta))
  <1> DEFINE t == V!AddVotes(s, P, delta)
  <1>1. DOMAIN t = VotesFields /\ t.voters = s.voters
    BY DEF V!AddVotes, IsVotes, VotesFields
  <1>2. DOMAIN t.producers = DOMAIN s.producers
    BY DEF V!AddVotes, IsVotes, VotesFields
  <1>3. \A p \in DOMAIN s.producers : DOMAIN t.producers[p] = {"is_active", "total_votes"} /\ t.producers[p].is_active = s.producers[p].is_active
    BY DEF V!AddVotes, IsVotes, VotesFields
  <1> QED
    BY <1>1, <1>2, <1>3 DEF IsVotes, SameStakes

\* t keeps of s what staking is about.
Keeps(s, t) == IsVotes(t) /\ SameStakes(s, t)

LEMMA KeepsMore ==
    ASSUME NEW s, NEW t, NEW u, Keeps(s, t), Keeps(t, u)
    PROVE  Keeps(s, u)
  BY DEF Keeps, SameStakes

LEMMA PropagateOnceKeeps ==
    ASSUME NEW s, IsVotes(s), NEW x
    PROVE  Keeps(s, V!PropagateOnce(s, x).votes)
  <1> DEFINE row == s.voters[x]
             delta == V!VoteWeight(row) - row.last_vote_weight
             large == delta > 1 \/ delta < -1
             t == IF ~large THEN s
                  ELSE IF row.proxy # NoProxy THEN V!AddProxied(s, row.proxy, delta)
                  ELSE V!AddVotes(s, row.producers, [p \in row.producers |-> delta])
             u == [t EXCEPT !.voters[x].last_vote_weight = V!VoteWeight(row)]
  <1>1. V!PropagateOnce(s, x).votes = u
    BY DEF V!PropagateOnce
  <1>2. Keeps(s, t)
    <2>1. Keeps(s, s)
      BY DEF Keeps, SameStakes
    <2> HIDE DEF row, delta, large
    <2> QED BY <2>1, AddProxiedSame, AddVotesSame DEF Keeps
  <1> HIDE DEF t, row
  <1>3. DOMAIN u = VotesFields /\ u.producers = t.producers
        /\ u.voters = [t.voters EXCEPT ![x].last_vote_weight = V!VoteWeight(row)]
    BY <1>2 DEF Keeps, IsVotes, VotesFields
  <1>4. DOMAIN u.voters = DOMAIN t.voters /\ \A v \in DOMAIN t.voters : DOMAIN u.voters[v] = VoterFields /\ u.voters[v].staked = t.voters[v].staked
    BY <1>2, <1>3 DEF Keeps, IsVotes, VoterFields
  <1>5. Keeps(t, u)
    BY <1>2, <1>3, <1>4 DEF Keeps, IsVotes, SameStakes
  <1> QED BY <1>1, <1>2, <1>5, KeepsMore

\* propagate_weight_change as a sequence of calls: the function of Propagate
\* exists, and so is one of those that its definition chooses from.
NextCall(c) == IF c.next = NoProxy THEN c ELSE V!PropagateOnce(c.votes, c.next)
IsCalls(calls, n, s, x) ==
    calls = [i \in 0..n |-> IF i = 0 THEN [votes |-> s, next |-> x] ELSE NextCall(calls[i - 1])]

LEMMA CallsExist ==
    ASSUME NEW s, NEW x, NEW N \in Nat
    PROVE  \E calls : IsCalls(calls, N, s, x)
  <1> DEFINE Good == {n \in 0..N : \E calls : IsCalls(calls, n, s, x)}
  <1>1. 0 \in Good
    <2> DEFINE c == [i \in 0..0 |-> [votes |-> s, next |-> x]]
    <2>1. IsCalls(c, 0, s, x)
      BY DEF IsCalls
    <2> QED BY <2>1
  <1>2. ASSUME NEW n \in 1..N, n - 1 \in Good PROVE n \in Good
    <2>1. PICK c : IsCalls(c, n - 1, s, x)
      BY <1>2
    <2> DEFINE d == [i \in 0..n |-> IF i = n THEN NextCall(c[n - 1]) ELSE c[i]]
    <2>2. \A i \in 0..(n - 1) : d[i] = c[i] 
      OBVIOUS
    <2>3. \A i \in 0..(n - 1) : c[i] = IF i = 0 THEN [votes |-> s, next |-> x] ELSE NextCall(c[i - 1])
      BY <2>1 DEF IsCalls
    <2>4. \A i \in 0..n : d[i] = IF i = 0 THEN [votes |-> s, next |-> x] ELSE NextCall(d[i - 1])
      BY <2>2, <2>3
    <2>5. IsCalls(d, n, s, x)
      BY <2>4 DEF IsCalls
    <2> QED BY <2>5
  <1>3. \A n \in 0..N : n \in Good
    <2> HIDE DEF Good
    <2> QED BY <1>1, <1>2, NumbersInduction
  <1> QED BY <1>3

LEMMA PropagateCalls ==
    ASSUME NEW s, NEW x, Cardinality(Accounts) \in Nat
    PROVE  \E calls : /\ calls[0] = [votes |-> s, next |-> x]
                      /\ \A i \in 1..Cardinality(Accounts) : calls[i] = NextCall(calls[i - 1])
                      /\ V!Propagate(s, x) = calls[Cardinality(Accounts)].votes
  <1> DEFINE N == Cardinality(Accounts)
             calls == CHOOSE c : IsCalls(c, N, s, x)
  <1>1. V!Propagate(s, x) = calls[N].votes
    BY DEF V!Propagate, IsCalls, NextCall, V!Cardinality, Cardinality
  <1>2. IsCalls(calls, N, s, x)
    BY CallsExist
  <1> HIDE DEF calls
  <1>3. /\ calls[0] = [votes |-> s, next |-> x]
        /\ \A i \in 1..N : calls[i] = NextCall(calls[i - 1])
    BY <1>2 DEF IsCalls
  <1> QED BY <1>1, <1>3

LEMMA PropagateKeeps ==
    ASSUME NEW s, IsVotes(s), NEW x
    PROVE  Keeps(s, V!Propagate(s, x))
  <1> DEFINE N == Cardinality(Accounts)
  <1>1. N \in Nat
    BY FS_CardinalityType, StakingConstants
  <1>2. PICK calls : /\ calls[0] = [votes |-> s, next |-> x]
                     /\ \A i \in 1..N : calls[i] = NextCall(calls[i - 1])
                     /\ V!Propagate(s, x) = calls[N].votes
    BY <1>1, PropagateCalls
  <1> DEFINE Good == {i \in 0..N : Keeps(s, calls[i].votes)}
  <1>3. 0 \in Good
    BY <1>1, <1>2 DEF Keeps, SameStakes
  <1>4. ASSUME NEW i \in 1..N, i - 1 \in Good PROVE i \in Good
    <2> DEFINE c == calls[i - 1]
    <2>1. calls[i] = IF c.next = NoProxy THEN c ELSE V!PropagateOnce(c.votes, c.next)
      BY <1>2 DEF NextCall
    <2>2. Keeps(s, c.votes)
      BY <1>4
    <2>3. Keeps(c.votes, V!PropagateOnce(c.votes, c.next).votes)
      BY <2>2, PropagateOnceKeeps DEF Keeps
    <2> HIDE DEF c
    <2> QED BY <1>1, <2>1, <2>2, <2>3, KeepsMore
  <1> HIDE DEF Good
  <1>5. \A i \in 0..N : i \in Good
    BY <1>1, <1>3, <1>4, NumbersInduction
  <1> QED BY <1>1, <1>2, <1>5 DEF Good

\* The parts of update_votes.
LEMMA ActivateKeeps ==
    ASSUME NEW s, IsVotes(s), NEW v
    PROVE  Keeps(s, V!Activate(s, v))
  BY DEF V!Activate, Keeps, IsVotes, VotesFields, SameStakes

LEMMA ProxiesKeep ==
    ASSUME NEW s, IsVotes(s), NEW v, NEW weight
    PROVE  Keeps(s, V!LeaveProxy(s, v)) /\ Keeps(s, V!JoinProxy(s, v, weight))
  <1>1. Keeps(s, s)
    BY DEF Keeps, SameStakes
  <1>2. ASSUME NEW x, NEW delta
        PROVE  Keeps(s, V!Propagate(V!AddProxied(s, x, delta), x))
    <2>1. Keeps(s, V!AddProxied(s, x, delta))
      BY AddProxiedSame DEF Keeps
    <2>2. Keeps(V!AddProxied(s, x, delta), V!Propagate(V!AddProxied(s, x, delta), x))
      BY <2>1, PropagateKeeps DEF Keeps
    <2> QED BY <2>1, <2>2, KeepsMore
  <1> QED BY <1>1, <1>2 DEF V!LeaveProxy, V!JoinProxy

\* update_votes as a whole.
LEMMA UpdateVotesKeeps ==
    ASSUME NEW s, IsVotes(s), NEW v, NEW proxy, NEW prods
    PROVE  Keeps(s, V!UpdateVotes(s, v, proxy, prods))
  <1> DEFINE row == s.voters[v]
             weight == V!VoteWeight(row)
             delta == V!VoteDelta(row, prods, weight)
             a == V!Activate(s, v)
             l == V!LeaveProxy(a, v)
             j == V!JoinProxy(l, proxy, weight)
             t == V!AddVotes(j, DOMAIN delta, delta)
             u == [t EXCEPT !.voters[v].last_vote_weight = weight,
                            !.voters[v].producers = prods,
                            !.voters[v].proxy = proxy]
  <1>1. V!UpdateVotes(s, v, proxy, prods) = u
    BY DEF V!UpdateVotes
  <1> HIDE DEF row, weight, delta
  <1>2. Keeps(s, a)
    BY ActivateKeeps
  <1> HIDE DEF a
  <1>3. Keeps(s, l)
    BY <1>2, ProxiesKeep, KeepsMore DEF Keeps
  <1> HIDE DEF l
  <1>4. Keeps(s, j)
    BY <1>3, ProxiesKeep, KeepsMore DEF Keeps
  <1> HIDE DEF j
  <1>5. Keeps(s, t)
    BY <1>4, AddVotesSame, KeepsMore DEF Keeps
  <1> HIDE DEF t
  <1>6. Keeps(t, u)
    <2>1. IsVotes(t)
      BY <1>5 DEF Keeps
    <2>2. DOMAIN u = VotesFields /\ u.producers = t.producers /\ DOMAIN u.voters = DOMAIN t.voters
      BY <2>1 DEF IsVotes, VotesFields
    <2>3. \A y \in DOMAIN t.voters : DOMAIN u.voters[y] = VoterFields /\ u.voters[y].staked = t.voters[y].staked
      BY <2>1 DEF IsVotes, VotesFields, VoterFields
    <2> QED BY <2>1, <2>2, <2>3 DEF Keeps, IsVotes, SameStakes
  <1> QED BY <1>1, <1>5, <1>6, KeepsMore

\* update_voting_power changes the stake of one voter.
LEMMA StakedChanges ==
    ASSUME NEW s, IsVotes(s), NEW v, NEW change
    PROVE  /\ IsVotes(V!Staked(s, v, change)) 
           /\ V!Staked(s, v, change).producers = s.producers
           /\ DOMAIN V!Staked(s, v, change).voters = DOMAIN s.voters \cup {v}
           /\ \A y \in DOMAIN s.voters \ {v} : V!Staked(s, v, change).voters[y] = s.voters[y]
           /\ V!Staked(s, v, change).voters[v].staked = (IF v \in DOMAIN s.voters THEN s.voters[v].staked ELSE 0) + change
  <1> DEFINE t == V!Staked(s, v, change)
             row == IF v \in DOMAIN s.voters THEN s.voters[v] ELSE V!NewVoter
             new == [row EXCEPT !.staked = @ + change]
  <1>1. DOMAIN V!NewVoter = VoterFields /\ V!NewVoter.staked = 0
    BY DEF V!NewVoter, VoterFields
  <1>2. DOMAIN row = VoterFields
    BY <1>1 DEF IsVotes
  <1>3. DOMAIN new = VoterFields /\ new.staked = row.staked + change
    BY <1>2 DEF VoterFields
  <1>4. t = [s EXCEPT !.voters = V!Row(s.voters, v, new)]
    BY DEF V!Staked
  <1> HIDE DEF new, t
  <1>5. DOMAIN t = VotesFields /\ t.producers = s.producers /\ t.voters = V!Row(s.voters, v, new)
    BY <1>4 DEF IsVotes, VotesFields
  <1>6. DOMAIN t.voters = DOMAIN s.voters \cup {v} /\ \A y \in DOMAIN s.voters \cup {v} : t.voters[y] = IF y = v THEN new ELSE s.voters[y]
    BY <1>5 DEF V!Row
  <1>7. IsVotes(t)
    BY <1>3, <1>5, <1>6 DEF IsVotes
  <1> HIDE DEF row
  <1> QED BY <1>1, <1>3, <1>5, <1>6, <1>7 DEF t, row

LEMMA VotingPowerChanges ==
    ASSUME NEW s, IsVotes(s), NEW v, NEW change
    PROVE  Keeps(V!Staked(s, v, change), V!VotingPower(s, v, change))
  <1> DEFINE t == V!Staked(s, v, change)
             row == t.voters[v]
  <1>1. IsVotes(t)
    BY StakedChanges
  <1>2. Keeps(t, t)
    BY <1>1 DEF Keeps, SameStakes
  <1>3. Keeps(t, V!UpdateVotes(t, v, row.proxy, row.producers))
    BY <1>1, UpdateVotesKeeps
  <1>4. V!VotingPower(s, v, change) =
            IF row.producers # {} \/ row.proxy # NoProxy
            THEN V!UpdateVotes(t, v, row.proxy, row.producers) ELSE t
    BY DEF V!VotingPower
  <1> QED BY <1>2, <1>3, <1>4

-----------------------------------------------------------------------------
\* The stake of an account as a voter, and whether it is a producer.
StakedOf(a) == IF a \in DOMAIN voters THEN voters[a].staked ELSE 0
IsProducer(p) == p \in DOMAIN producers /\ producers[p].is_active

VotesInv == IsVotes(V!Votes)

\* A step that leaves both as they are.
VotesKept ==
    /\ VotesInv'
    /\ \A a : StakedOf(a)' = StakedOf(a)
    /\ \A p : IsProducer(p)' = IsProducer(p)

LEMMA BecomeVotes ==
    ASSUME NEW t, IsVotes(t), V!Become(t)
    PROVE  VotesInv' /\ voters' = t.voters /\ producers' = t.producers
  <1>1. /\ voters' = t.voters /\ producers' = t.producers
        /\ \A v \in DOMAIN voters' : DOMAIN voters'[v] = VoterFields
        /\ \A p \in DOMAIN producers' : DOMAIN producers'[p] = {"is_active", "total_votes"}
    BY DEF V!Become, IsVotes
  <1>2. V!Votes'.voters = voters' /\ V!Votes'.producers = producers' /\ DOMAIN V!Votes' = VotesFields
    BY DEF V!Votes, VotesFields
  <1>3. VotesInv' <=> /\ DOMAIN V!Votes' = VotesFields
                      /\ \A v \in DOMAIN V!Votes'.voters : DOMAIN V!Votes'.voters[v] = VoterFields
                      /\ \A p \in DOMAIN V!Votes'.producers :
                             DOMAIN V!Votes'.producers[p] = {"is_active", "total_votes"}
    BY DEF VotesInv, IsVotes
  <1> QED BY <1>1, <1>2, <1>3

LEMMA KeepsVotes ==
    ASSUME VotesInv, NEW t, Keeps(V!Votes, t), V!Become(t)
    PROVE  VotesKept
  <1>1. VotesInv' /\ voters' = t.voters /\ producers' = t.producers
    BY BecomeVotes DEF Keeps
  <1>2. V!Votes.voters = voters /\ V!Votes.producers = producers
    BY DEF V!Votes
  <1> QED BY <1>1, <1>2 DEF Keeps, SameStakes, VotesKept, StakedOf, IsProducer

\* A new voter has no stake.
LEMMA RegProxyVotes ==
    ASSUME VotesInv, NEW v, NEW on, V!RegProxy(v, on)
    PROVE  VotesKept
  <1>0. V!Votes.voters = voters /\ V!Votes.producers = producers /\ DOMAIN V!Votes = VotesFields
        /\ (\A y \in DOMAIN voters : DOMAIN voters[y] = VoterFields)
        /\ \A p \in DOMAIN producers : DOMAIN producers[p] = {"is_active", "total_votes"}
    BY DEF V!Votes, VotesInv, IsVotes, VotesFields
  <1>1. CASE v \in DOMAIN voters
    <2> DEFINE t == [V!Votes EXCEPT !.voters[v].is_proxy = on]
    <2>1. DOMAIN t = VotesFields /\ t.producers = producers /\ t.voters = [voters EXCEPT ![v].is_proxy = on]
      BY <1>0 DEF VotesFields
    <2>2. DOMAIN t.voters = DOMAIN voters /\ \A y \in DOMAIN voters : DOMAIN t.voters[y] = VoterFields
          /\ t.voters[y].staked = voters[y].staked
      BY <1>0, <2>1 DEF VoterFields
    <2>3. Keeps(V!Votes, t)
      <3> HIDE DEF t
      <3> QED BY <1>0, <2>1, <2>2 DEF Keeps, IsVotes, SameStakes
    <2>4. V!Become(V!Propagate(t, v))
      BY <1>1 DEF V!RegProxy
    <2>5. Keeps(V!Votes, V!Propagate(t, v))
      <3> HIDE DEF t
      <3> QED BY <2>3, PropagateKeeps, KeepsMore DEF Keeps
    <2> HIDE DEF t
    <2> QED BY <2>4, <2>5, KeepsVotes
  <1>2. CASE v \notin DOMAIN voters
    <2> DEFINE new == [V!NewVoter EXCEPT !.is_proxy = on]
               t == [V!Votes EXCEPT !.voters = V!Row(@, v, new)]
    <2>1. DOMAIN new = VoterFields /\ new.staked = 0
      BY DEF V!NewVoter, VoterFields
    <2>2. V!Become(t)
      BY <1>2 DEF V!RegProxy
    <2> HIDE DEF new
    <2>3. DOMAIN t = VotesFields /\ t.producers = producers /\ t.voters = V!Row(voters, v, new)
      BY <1>0 DEF VotesFields
    <2> HIDE DEF t
    <2>4. DOMAIN t.voters = DOMAIN voters \cup {v}
          /\ \A y \in DOMAIN t.voters : t.voters[y] = IF y = v THEN new ELSE voters[y]
      BY <2>3 DEF V!Row
    <2>5. IsVotes(t)
      BY <1>0, <2>1, <2>3, <2>4 DEF IsVotes
    <2>6. VotesInv' /\ voters' = t.voters /\ producers' = t.producers
      BY <2>2, <2>5, BecomeVotes
    <2> QED BY <1>2, <2>1, <2>3, <2>4, <2>6 DEF VotesKept, StakedOf, IsProducer
  <1> QED BY <1>1, <1>2

\* The tables as they are give the votes as they are.
LEMMA VotesInvDef ==
    VotesInv <=> /\ \A v \in DOMAIN voters : DOMAIN voters[v] = VoterFields
                 /\ \A p \in DOMAIN producers : DOMAIN producers[p] = {"is_active", "total_votes"}
  <1>1. V!Votes.voters = voters /\ V!Votes.producers = producers /\ DOMAIN V!Votes = VotesFields
    BY DEF V!Votes, VotesFields
  <1> QED BY <1>1 DEF VotesInv, IsVotes

LEMMA UnchangedVotes ==
    ASSUME VotesInv, UNCHANGED <<voters, producers>>
    PROVE  VotesKept
  <1>1. VotesInv' <=> /\ \A v \in DOMAIN voters' : DOMAIN voters'[v] = VoterFields
                      /\ \A p \in DOMAIN producers' : DOMAIN producers'[p] = {"is_active", "total_votes"}
    <2>1. V!Votes'.voters = voters' /\ V!Votes'.producers = producers' /\ DOMAIN V!Votes' = VotesFields
      BY DEF V!Votes, VotesFields
    <2> QED BY <2>1 DEF VotesInv, IsVotes
  <1> QED BY <1>1, VotesInvDef DEF VotesKept, StakedOf, IsProducer

-----------------------------------------------------------------------------
(***************************************************************************)
(* The amounts, as the tables and sums that the three properties of the    *)
(* stake speak of.                                                         *)
(***************************************************************************)
NatAmount == [net : Nat, cpu : Nat]
Delegated == [x \in Accounts \X Accounts |-> Total(delband[x])]
Waiting == [a \in DOMAIN refunds |-> Total(refunds[a])]
NetOf(a) == [b \in Accounts |-> delband[<<b, a>>].net]
CpuOf(a) == [b \in Accounts |-> delband[<<b, a>>].cpu]
GivenBy(a) == [b \in Accounts |-> Total(delband[<<a, b>>])]

BandwidthOK ==
    /\ delband \in [Accounts \X Accounts -> NatAmount]
    /\ userres \in [Accounts -> Amount]
    /\ \A a \in DOMAIN refunds : refunds[a].net \in Nat /\ refunds[a].cpu \in Nat
    /\ IsFiniteSet(DOMAIN refunds)
    /\ stake_balance \in Int

Backed == stake_balance = SumFunction(Delegated) + SumFunction(Waiting)

UsedBy(a) ==
    /\ userres[a].net = SumFunction(NetOf(a))
    /\ userres[a].cpu = SumFunction(CpuOf(a))
    /\ SumFunction(GivenBy(a)) = StakedOf(a)

StakingInv ==
    /\ BandwidthOK
    /\ VotesInv
    /\ Backed
    /\ \A a \in Accounts : UsedBy(a)
    /\ \A p : IsProducer(p) => p \in Accounts /\ Total(delband[<<p, p>>]) >= MinSelfStake

LEMMA StakingProperties ==
    ASSUME StakingInv
    PROVE  StakeIsBacked /\ StakeIsUsed /\ ProducersKeepStake
  BY DEF StakingInv, StakeIsBacked, StakeIsUsed, StakedBy, ProducersKeepStake, Sum, Backed, UsedBy,
         Delegated, Waiting, NetOf, CpuOf, GivenBy, StakedOf, IsProducer

\* The sums are of numbers.
LEMMA TablesOfStake ==
    ASSUME BandwidthOK
    PROVE  /\ IsFiniteSet(DOMAIN Delegated) /\ \A x \in DOMAIN Delegated : Delegated[x] \in Int
           /\ IsFiniteSet(DOMAIN Waiting) /\ \A a \in DOMAIN Waiting : Waiting[a] \in Int
           /\ SumFunction(Delegated) \in Int /\ SumFunction(Waiting) \in Int
  <1>1. IsFiniteSet(Accounts \X Accounts)
    BY StakingConstants, FS_Product
  <1>2. IsFiniteSet(DOMAIN Delegated) /\ \A x \in DOMAIN Delegated : Delegated[x] \in Int
    BY <1>1 DEF BandwidthOK, Delegated, NatAmount, Total
  <1>3. IsFiniteSet(DOMAIN Waiting) /\ \A a \in DOMAIN Waiting : Waiting[a] \in Int
    BY DEF BandwidthOK, Waiting, Total
  <1> QED BY <1>2, <1>3, SumInt DEF SumFunction

LEMMA SumsOfStake ==
    ASSUME BandwidthOK, NEW a \in Accounts
    PROVE  /\ \A b \in Accounts : /\ NetOf(a)[b] \in Int /\ CpuOf(a)[b] \in Int
                                  /\ GivenBy(a)[b] \in Int
           /\ SumFunction(NetOf(a)) \in Int /\ SumFunction(CpuOf(a)) \in Int
           /\ SumFunction(GivenBy(a)) \in Int
  <1>1. \A b \in Accounts : NetOf(a)[b] \in Int /\ CpuOf(a)[b] \in Int /\ GivenBy(a)[b] \in Int
    BY DEF BandwidthOK, NetOf, CpuOf, GivenBy, NatAmount, Total
  <1>2. DOMAIN NetOf(a) = Accounts /\ DOMAIN CpuOf(a) = Accounts /\ DOMAIN GivenBy(a) = Accounts
    BY DEF NetOf, CpuOf, GivenBy
  <1> QED BY <1>1, <1>2, SumInt, StakingConstants DEF SumFunction

\* Staking d uses d of the refund first, and adds to it what is taken back:
\* what is paid is what the stake and the refund together have gained.
LEMMA PaidIsGained ==
    ASSUME NEW r \in NatAmount, NEW d \in Amount
    PROVE  /\ Paid(r, d) \in Int /\ Total(d) \in Int /\ Total(r) \in Int
           /\ RefundLeft(r, d) \in NatAmount /\ Total(RefundLeft(r, d)) \in Int
           /\ Paid(r, d) = Total(d) + Total(RefundLeft(r, d)) - Total(r)
  <1>1. r.net \in Nat /\ r.cpu \in Nat /\ d.net \in Int /\ d.cpu \in Int
    BY DEF NatAmount, Amount
  <1>2. ASSUME NEW i \in Nat, NEW j \in Int
        PROVE  /\ Positive(i - j) \in Nat /\ Positive(j - i) \in Nat
               /\ Positive(j - i) = j + Positive(i - j) - i
    BY <1>2 DEF Positive
  <1>3. /\ Positive(r.net - d.net) \in Nat /\ Positive(d.net - r.net) \in Nat
        /\ Positive(r.cpu - d.cpu) \in Nat /\ Positive(d.cpu - r.cpu) \in Nat
        /\ Positive(d.net - r.net) = d.net + Positive(r.net - d.net) - r.net
        /\ Positive(d.cpu - r.cpu) = d.cpu + Positive(r.cpu - d.cpu) - r.cpu
    BY <1>1, <1>2
  <1>4. RefundLeft(r, d) \in NatAmount
    BY <1>3 DEF RefundLeft, NatAmount
  <1>5. /\ RefundLeft(r, d).net = Positive(r.net - d.net)
        /\ RefundLeft(r, d).cpu = Positive(r.cpu - d.cpu)
    BY DEF RefundLeft
  <1> QED BY <1>1, <1>3, <1>4, <1>5 DEF Paid, Total

\* The refund of a and what becomes of it.
LEMMA ScheduleMoves ==
    ASSUME BandwidthOK, NEW a, NEW left \in NatAmount, NEW time, ScheduleRefund(a, left, time)
    PROVE  /\ IsFiniteSet(DOMAIN refunds')
           /\ \A x \in DOMAIN refunds' : refunds'[x].net \in Nat /\ refunds'[x].cpu \in Nat
           /\ DOMAIN refunds \ {a} = DOMAIN refunds' \ {a}
           /\ \A x \in DOMAIN refunds \ {a} : refunds[x] = refunds'[x]
           /\ (IF a \in DOMAIN refunds' THEN Total(refunds'[a]) ELSE 0) = Total(left)
  <1>1. CASE left = None
    <2>1. DOMAIN refunds' = DOMAIN refunds \ {a} /\ \A x \in DOMAIN refunds' : refunds'[x] = refunds[x]
      BY <1>1 DEF ScheduleRefund, Restrict
    <2>2. Total(left) = 0
      BY <1>1 DEF None, Total
    <2> QED BY <2>1, <2>2, FS_RemoveElement DEF BandwidthOK
  <1>2. CASE left # None
    <2> DEFINE row == [net |-> left.net, cpu |-> left.cpu, time |-> time]
    <2>1. /\ DOMAIN refunds' = DOMAIN refunds \cup {a}
          /\ \A x \in DOMAIN refunds' : refunds'[x] = IF x = a THEN row ELSE refunds[x]
      BY <1>2 DEF ScheduleRefund, V!Row
    <2>2. left.net \in Nat /\ left.cpu \in Nat
      BY DEF NatAmount
    <2>3. row.net = left.net /\ row.cpu = left.cpu
      OBVIOUS
    <2> HIDE DEF row
    <2>4. refunds'[a] = row /\ a \in DOMAIN refunds'
      BY <2>1
    <2>5. Total(refunds'[a]) = Total(left)
      BY <2>3, <2>4 DEF Total
    <2>6. IsFiniteSet(DOMAIN refunds')
      BY <2>1, FS_AddElement DEF BandwidthOK
    <2>7. \A x \in DOMAIN refunds' : refunds'[x].net \in Nat /\ refunds'[x].cpu \in Nat
      BY <2>1, <2>2, <2>3 DEF BandwidthOK
    <2> QED BY <2>1, <2>4, <2>5, <2>6, <2>7
  <1> QED BY <1>1, <1>2

\* The sum of what waits after the refund of a has changed.
LEMMA WaitingMoves ==
    ASSUME BandwidthOK, NEW a, NEW before \in Int, NEW after \in Int,
           IsFiniteSet(DOMAIN refunds'),
           \A x \in DOMAIN refunds' : refunds'[x].net \in Nat /\ refunds'[x].cpu \in Nat,
           DOMAIN refunds \ {a} = DOMAIN refunds' \ {a},
           \A x \in DOMAIN refunds \ {a} : refunds[x] = refunds'[x],
           (IF a \in DOMAIN refunds THEN Total(refunds[a]) ELSE 0) = before,
           (IF a \in DOMAIN refunds' THEN Total(refunds'[a]) ELSE 0) = after
    PROVE  Moves(SumFunction(Waiting), SumFunction(Waiting'), before, after)
  <1>1. PICK f : f = Waiting
    OBVIOUS
  <1>2. PICK g : g = Waiting'
    OBVIOUS
  <1>3. DOMAIN f = DOMAIN refunds /\ \A x \in DOMAIN f : f[x] = Total(refunds[x]) /\ f[x] \in Int
    BY <1>1 DEF Waiting, BandwidthOK, Total
  <1>4. DOMAIN g = DOMAIN refunds' /\ \A x \in DOMAIN g : g[x] = Total(refunds'[x]) /\ g[x] \in Int
    BY <1>2 DEF Waiting, Total
  <1>5. IsFiniteSet(DOMAIN f) /\ DOMAIN f \ {a} = DOMAIN g \ {a} /\ \A x \in DOMAIN f \ {a} : f[x] = g[x]
    BY <1>3, <1>4 DEF BandwidthOK
  <1>6. Moves(SumFunction(f), SumFunction(g), At(f, a), At(g, a))
    BY <1>3, <1>4, <1>5, SumChanges
  <1>7. At(f, a) = before /\ At(g, a) = after
    BY <1>3, <1>4 DEF At
  <1> QED BY <1>1, <1>2, <1>6, <1>7

\* changebw moves the tokens that it stakes and does not find in the refund.
LEMMA ChangeRefundMoves ==
    ASSUME BandwidthOK, NEW source \in Accounts, NEW owner, NEW d \in Amount, NEW self,
           ChangeRefund(source, owner, d, self)
    PROVE  /\ IsFiniteSet(DOMAIN refunds')
           /\ \A x \in DOMAIN refunds' : refunds'[x].net \in Nat /\ refunds'[x].cpu \in Nat
           /\ stake_balance' \in Int /\ Total(d) \in Int
           /\ SumFunction(Waiting) \in Int /\ SumFunction(Waiting') \in Int
           /\ stake_balance' - SumFunction(Waiting') = stake_balance - SumFunction(Waiting) + Total(d)
  <1> DEFINE r == Refunded(owner)
             uses == self \/ Total(d) < 0
             time == IF Total(d) < 0 \/ r = None THEN now ELSE refunds[owner].time
  <1>1. r \in NatAmount
    <2>1. None \in NatAmount
      BY DEF None, NatAmount
    <2>2. owner \in DOMAIN refunds => [net |-> refunds[owner].net, cpu |-> refunds[owner].cpu] \in NatAmount
      BY DEF BandwidthOK, NatAmount
    <2> QED BY <2>1, <2>2 DEF Refunded
  <1>2. Total(r) = IF owner \in DOMAIN refunds THEN Total(refunds[owner]) ELSE 0
    BY DEF Refunded, Total, None
  <1>3. /\ Paid(r, d) \in Int /\ Total(d) \in Int /\ Total(r) \in Int
        /\ RefundLeft(r, d) \in NatAmount /\ Total(RefundLeft(r, d)) \in Int
        /\ Paid(r, d) = Total(d) + Total(RefundLeft(r, d)) - Total(r)
    BY <1>1, PaidIsGained
  <1>4. SumFunction(Waiting) \in Int /\ stake_balance \in Int
    BY TablesOfStake DEF BandwidthOK
  <1>5. CASE uses
    <2>1. ScheduleRefund(owner, RefundLeft(r, d), time) /\ stake_balance' = stake_balance + Paid(r, d)
      BY <1>5 DEF ChangeRefund
    <2> HIDE DEF r, uses, time
    <2>2. PICK left \in NatAmount : left = RefundLeft(r, d)
      BY <1>3
    <2>3. /\ IsFiniteSet(DOMAIN refunds')
          /\ \A x \in DOMAIN refunds' : refunds'[x].net \in Nat /\ refunds'[x].cpu \in Nat
          /\ DOMAIN refunds \ {owner} = DOMAIN refunds' \ {owner}
          /\ \A x \in DOMAIN refunds \ {owner} : refunds[x] = refunds'[x]
          /\ (IF owner \in DOMAIN refunds' THEN Total(refunds'[owner]) ELSE 0) = Total(left)
      BY <2>1, <2>2, ScheduleMoves
    <2>4. Moves(SumFunction(Waiting), SumFunction(Waiting'), Total(r), Total(left))
      BY <1>2, <1>3, <2>2, <2>3, WaitingMoves
    <2> QED BY <1>3, <1>4, <2>1, <2>2, <2>3, <2>4 DEF Moves
  <1>6. CASE ~uses
    <2>1. refunds' = refunds /\ stake_balance' = stake_balance + Total(d)
      BY <1>6 DEF ChangeRefund
    <2>2. Waiting' = Waiting
      BY <2>1 DEF Waiting
    <2> QED BY <1>3, <1>4, <2>1, <2>2 DEF BandwidthOK
  <1> QED BY <1>5, <1>6

\* One sum over Accounts of which one summand changes.
LEMMA AccountsMove ==
    ASSUME NEW f, NEW g, DOMAIN f = Accounts, DOMAIN g = Accounts,
           \A b \in Accounts : f[b] \in Int /\ g[b] \in Int,
           NEW x \in Accounts, \A b \in Accounts \ {x} : f[b] = g[b]
    PROVE  Moves(SumFunction(f), SumFunction(g), f[x], g[x])
  <1>1. Moves(SumFunction(f), SumFunction(g), At(f, x), At(g, x))
    BY SumChanges, StakingConstants
  <1> QED BY <1>1 DEF At

\* The sums after one amount of delband has changed.
LEMMA DelbandMoves ==
    ASSUME BandwidthOK, NEW o \in Accounts, NEW r \in Accounts, NEW new \in NatAmount,
           delband' = [delband EXCEPT ![<<o, r>>] = new]
    PROVE  /\ delband' \in [Accounts \X Accounts -> NatAmount]
           /\ Moves(SumFunction(Delegated), SumFunction(Delegated'), Total(delband[<<o, r>>]), Total(new))
           /\ Moves(SumFunction(NetOf(r)), SumFunction(NetOf(r)'), delband[<<o, r>>].net, new.net)
           /\ Moves(SumFunction(CpuOf(r)), SumFunction(CpuOf(r)'), delband[<<o, r>>].cpu, new.cpu)
           /\ Moves(SumFunction(GivenBy(o)), SumFunction(GivenBy(o)'), Total(delband[<<o, r>>]), Total(new))
           /\ \A a \in Accounts \ {r} : NetOf(a)' = NetOf(a) /\ CpuOf(a)' = CpuOf(a)
           /\ \A a \in Accounts \ {o} : GivenBy(a)' = GivenBy(a)
  <1>1. delband' \in [Accounts \X Accounts -> NatAmount]
    BY DEF BandwidthOK
  <1>2. \A x \in Accounts \X Accounts : delband'[x] = IF x = <<o, r>> THEN new ELSE delband[x]
    BY DEF BandwidthOK
  <1>0. \A a, b \in Accounts : a # o \/ b # r => delband'[<<a, b>>] = delband[<<a, b>>]
    <2> SUFFICES ASSUME NEW a \in Accounts, NEW b \in Accounts, a # o \/ b # r
                 PROVE  delband'[<<a, b>>] = delband[<<a, b>>]
      OBVIOUS
    <2>1. <<a, b>> # <<o, r>> /\ <<a, b>> \in Accounts \X Accounts
      OBVIOUS
    <2> QED BY <1>2, <2>1
  <1>3. \A n \in NatAmount : n.net \in Int /\ n.cpu \in Int /\ Total(n) \in Int
    BY DEF NatAmount, Total
  <1>4. \A x \in Accounts \X Accounts : delband[x] \in NatAmount /\ delband'[x] \in NatAmount
    BY <1>1 DEF BandwidthOK
  <1>5. Moves(SumFunction(Delegated), SumFunction(Delegated'), Total(delband[<<o, r>>]), Total(new))
    <2>1. PICK f, g : f = Delegated /\ g = Delegated'
      OBVIOUS
    <2>2. /\ DOMAIN f = Accounts \X Accounts /\ DOMAIN g = Accounts \X Accounts
          /\ \A x \in Accounts \X Accounts : f[x] = Total(delband[x]) /\ g[x] = Total(delband'[x])
      BY <2>1 DEF Delegated
    <2>3. \A x \in Accounts \X Accounts : f[x] \in Int /\ g[x] \in Int
      BY <1>3, <1>4, <2>2
    <2>4. IsFiniteSet(DOMAIN f)
      BY <2>2, StakingConstants, FS_Product
    <2>5. \A x \in (Accounts \X Accounts) \ {<<o, r>>} : f[x] = g[x]
      BY <1>2, <2>2
    <2>6. Moves(SumFunction(f), SumFunction(g), At(f, <<o, r>>), At(g, <<o, r>>))
      <3>1. PICK x \in Accounts \X Accounts : x = <<o, r>>
        OBVIOUS
      <3>2. Moves(SumFunction(f), SumFunction(g), At(f, x), At(g, x))
        BY <2>2, <2>3, <2>4, <2>5, <3>1, SumChanges
      <3> QED BY <3>1, <3>2
    <2>7. At(f, <<o, r>>) = Total(delband[<<o, r>>]) /\ At(g, <<o, r>>) = Total(new)
      BY <1>2, <2>2 DEF At
    <2> QED BY <2>1, <2>6, <2>7
  <1>6. Moves(SumFunction(NetOf(r)), SumFunction(NetOf(r)'), delband[<<o, r>>].net, new.net)
    <2>1. PICK f, g : f = NetOf(r) /\ g = NetOf(r)'
      OBVIOUS
    <2>2. /\ DOMAIN f = Accounts /\ DOMAIN g = Accounts
          /\ \A b \in Accounts : f[b] = delband[<<b, r>>].net /\ g[b] = delband'[<<b, r>>].net
      BY <2>1 DEF NetOf
    <2>3. \A b \in Accounts : f[b] \in Int /\ g[b] \in Int
      BY <1>3, <1>4, <2>2
    <2>4. \A b \in Accounts \ {o} : f[b] = g[b]
      BY <1>0, <2>2
    <2>5. f[o] = delband[<<o, r>>].net /\ g[o] = new.net
      BY <1>2, <2>2
    <2>6. Moves(SumFunction(f), SumFunction(g), f[o], g[o])
      BY <2>2, <2>3, <2>4, AccountsMove
    <2> QED BY <2>1, <2>5, <2>6
  <1>7. Moves(SumFunction(CpuOf(r)), SumFunction(CpuOf(r)'), delband[<<o, r>>].cpu, new.cpu)
    <2>1. PICK f, g : f = CpuOf(r) /\ g = CpuOf(r)'
      OBVIOUS
    <2>2. /\ DOMAIN f = Accounts /\ DOMAIN g = Accounts
          /\ \A b \in Accounts : f[b] = delband[<<b, r>>].cpu /\ g[b] = delband'[<<b, r>>].cpu
      BY <2>1 DEF CpuOf
    <2>3. \A b \in Accounts : f[b] \in Int /\ g[b] \in Int
      BY <1>3, <1>4, <2>2
    <2>4. \A b \in Accounts \ {o} : f[b] = g[b]
      BY <1>0, <2>2
    <2>5. f[o] = delband[<<o, r>>].cpu /\ g[o] = new.cpu
      BY <1>2, <2>2
    <2>6. Moves(SumFunction(f), SumFunction(g), f[o], g[o])
      BY <2>2, <2>3, <2>4, AccountsMove
    <2> QED BY <2>1, <2>5, <2>6
  <1>8. Moves(SumFunction(GivenBy(o)), SumFunction(GivenBy(o)'), Total(delband[<<o, r>>]), Total(new))
    <2>1. PICK f, g : f = GivenBy(o) /\ g = GivenBy(o)'
      OBVIOUS
    <2>2. /\ DOMAIN f = Accounts /\ DOMAIN g = Accounts
          /\ \A b \in Accounts : f[b] = Total(delband[<<o, b>>]) /\ g[b] = Total(delband'[<<o, b>>])
      BY <2>1 DEF GivenBy
    <2>3. \A b \in Accounts : f[b] \in Int /\ g[b] \in Int
      BY <1>3, <1>4, <2>2
    <2>4. \A b \in Accounts \ {r} : f[b] = g[b]
      BY <1>0, <2>2
    <2>5. f[r] = Total(delband[<<o, r>>]) /\ g[r] = Total(new)
      BY <1>2, <2>2
    <2>6. Moves(SumFunction(f), SumFunction(g), f[r], g[r])
      BY <2>2, <2>3, <2>4, AccountsMove
    <2> QED BY <2>1, <2>5, <2>6
  <1>9. \A a \in Accounts \ {r} : NetOf(a)' = NetOf(a) /\ CpuOf(a)' = CpuOf(a)
    BY <1>0 DEF NetOf, CpuOf
  <1>10. \A a \in Accounts \ {o} : GivenBy(a)' = GivenBy(a)
    BY <1>0 DEF GivenBy
  <1> QED BY <1>1, <1>5, <1>6, <1>7, <1>8, <1>9, <1>10

\* What changebw does to the stake of the voters.
LEMMA ChangebwStakes ==
    ASSUME VotesInv, NEW owner, NEW change,
           V!Become(V!VotingPower(V!Votes, owner, change))
    PROVE  /\ VotesInv'
           /\ \A a : StakedOf(a)' = IF a = owner THEN StakedOf(a) + change ELSE StakedOf(a)
           /\ \A p : IsProducer(p)' = IsProducer(p)
  <1>1. V!Votes.voters = voters /\ V!Votes.producers = producers /\ IsVotes(V!Votes)
    BY DEF V!Votes, VotesInv
  <1> DEFINE s == V!Staked(V!Votes, owner, change)
             t == V!VotingPower(V!Votes, owner, change)
  <1>2. /\ s.producers = producers
        /\ DOMAIN s.voters = DOMAIN voters \cup {owner}
        /\ \A y \in DOMAIN voters \ {owner} : s.voters[y] = voters[y]
        /\ s.voters[owner].staked = StakedOf(owner) + change
    BY <1>1, StakedChanges DEF StakedOf
  <1>3. Keeps(s, t)
    BY <1>1, VotingPowerChanges
  <1>4. VotesInv' /\ voters' = t.voters /\ producers' = t.producers
    BY <1>3, BecomeVotes DEF Keeps
  <1> HIDE DEF s, t
  <1>5. \A a : StakedOf(a)' = IF a = owner THEN StakedOf(a) + change ELSE StakedOf(a)
    BY <1>2, <1>3, <1>4 DEF Keeps, SameStakes, StakedOf
  <1>6. \A p : IsProducer(p)' = IsProducer(p)
    BY <1>2, <1>3, <1>4 DEF Keeps, SameStakes, IsProducer
  <1> QED BY <1>4, <1>5, <1>6

\* All changes of stake, of which delegatebw and undelegatebw are two.  What a
\* producer has staked to itself must be enough when it was taken back.
LEMMA ChangebwStep ==
    ASSUME StakingInv, NEW from \in Accounts, NEW receiver \in Accounts, NEW d \in Amount,
           NEW transfer \in BOOLEAN, Changebw(from, receiver, d, transfer),
           NEW own, own = (IF transfer THEN receiver ELSE from),
           own = receiver /\ IsProducer(own) => Total(delband[<<own, own>>]) + Total(d) >= MinSelfStake
    PROVE  StakingInv'
  <1> DEFINE delegated == Plus(delband[<<own, receiver>>], d)
             weight == Plus(userres[receiver], d)
  <1>1. /\ own \in Accounts /\ BandwidthOK /\ VotesInv
        /\ delegated.net >= 0 /\ delegated.cpu >= 0
        /\ delband' = [delband EXCEPT ![<<own, receiver>>] = delegated]
        /\ userres' = [userres EXCEPT ![receiver] = weight]
        /\ ChangeRefund(from, own, d, ~transfer /\ from = receiver)
        /\ V!Become(V!VotingPower(V!Votes, own, Total(d)))
    BY DEF Changebw, StakingInv
  <1>2. PICK old \in NatAmount : old = delband[<<own, receiver>>]
    BY <1>1 DEF BandwidthOK
  <1>3. /\ old.net \in Nat /\ old.cpu \in Nat /\ d.net \in Int /\ d.cpu \in Int
        /\ userres[receiver].net \in Int /\ userres[receiver].cpu \in Int
    BY <1>1, <1>2 DEF NatAmount, Amount, BandwidthOK
  <1>4. /\ delegated \in NatAmount
        /\ delegated.net = old.net + d.net /\ delegated.cpu = old.cpu + d.cpu
        /\ Total(delegated) \in Int /\ Total(old) \in Int /\ Total(d) \in Int
        /\ Total(delegated) = Total(old) + Total(d)
    BY <1>1, <1>2, <1>3 DEF Plus, NatAmount, Total
  <1>5. /\ weight \in Amount
        /\ weight.net = userres[receiver].net + d.net
        /\ weight.cpu = userres[receiver].cpu + d.cpu
    BY <1>3 DEF Plus, Amount
  <1> HIDE DEF delegated, weight
  <1>6. PICK new \in NatAmount : new = delegated
    BY <1>4
  <1>7. delband' = [delband EXCEPT ![<<own, receiver>>] = new]
    BY <1>1, <1>6
  <1>8. /\ delband' \in [Accounts \X Accounts -> NatAmount]
        /\ Moves(SumFunction(Delegated), SumFunction(Delegated'), Total(old), Total(new))
        /\ Moves(SumFunction(NetOf(receiver)), SumFunction(NetOf(receiver)'), old.net, new.net)
        /\ Moves(SumFunction(CpuOf(receiver)), SumFunction(CpuOf(receiver)'), old.cpu, new.cpu)
        /\ Moves(SumFunction(GivenBy(own)), SumFunction(GivenBy(own)'), Total(old), Total(new))
        /\ \A a \in Accounts \ {receiver} : NetOf(a)' = NetOf(a) /\ CpuOf(a)' = CpuOf(a)
        /\ \A a \in Accounts \ {own} : GivenBy(a)' = GivenBy(a)
    BY <1>1, <1>2, <1>7, DelbandMoves
  <1>9. /\ IsFiniteSet(DOMAIN refunds')
        /\ \A x \in DOMAIN refunds' : refunds'[x].net \in Nat /\ refunds'[x].cpu \in Nat
        /\ stake_balance' \in Int
        /\ SumFunction(Waiting) \in Int /\ SumFunction(Waiting') \in Int
        /\ stake_balance' - SumFunction(Waiting') = stake_balance - SumFunction(Waiting) + Total(d)
    BY <1>1, ChangeRefundMoves
  <1>10. userres' \in [Accounts -> Amount]
    BY <1>1, <1>5 DEF BandwidthOK
  <1>11. BandwidthOK'
    BY <1>8, <1>9, <1>10 DEF BandwidthOK
  <1>12. Backed'
    <2>1. SumFunction(Delegated') \in Int /\ SumFunction(Delegated) \in Int
          /\ SumFunction(Delegated') = SumFunction(Delegated) + Total(d)
      BY <1>4, <1>6, <1>8 DEF Moves
    <2>2. stake_balance = SumFunction(Delegated) + SumFunction(Waiting) /\ stake_balance \in Int
      BY <1>1 DEF StakingInv, Backed, BandwidthOK
    <2>3. stake_balance' = SumFunction(Delegated') + SumFunction(Waiting')
      BY <1>4, <1>9, <2>1, <2>2
    <2> QED BY <2>3 DEF Backed
  <1>13. /\ VotesInv'
         /\ \A a : StakedOf(a)' = IF a = own THEN StakedOf(a) + Total(d) ELSE StakedOf(a)
         /\ \A p : IsProducer(p)' = IsProducer(p)
    BY <1>1, ChangebwStakes
  <1>14. ASSUME NEW a \in Accounts PROVE UsedBy(a)'
    <2>0. UsedBy(a)
      BY DEF StakingInv
    <2>1. userres'[a].net = SumFunction(NetOf(a)') /\ userres'[a].cpu = SumFunction(CpuOf(a)')
      <3>1. CASE a = receiver
        <4>1. userres'[a] = weight
          BY <1>1, <3>1 DEF BandwidthOK
        <4>2. /\ SumFunction(NetOf(a)') = SumFunction(NetOf(a)) + d.net
              /\ SumFunction(CpuOf(a)') = SumFunction(CpuOf(a)) + d.cpu
          BY <1>3, <1>4, <1>6, <1>8, <3>1 DEF Moves
        <4> QED BY <1>5, <2>0, <3>1, <4>1, <4>2 DEF UsedBy
      <3>2. CASE a # receiver
        <4>1. userres'[a] = userres[a]
          BY <1>1, <3>2 DEF BandwidthOK
        <4> QED BY <1>8, <2>0, <3>2, <4>1 DEF UsedBy
      <3> QED BY <3>1, <3>2
    <2>2. SumFunction(GivenBy(a)') = StakedOf(a)'
      <3>1. CASE a = own
        <4>1. SumFunction(GivenBy(a)') = SumFunction(GivenBy(a)) + Total(d)
          BY <1>4, <1>6, <1>8, <3>1 DEF Moves
        <4> QED BY <1>13, <2>0, <3>1, <4>1 DEF UsedBy
      <3>2. CASE a # own
        BY <1>8, <1>13, <2>0, <3>2 DEF UsedBy
      <3> QED BY <3>1, <3>2
    <2> QED BY <2>1, <2>2 DEF UsedBy
  <1>15. ASSUME NEW p, IsProducer(p)'
         PROVE  p \in Accounts /\ Total(delband'[<<p, p>>]) >= MinSelfStake
    <2>1. IsProducer(p)
      BY <1>13, <1>15
    <2>2. p \in Accounts /\ Total(delband[<<p, p>>]) >= MinSelfStake
      BY <2>1 DEF StakingInv
    <2>3. CASE own = receiver /\ p = own
      <3>1. delband'[<<p, p>>] = new
        BY <1>1, <1>7, <2>3 DEF BandwidthOK
      <3> QED BY <1>2, <1>4, <1>6, <2>1, <2>2, <2>3, <3>1
    <2>4. CASE ~(own = receiver /\ p = own)
      <3>1. <<p, p>> # <<own, receiver>> /\ <<p, p>> \in Accounts \X Accounts
        BY <2>2, <2>4
      <3>2. delband'[<<p, p>>] = delband[<<p, p>>]
        BY <1>7, <3>1, <1>1 DEF BandwidthOK
      <3> QED BY <2>2, <3>2
    <2> QED BY <2>3, <2>4
  <1> QED BY <1>11, <1>12, <1>13, <1>14, <1>15 DEF StakingInv

\* Steps that move no tokens, and register only who has the stake for it.
LEMMA VotesOnlyStep ==
    ASSUME StakingInv, UNCHANGED bandwidth, VotesInv', \A a : StakedOf(a)' = StakedOf(a),
           \A p : IsProducer(p)' => \/ IsProducer(p)
                                    \/ p \in Accounts /\ Total(delband[<<p, p>>]) >= MinSelfStake
    PROVE  StakingInv'
  <1>1. UNCHANGED <<delband, userres, refunds, stake_balance>>
    BY DEF bandwidth
  <1>2. BandwidthOK'
    BY <1>1 DEF StakingInv, BandwidthOK
  <1>3. Backed'
    BY <1>1 DEF StakingInv, Backed, Delegated, Waiting
  <1>4. \A a \in Accounts : UsedBy(a)'
    BY <1>1 DEF StakingInv, UsedBy, NetOf, CpuOf, GivenBy
  <1>5. \A p : IsProducer(p)' => p \in Accounts /\ Total(delband'[<<p, p>>]) >= MinSelfStake
    BY <1>1 DEF StakingInv
  <1> QED BY <1>2, <1>3, <1>4, <1>5 DEF StakingInv

\* refund pays what has waited.
LEMMA PayRefundStep ==
    ASSUME StakingInv, NEW owner \in DOMAIN refunds, PayRefund(owner),
           UNCHANGED <<votes, delband, userres>>
    PROVE  StakingInv'
  <1>1. /\ DOMAIN refunds' = DOMAIN refunds \ {owner}
        /\ \A x \in DOMAIN refunds' : refunds'[x] = refunds[x]
        /\ stake_balance' = stake_balance - Total(refunds[owner])
    BY DEF PayRefund, Restrict
  <1>2. UNCHANGED <<voters, producers, delband, userres>> /\ BandwidthOK /\ VotesInv
    BY DEF votes, StakingInv
  <1>3. Total(refunds[owner]) \in Int /\ stake_balance \in Int
    BY <1>2 DEF BandwidthOK, Total
  <1>4. /\ IsFiniteSet(DOMAIN refunds')
        /\ \A x \in DOMAIN refunds' : refunds'[x].net \in Nat /\ refunds'[x].cpu \in Nat
    BY <1>1, <1>2, FS_RemoveElement DEF BandwidthOK
  <1>5. BandwidthOK'
    BY <1>1, <1>2, <1>3, <1>4 DEF BandwidthOK
  <1>6. Backed'
    <2>0. /\ DOMAIN refunds \ {owner} = DOMAIN refunds' \ {owner}
          /\ \A x \in DOMAIN refunds \ {owner} : refunds[x] = refunds'[x]
          /\ (IF owner \in DOMAIN refunds THEN Total(refunds[owner]) ELSE 0) = Total(refunds[owner])
          /\ (IF owner \in DOMAIN refunds' THEN Total(refunds'[owner]) ELSE 0) = 0
      BY <1>1
    <2>1. Moves(SumFunction(Waiting), SumFunction(Waiting'), Total(refunds[owner]), 0)
      BY <2>0, <1>2, <1>3, <1>4, WaitingMoves
    <2>2. Delegated' = Delegated /\ SumFunction(Delegated) \in Int
      BY <1>2, TablesOfStake DEF Delegated
    <2>3. SumFunction(Waiting) \in Int /\ SumFunction(Waiting') \in Int
          /\ SumFunction(Waiting') = SumFunction(Waiting) - Total(refunds[owner])
      BY <1>3, <2>1 DEF Moves
    <2>4. stake_balance = SumFunction(Delegated) + SumFunction(Waiting)
      BY DEF StakingInv, Backed
    <2>5. stake_balance' = SumFunction(Delegated') + SumFunction(Waiting')
      BY <1>1, <1>3, <2>2, <2>3, <2>4
    <2> QED BY <2>5 DEF Backed
  <1>7. VotesKept
    BY <1>2, UnchangedVotes
  <1>8. \A a \in Accounts : UsedBy(a)'
    BY <1>2, <1>7 DEF StakingInv, UsedBy, NetOf, CpuOf, GivenBy, VotesKept
  <1>9. \A p : IsProducer(p)' => p \in Accounts /\ Total(delband'[<<p, p>>]) >= MinSelfStake
    BY <1>2, <1>7 DEF StakingInv, VotesKept
  <1> QED BY <1>5, <1>6, <1>7, <1>8, <1>9 DEF StakingInv, VotesKept

\* The producers that are registered or unregistered; their votes stay.
LEMMA SetActiveVotes ==
    ASSUME VotesInv, NEW p, NEW on \in BOOLEAN, UNCHANGED voters,
           producers' = [producers EXCEPT ![p].is_active = on]
    PROVE  /\ VotesInv' /\ \A a : StakedOf(a)' = StakedOf(a)
           /\ \A x : x # p => IsProducer(x)' = IsProducer(x)
           /\ p \in DOMAIN producers => IsProducer(p)' = on
           /\ p \notin DOMAIN producers => IsProducer(p)' = IsProducer(p)
  <1>1. /\ \A v \in DOMAIN voters : DOMAIN voters[v] = VoterFields
        /\ \A x \in DOMAIN producers : DOMAIN producers[x] = {"is_active", "total_votes"}
    BY VotesInvDef
  <1>2. /\ DOMAIN producers' = DOMAIN producers
        /\ \A x \in DOMAIN producers \ {p} : producers'[x] = producers[x]
        /\ p \in DOMAIN producers => /\ DOMAIN producers'[p] = {"is_active", "total_votes"}
                                     /\ producers'[p].is_active = on
    BY <1>1
  <1>3. VotesInv'
    <2>1. V!Votes'.voters = voters' /\ V!Votes'.producers = producers' /\ DOMAIN V!Votes' = VotesFields
      BY DEF V!Votes, VotesFields
    <2> QED BY <1>1, <1>2, <2>1 DEF VotesInv, IsVotes
  <1>4. \A a : StakedOf(a)' = StakedOf(a)
    BY DEF StakedOf
  <1>5. \A x : x # p => IsProducer(x)' = IsProducer(x)
    BY <1>2 DEF IsProducer
  <1>6. p \in DOMAIN producers => IsProducer(p)' = on
    BY <1>2 DEF IsProducer
  <1>7. p \notin DOMAIN producers => IsProducer(p)' = IsProducer(p)
    BY <1>2 DEF IsProducer
  <1> QED BY <1>3, <1>4, <1>5, <1>6, <1>7

LEMMA RegProducerStep ==
    ASSUME StakingInv, NEW p \in Candidates, RegProducer(p)
    PROVE  StakingInv'
  <1>1. /\ Total(delband[<<p, p>>]) >= MinSelfStake /\ p \in Accounts
        /\ UNCHANGED bandwidth /\ UNCHANGED voters /\ VotesInv
    BY StakingConstants DEF RegProducer, V!RegProducer, StakingInv
  <1>2. CASE p \in DOMAIN producers
    <2>1. producers' = [producers EXCEPT ![p].is_active = TRUE]
      BY <1>2 DEF RegProducer, V!RegProducer
    <2> QED BY <1>1, <2>1, SetActiveVotes, VotesOnlyStep
  <1>3. CASE p \notin DOMAIN producers
    <2> DEFINE row == [is_active |-> TRUE, total_votes |-> 0]
    <2>1. producers' = V!Row(producers, p, row)
      BY <1>3 DEF RegProducer, V!RegProducer
    <2>2. DOMAIN row = {"is_active", "total_votes"}
      OBVIOUS
    <2> HIDE DEF row
    <2>3. /\ DOMAIN producers' = DOMAIN producers \cup {p}
          /\ \A x \in DOMAIN producers' : producers'[x] = IF x = p THEN row ELSE producers[x]
      BY <2>1 DEF V!Row
    <2>4. /\ \A v \in DOMAIN voters : DOMAIN voters[v] = VoterFields
          /\ \A x \in DOMAIN producers : DOMAIN producers[x] = {"is_active", "total_votes"}
      BY <1>1, VotesInvDef
    <2>5. VotesInv'
      <3>1. V!Votes'.voters = voters' /\ V!Votes'.producers = producers' /\ DOMAIN V!Votes' = VotesFields
        BY DEF V!Votes, VotesFields
      <3> QED BY <1>1, <2>2, <2>3, <2>4, <3>1 DEF VotesInv, IsVotes
    <2>6. \A x : x # p => IsProducer(x)' = IsProducer(x)
      BY <2>3 DEF IsProducer
    <2>7. \A a : StakedOf(a)' = StakedOf(a)
      BY <1>1 DEF StakedOf
    <2> QED BY <1>1, <2>5, <2>6, <2>7, VotesOnlyStep
  <1> QED BY <1>2, <1>3

LEMMA VoteStep ==
    ASSUME StakingInv, Vote
    PROVE  StakingInv'
  <1>1. UNCHANGED bandwidth /\ VotesInv
    BY DEF Vote, StakingInv
  <1>2. ASSUME VotesKept PROVE StakingInv'
    BY <1>1, <1>2, VotesOnlyStep DEF VotesKept
  <1>3. ASSUME NEW v, NEW proxy, NEW prods, V!VoteProducer(v, proxy, prods)
        PROVE  StakingInv'
    <2>1. V!Become(V!UpdateVotes(V!Votes, v, proxy, prods))
      BY <1>3 DEF V!VoteProducer
    <2> QED BY <1>1, <1>2, <2>1, UpdateVotesKeeps, KeepsVotes DEF VotesInv
  <1>4. ASSUME NEW v, NEW on, V!RegProxy(v, on) PROVE StakingInv'
    BY <1>1, <1>2, <1>4, RegProxyVotes
  <1>5. ASSUME NEW p, V!UnregProd(p) PROVE StakingInv'
    <2>1. UNCHANGED voters /\ producers' = [producers EXCEPT ![p].is_active = FALSE] /\ p \in DOMAIN producers
      BY <1>5 DEF V!UnregProd
    <2> QED BY <1>1, <2>1, SetActiveVotes, VotesOnlyStep
  <1>6. CASE V!NextWeek
    BY <1>1, <1>2, <1>6, UnchangedVotes DEF V!NextWeek
  <1> QED BY <1>3, <1>4, <1>5, <1>6 DEF Vote

\* The check of undelegatebw is made with unsigned integers, and would let a
\* producer take back more than it has: that the amounts left are not negative
\* is checked later in the same action, and so the difference did not wrap.
LEMMA UndelegateStep ==
    ASSUME StakingInv, NEW from \in Accounts, NEW receiver \in Accounts, NEW q \in Quantities,
           Undelegatebw(from, receiver, q)
    PROVE  StakingInv'
  <1>1. q.net \in Nat /\ q.cpu \in Nat /\ WordModulus \in Nat \ {0} /\ MinSelfStake \in Nat
    BY StakingConstants
  <1>2. PICK d \in Amount : d = Minus(q)
    <2>1. Minus(q) \in Amount
      BY <1>1 DEF Minus, Amount
    <2> QED BY <2>1
  <1>3. /\ d.net = -q.net /\ d.cpu = -q.cpu
        /\ Total(d) \in Int /\ Total(q) \in Int /\ Total(d) = -Total(q)
    BY <1>1, <1>2 DEF Minus, Total
  <1>4. Changebw(from, receiver, d, FALSE) /\ KeepsSelfStake(from, q)
    BY <1>2 DEF Undelegatebw
  <1>5. ASSUME from = receiver, IsProducer(from)
        PROVE  Total(delband[<<from, from>>]) + Total(d) >= MinSelfStake
    <2>1. PICK own \in NatAmount : own = delband[<<from, from>>]
      BY DEF StakingInv, BandwidthOK
    <2>2. (Total(own) - Total(q)) % WordModulus >= MinSelfStake
      BY <1>4, <1>5, <2>1 DEF KeepsSelfStake, IsProducer
    <2>3. own.net + d.net >= 0 /\ own.cpu + d.cpu >= 0
      BY <1>4, <1>5, <2>1 DEF Changebw, Plus
    <2>4. own.net \in Nat /\ own.cpu \in Nat
      BY DEF NatAmount
    <2>5. Total(own) \in Int /\ Total(own) - Total(q) >= 0
      BY <1>1, <1>3, <2>3, <2>4 DEF Total
    <2>6. \A n \in Nat, m \in Nat \ {0} : n % m <= n /\ n % m \in Nat
      OBVIOUS
    <2>7. PICK n \in Nat : n = Total(own) - Total(q)
      BY <1>3, <2>5
    <2>8. n >= MinSelfStake
      BY <1>1, <2>2, <2>6, <2>7
    <2> QED BY <1>3, <2>1, <2>5, <2>7, <2>8
  <1> QED BY <1>4, <1>5, ChangebwStep

LEMMA DelegateStep ==
    ASSUME StakingInv, NEW from \in Accounts, NEW receiver \in Accounts, NEW q \in Quantities,
           NEW transfer \in BOOLEAN, Delegatebw(from, receiver, q, transfer)
    PROVE  StakingInv'
  <1>1. q \in Amount /\ Total(q) \in Int /\ Total(q) > 0 /\ Changebw(from, receiver, q, transfer)
    <2>1. q.net \in Nat /\ q.cpu \in Nat /\ q \in Amount
      BY StakingConstants DEF Amount
    <2> QED BY <2>1 DEF Delegatebw, Total
  <1>2. PICK own : own = IF transfer THEN receiver ELSE from
    OBVIOUS
  <1>3. ASSUME own = receiver, IsProducer(own)
        PROVE  Total(delband[<<own, own>>]) + Total(q) >= MinSelfStake
    <2>1. PICK old \in NatAmount : old = delband[<<own, own>>]
      BY <1>3 DEF StakingInv, BandwidthOK
    <2>2. Total(old) \in Int
      BY DEF NatAmount, Total
    <2>3. Total(old) >= MinSelfStake /\ MinSelfStake \in Nat
      BY <1>3, <2>1, StakingConstants DEF StakingInv
    <2> QED BY <1>1, <2>1, <2>2, <2>3
  <1> QED BY <1>1, <1>2, <1>3, ChangebwStep

LEMMA StakingStep == StakingInv /\ [Next]_vars => StakingInv'
  <1> SUFFICES ASSUME StakingInv, [Next]_vars PROVE StakingInv'
    OBVIOUS
  <1>1. ASSUME NEW from \in Accounts, NEW receiver \in Accounts, NEW q \in Quantities,
               NEW transfer \in BOOLEAN, Delegatebw(from, receiver, q, transfer)
        PROVE  StakingInv'
    BY <1>1, DelegateStep
  <1>2. ASSUME NEW from \in Accounts, NEW receiver \in Accounts, NEW q \in Quantities,
               Undelegatebw(from, receiver, q)
        PROVE  StakingInv'
    BY <1>2, UndelegateStep
  <1>3. ASSUME NEW a, Refund(a) PROVE StakingInv'
    BY <1>3, PayRefundStep DEF Refund, MayRefund
  <1>4. ASSUME UNCHANGED <<voters, producers, delband, userres, refunds, stake_balance>>
        PROVE  StakingInv'
    <2>1. VotesKept
      BY <1>4, UnchangedVotes DEF StakingInv
    <2>2. BandwidthOK'
      BY <1>4 DEF StakingInv, BandwidthOK
    <2>3. Backed'
      BY <1>4 DEF StakingInv, Backed, Delegated, Waiting
    <2>4. \A a \in Accounts : UsedBy(a)'
      BY <1>4, <2>1 DEF StakingInv, UsedBy, NetOf, CpuOf, GivenBy, VotesKept
    <2>5. \A p : IsProducer(p)' => p \in Accounts /\ Total(delband'[<<p, p>>]) >= MinSelfStake
      BY <1>4, <2>1 DEF StakingInv, VotesKept
    <2> QED BY <2>1, <2>2, <2>3, <2>4, <2>5 DEF StakingInv, VotesKept
  <1>5. ASSUME NEW a, RunDeferred(a) PROVE StakingInv'
    <2>1. CASE MayRefund(a) /\ PayRefund(a)
      BY <1>5, <2>1, PayRefundStep DEF RunDeferred, MayRefund
    <2>2. CASE UNCHANGED <<refunds, balance, stake_balance>>
      BY <1>4, <1>5, <2>2 DEF RunDeferred, votes
    <2> QED BY <1>5, <2>1, <2>2 DEF RunDeferred
  <1>6. ASSUME NEW p \in Candidates, RegProducer(p) PROVE StakingInv'
    BY <1>6, RegProducerStep
  <1>7. CASE Vote
    BY <1>7, VoteStep
  <1>8. CASE Tick \/ UNCHANGED vars
    BY <1>4, <1>8 DEF Tick, vars, votes, bandwidth
  <1> QED BY <1>1, <1>2, <1>3, <1>5, <1>6, <1>7, <1>8 DEF Next

LEMMA StakingInit == Init => StakingInv
  <1> SUFFICES ASSUME Init PROVE StakingInv
    OBVIOUS
  <1>1. /\ None \in NatAmount /\ None \in Amount /\ None.net = 0 /\ None.cpu = 0 /\ Total(None) = 0
    BY DEF None, NatAmount, Amount, Total
  <1>2. /\ delband = [x \in Accounts \X Accounts |-> None]
        /\ userres = [a \in Accounts |-> None]
        /\ DOMAIN refunds = {} /\ stake_balance = 0
        /\ DOMAIN voters = {} /\ DOMAIN producers = {}
    BY DEF Init, V!Init
  <1> HIDE DEF None
  <1>3. BandwidthOK
    BY <1>1, <1>2, FS_EmptySet DEF BandwidthOK
  <1>4. VotesInv /\ \A a : StakedOf(a) = 0 /\ ~IsProducer(a)
    BY <1>2, VotesInvDef DEF StakedOf, IsProducer
  <1>5. Backed
    <2>1. SumFunction(Waiting) = 0
      BY <1>2, SumOfNone DEF Waiting
    <2>2. /\ IsFiniteSet(DOMAIN Delegated)
          /\ \A x \in DOMAIN Delegated : Delegated[x] = 0
      BY <1>1, <1>2, StakingConstants, FS_Product DEF Delegated
    <2>3. SumFunction(Delegated) = 0
      BY <2>2, SumZero DEF SumFunction
    <2> QED BY <1>2, <2>1, <2>3 DEF Backed
  <1>6. ASSUME NEW a \in Accounts PROVE UsedBy(a)
    <2>1. /\ DOMAIN NetOf(a) = Accounts /\ DOMAIN CpuOf(a) = Accounts /\ DOMAIN GivenBy(a) = Accounts
          /\ \A b \in Accounts : NetOf(a)[b] = 0 /\ CpuOf(a)[b] = 0 /\ GivenBy(a)[b] = 0
      BY <1>1, <1>2 DEF NetOf, CpuOf, GivenBy
    <2>2. SumFunction(NetOf(a)) = 0 /\ SumFunction(CpuOf(a)) = 0 /\ SumFunction(GivenBy(a)) = 0
      BY <2>1, SumZero, StakingConstants DEF SumFunction
    <2> QED BY <1>1, <1>2, <1>4, <2>2 DEF UsedBy
  <1> QED BY <1>3, <1>4, <1>5, <1>6 DEF StakingInv

\* The tokens of eosio.stake are those delegated and those that wait, after any
\* sequence of delegations, restakes, refunds and failed deferred refunds.
THEOREM StakeCorrect == Spec => []StakeIsBacked
  BY StakingInit, StakingStep, StakingProperties, PTL DEF Spec

\* Bandwidth and votes are exactly what is delegated: nothing that is voted,
\* propagated or registered in between changes the stake that is voted with.
THEOREM UseCorrect == Spec => []StakeIsUsed
  BY StakingInit, StakingStep, StakingProperties, PTL DEF Spec

\* No sequence of actions takes the self-stake of a registered producer below
\* its minimum, for any range of the unsigned integers.
THEOREM ProducersCorrect == Spec => []ProducersKeepStake
  BY StakingInit, StakingStep, StakingProperties, PTL DEF Spec

\* What waits for an account is never more than what eosio.stake holds, so that
\* only the time can make refund fail.
LEMMA RefundsAreHeld ==
    ASSUME StakingInv, NEW a \in DOMAIN refunds
    PROVE  stake_balance >= Total(refunds[a])
  <1>1. BandwidthOK /\ stake_balance \in Int
    BY DEF StakingInv, BandwidthOK
  <1>2. stake_balance = SumFunction(Delegated) + SumFunction(Waiting)
    BY DEF StakingInv, Backed
  <1>3. SumFunction(Delegated) \in Nat
    <2>1. IsFiniteSet(DOMAIN Delegated)
      BY <1>1, TablesOfStake
    <2>2. \A x \in DOMAIN Delegated : Delegated[x] \in Nat
      BY <1>1 DEF Delegated, BandwidthOK, NatAmount, Total
    <2> QED BY <2>1, <2>2, SumNat DEF SumFunction
  <1>4. SumFunction(Waiting) \in Int /\ Total(refunds[a]) \in Nat /\ Total(refunds[a]) <= SumFunction(Waiting)
    <2>1. /\ IsFiniteSet(DOMAIN Waiting) /\ DOMAIN Waiting = DOMAIN refunds
          /\ \A x \in DOMAIN Waiting : Waiting[x] \in Nat /\ Waiting[x] = Total(refunds[x])
      BY <1>1 DEF Waiting, BandwidthOK, Total
    <2> QED BY <1>1, <2>1, SumBounds, TablesOfStake DEF SumFunction
  <1> QED BY <1>1, <1>2, <1>3, <1>4

\* refund can always pay what it owes, whatever else is owed and delegated.
THEOREM RefundsCanBePaid ==
    Spec => [](\A a \in DOMAIN refunds : stake_balance >= Total(refunds[a]))
  <1>1. StakingInv => \A a \in DOMAIN refunds : stake_balance >= Total(refunds[a])
    BY RefundsAreHeld
  <1> QED BY <1>1, StakingInit, StakingStep, PTL DEF Spec
=============================================================================
