------------------------------- MODULE Staking -------------------------------
(***************************************************************************)
(* Staking of tokens for bandwidth in eosio.system: delegatebw,            *)
(* undelegatebw and refund (delegate_bandwidth.cpp), composed with the     *)
(* votes that the stake gives (module Voting).                             *)
(*                                                                         *)
(* Staked tokens lie with eosio.stake.  What an account takes back waits   *)
(* there as a refund, which a deferred transaction pays when the delay is  *)
(* over.  A row that would hold nothing is erased; here a pair of accounts *)
(* without a row has the amount None.  The caller is never eosio.stake     *)
(* itself, which stakes without moving tokens.                             *)
(***************************************************************************)
EXTENDS Integers, FiniteSets, Functions

CONSTANTS
    Accounts, Candidates, NoProxy, MaxVotes, Growth, StakeChanges,
    MinActivatedStake, MinActivatedWeek, MaxStake,      \* of Voting
    Quantities,         \* amounts [net, cpu] given to delegatebw and undelegatebw
    Liquid,             \* Liquid[a]: tokens a has at first
    MinSelfStake,       \* 10 million UTX
    RefundDelay,        \* refund_delay_sec
    WordModulus,        \* 2^64: the range of uint64_t
    MaxTime             \* bound on the time

VARIABLES
    voters, producers, total_vote_weight, activated_stake, activated, voted, week,
    delband,            \* table delband: <<from, to>> -> amount
    userres,            \* table userres: account -> amount, without its RAM
    refunds,            \* table refunds: account -> [net, cpu, time]
    deferred,           \* the scheduled refunds: account -> due time
    balance,            \* liquid tokens of the accounts
    stake_balance,      \* tokens of eosio.stake
    now

V == INSTANCE Voting

bandwidth == <<delband, userres, refunds, deferred, balance, stake_balance>>
votes == <<voters, producers, total_vote_weight, activated_stake, activated, voted, week>>
vars == <<votes, bandwidth, now>>

Amount == [net : Int, cpu : Int]
None == [net |-> 0, cpu |-> 0]
Total(x) == x.net + x.cpu
Plus(x, d) == [net |-> x.net + d.net, cpu |-> x.cpu + d.cpu]
Minus(d) == [net |-> -d.net, cpu |-> -d.cpu]
Positive(i) == IF i > 0 THEN i ELSE 0

ASSUME StakingConstants ==
    /\ IsFiniteSet(Accounts) /\ Candidates \subseteq Accounts
    /\ Quantities \subseteq [net : Nat, cpu : Nat]
    /\ \A q \in Quantities : {Total(q), -Total(q)} \subseteq StakeChanges
    /\ Liquid \in [Accounts -> Nat]
    /\ MinSelfStake \in Nat \ {0}
    /\ RefundDelay \in Nat
    /\ WordModulus \in Nat \ {0}
    /\ MaxTime \in Nat

-----------------------------------------------------------------------------
\* What waits for the account, with or without a row.
Refunded(a) ==
    IF a \in DOMAIN refunds THEN [net |-> refunds[a].net, cpu |-> refunds[a].cpu] ELSE None

\* What is left of the refund r when d is staked (or, below zero, taken back).
RefundLeft(r, d) == [net |-> Positive(r.net - d.net), cpu |-> Positive(r.cpu - d.cpu)]

BugPaidTwice(r, d) == Positive(d.net) + Positive(d.cpu)

\* What staking d costs when the refund r is used first.
Paid(r, d) == Positive(d.net - r.net) + Positive(d.cpu - r.cpu)

BugScheduleOnce(a, left, time) ==
    IF left = None
    THEN /\ refunds' = Restrict(refunds, DOMAIN refunds \ {a})
         /\ deferred' = Restrict(deferred, DOMAIN deferred \ {a})
    ELSE /\ refunds' = V!Row(refunds, a, [net |-> left.net, cpu |-> left.cpu, time |-> time])
         /\ deferred' = IF a \in DOMAIN deferred THEN deferred
                        ELSE V!Row(deferred, a, now + RefundDelay)

\* The rest of the refund, if any, becomes the refund of a, scheduled anew.
ScheduleRefund(a, left, time) ==
    IF left = None
    THEN /\ refunds' = Restrict(refunds, DOMAIN refunds \ {a})
         /\ deferred' = Restrict(deferred, DOMAIN deferred \ {a})
    ELSE /\ refunds' = V!Row(refunds, a, [net |-> left.net, cpu |-> left.cpu, time |-> time])
         /\ deferred' = V!Row(deferred, a, now + RefundDelay)

(***************************************************************************)
(* The third block of changebw: who stakes for itself first uses the       *)
(* refund it is waiting for, who takes back adds to it.  Any other stake   *)
(* is paid by the source and cancels the scheduled refund of the owner.    *)
(***************************************************************************)
ChangeRefund(source, owner, d, self) ==
    LET r == Refunded(owner)
        uses == self \/ Total(d) < 0
        paid == IF uses THEN Paid(r, d) ELSE Total(d)
        time == IF Total(d) < 0 \/ r = None THEN now ELSE refunds[owner].time
    IN  /\ IF uses
           THEN ScheduleRefund(owner, RefundLeft(r, d), time)
           ELSE /\ deferred' = Restrict(deferred, DOMAIN deferred \ {owner})
                /\ UNCHANGED refunds
        /\ balance[source] >= paid
        /\ balance' = [balance EXCEPT ![source] = @ - paid]
        /\ stake_balance' = stake_balance + paid

BugVoteOfSource(from, receiver, d, transfer) ==
    LET owner == IF transfer THEN receiver ELSE from
        delegated == Plus(delband[<<owner, receiver>>], d)
        weight == Plus(userres[receiver], d)
    IN  /\ delegated.net >= 0 /\ delegated.cpu >= 0
        /\ weight.net >= 0 /\ weight.cpu >= 0
        /\ delband' = [delband EXCEPT ![<<owner, receiver>>] = delegated]
        /\ userres' = [userres EXCEPT ![receiver] = weight]
        /\ ChangeRefund(from, owner, d, ~transfer /\ from = receiver)
        /\ V!MayChangeStake(V!Votes, from, Total(d))
        /\ V!Become(V!VotingPower(V!Votes, from, Total(d)))
        /\ UNCHANGED <<voted, week, now>>

\* changebw(from, receiver, d, transfer)
Changebw(from, receiver, d, transfer) ==
    LET owner == IF transfer THEN receiver ELSE from
        delegated == Plus(delband[<<owner, receiver>>], d)
        weight == Plus(userres[receiver], d)
    IN  /\ delegated.net >= 0 /\ delegated.cpu >= 0
        /\ weight.net >= 0 /\ weight.cpu >= 0
        /\ delband' = [delband EXCEPT ![<<owner, receiver>>] = delegated]
        /\ userres' = [userres EXCEPT ![receiver] = weight]
        /\ ChangeRefund(from, owner, d, ~transfer /\ from = receiver)
        /\ V!MayChangeStake(V!Votes, owner, Total(d))
        /\ V!Become(V!VotingPower(V!Votes, owner, Total(d)))
        /\ UNCHANGED <<voted, week, now>>

\* undelegatebw asks this of a registered producer, in unsigned arithmetic.
KeepsSelfStake(from, q) ==
    from \in DOMAIN producers /\ producers[from].is_active =>
        LET own == delband[<<from, from>>]
        IN  own # None /\ (Total(own) - Total(q)) % WordModulus >= MinSelfStake

Delegatebw(from, receiver, q, transfer) ==
    /\ Total(q) > 0
    /\ transfer => from # receiver
    /\ Changebw(from, receiver, q, transfer)

BugUndelegateEarly(from, receiver, q) ==
    /\ KeepsSelfStake(from, q)
    /\ Total(q) > 0
    /\ Changebw(from, receiver, Minus(q), FALSE)

Undelegatebw(from, receiver, q) ==
    /\ KeepsSelfStake(from, q)
    /\ Total(q) > 0
    /\ activated
    /\ Changebw(from, receiver, Minus(q), FALSE)

\* What refund(owner) checks.
MayRefund(owner) ==
    /\ owner \in DOMAIN refunds
    /\ refunds[owner].time + RefundDelay <= now
    /\ stake_balance >= Total(refunds[owner])

PayRefund(owner) ==
    /\ balance' = [balance EXCEPT ![owner] = @ + Total(refunds[owner])]
    /\ stake_balance' = stake_balance - Total(refunds[owner])
    /\ refunds' = Restrict(refunds, DOMAIN refunds \ {owner})

Refund(owner) ==
    /\ MayRefund(owner)
    /\ PayRefund(owner)
    /\ UNCHANGED <<votes, delband, userres, deferred, now>>

\* The node runs the scheduled refund once it is due, or drops it: if it fails
\* or expires it is gone.
RunDeferred(a) ==
    /\ a \in DOMAIN deferred /\ deferred[a] <= now
    /\ deferred' = Restrict(deferred, DOMAIN deferred \ {a})
    /\ \/ MayRefund(a) /\ PayRefund(a)
       \/ UNCHANGED <<refunds, balance, stake_balance>>
    /\ UNCHANGED <<votes, delband, userres, now>>

\* register_producer, with the stake it asks for.
RegProducer(p) ==
    /\ Total(delband[<<p, p>>]) >= MinSelfStake
    /\ V!RegProducer(p)
    /\ UNCHANGED <<bandwidth, now>>

Tick ==
    /\ now < MaxTime
    /\ now' = now + 1
    /\ UNCHANGED <<votes, bandwidth>>

Init ==
    /\ V!Init
    /\ delband = [x \in Accounts \X Accounts |-> None]
    /\ userres = [a \in Accounts |-> None]
    /\ refunds = [a \in {} |-> None]
    /\ deferred = [a \in {} |-> 0]
    /\ balance = Liquid
    /\ stake_balance = 0
    /\ now = 0

\* The actions of Voting that do not touch the stake.
Vote ==
    /\ \/ \E v \in Accounts : \/ \E proxy \in Accounts : V!VoteProducer(v, proxy, {})
                              \/ \E prods \in SUBSET Candidates : V!VoteProducer(v, NoProxy, prods)
                              \/ \E on \in BOOLEAN : V!RegProxy(v, on)
       \/ \E p \in Candidates : V!UnregProd(p)
       \/ V!NextWeek
    /\ UNCHANGED <<bandwidth, now>>

Next ==
    \/ \E from, receiver \in Accounts, q \in Quantities :
            \/ \E transfer \in BOOLEAN : Delegatebw(from, receiver, q, transfer)
            \/ Undelegatebw(from, receiver, q)
    \/ \E a \in Accounts : Refund(a) \/ RunDeferred(a)
    \/ \E p \in Candidates : RegProducer(p)
    \/ Vote
    \/ Tick

Spec == Init /\ [][Next]_vars

-----------------------------------------------------------------------------
\* The sum of f over S.
Sum(S, f(_)) == SumFunction([x \in S |-> f(x)])

\* The tokens of eosio.stake are exactly those that are delegated and those
\* that wait to be refunded, so that refund can always pay.
StakeIsBacked ==
    stake_balance = Sum(Accounts \X Accounts, LAMBDA x : Total(delband[x]))
                    + Sum(DOMAIN refunds, LAMBDA a : Total(refunds[a]))

\* The tokens an account votes with.
StakedBy(a) == IF a \in DOMAIN voters THEN voters[a].staked ELSE 0

\* An account has the bandwidth that all accounts delegate to it, and votes
\* with all that it delegates, whoever has paid for it.
StakeIsUsed ==
    \A a \in Accounts :
        /\ userres[a].net = Sum(Accounts, LAMBDA b : delband[<<b, a>>].net)
        /\ userres[a].cpu = Sum(Accounts, LAMBDA b : delband[<<b, a>>].cpu)
        /\ Sum(Accounts, LAMBDA b : Total(delband[<<a, b>>])) = StakedBy(a)

\* A registered producer has its minimal stake staked to itself, whatever it
\* takes back, also from others: undelegatebw subtracts what it takes from any
\* account from its own stake with unsigned integers, and more than that wraps
\* around and passes the check.
ProducersKeepStake ==
    \A p \in DOMAIN producers : producers[p].is_active => Total(delband[<<p, p>>]) >= MinSelfStake

\* No scheduled refund runs before its refund is available, so none is lost
\* to the check "refund is not available yet".
DeferredInTime ==
    \A a \in DOMAIN deferred \cap DOMAIN refunds : deferred[a] >= refunds[a].time + RefundDelay

\* Staking does to the votes what Voting says: it changes the stake of one
\* voter, and takes stake back only after the activation.
ImplementsVoting == V!Spec

\* eosio.system.hpp, undelegatebw: "Unstaked tokens are transferred to `from`
\* liquid balance via a deferred transaction with a delay of 3 days".
RefundsAreScheduled == DOMAIN refunds \subseteq DOMAIN deferred

\* Ricardian contract of undelegatebw: the sum "will be removed from the vote
\* weight of {{receiver}}".
UnstakedLeavesReceiver ==
    [][\A from, receiver \in Accounts :
         LET taken == Total(delband[<<from, receiver>>]) - Total(delband'[<<from, receiver>>])
         IN  taken > 0 => StakedBy(receiver)' = StakedBy(receiver) - taken]_vars
=============================================================================
