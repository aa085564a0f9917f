-------------------------------- MODULE Msig --------------------------------
(***************************************************************************)
(* The eosio.msig contract: proposals of transactions, the approvals of    *)
(* the permission levels a proposal asks, and their execution as deferred  *)
(* transactions (eosio.msig.cpp, eosio.msig.hpp).                          *)
(*                                                                         *)
(* Two generations of the approvals table exist.  Rows of the old one were *)
(* written before the contract kept the times of approvals; nothing makes  *)
(* new ones, but their proposals can still be approved and executed.       *)
(*                                                                         *)
(* consent is a history variable: what the owners of the permission levels *)
(* have said and not taken back, which the contract does not store.        *)
(***************************************************************************)
EXTENDS Integers, FiniteSets, Sequences

CONSTANTS
    Proposers,      \* accounts that propose
    ProposalNames,  \* names of proposals
    Levels,         \* permission levels: [actor, permission]
    Trxs,           \* transactions: [body, expiration : Nat]
    RequestedLists, \* lists of levels a proposal may request
    Authorities,    \* states of the accounts' permissions: each gives, for
                    \* every transaction, the sets of levels that suffice
    Legacy,         \* proposals from before the new table: key -> [trx, requested]
    NoHash,         \* approve is called without proposal_hash
    MaxTime         \* bound on the clock

\* A proposal is found by the scope and the name of its row.
Keys == Proposers \X ProposalNames

Actors == {l.actor : l \in Levels}

ASSUME MsigConstants ==
    /\ \A r \in RequestedLists : r \in Seq(Levels)
    /\ \A t \in Trxs : t.expiration \in Nat
    /\ NoHash \notin Trxs
    /\ DOMAIN Legacy \subseteq Keys
    /\ \A k \in DOMAIN Legacy : /\ Legacy[k].trx \in Trxs
                                /\ Legacy[k].requested \in RequestedLists
    /\ MaxTime \in Nat

VARIABLES
    proposals,      \* table proposal: key -> packed_transaction
    approvals,      \* table approvals2: key -> list of slots
    old_approvals,  \* table approvals: key -> list of slots
    invalidations,  \* table invals: account -> last_invalidation_time
    deferred,       \* transactions exec has sent and that have not run yet
    authority,      \* the accounts' permissions
    consent,        \* level -> what its owner stands by: [key, trx]
    now             \* current_time_point()

vars == <<proposals, approvals, old_approvals, invalidations, deferred,
          authority, consent, now>>

-----------------------------------------------------------------------------
(***************************************************************************)
(* The requested and the provided approvals of a row together: one slot    *)
(* for every entry of the requested list, approved once the entry is among *)
(* the provided ones.  time is that of the last change.                    *)
(***************************************************************************)
Slots == [level : Levels, approved : BOOLEAN, time : Nat]

BugRequestedSentinel(list) ==
    [i \in DOMAIN list |-> [level |-> list[i], approved |-> FALSE, time |-> -1]]

\* The slots of a new proposal.
Requested(list) ==
    [i \in DOMAIN list |-> [level |-> list[i], approved |-> FALSE, time |-> 0]]

\* check_transaction_authorization: do the levels in S authorise trx now?
CheckAuthorization(trx, S) == \E q \in authority[trx] : q \subseteq S

\* f with the value v at k, and f without k.
With(f, k, v) == [x \in DOMAIN f \cup {k} |-> IF x = k THEN v ELSE f[x]]
Without(f, k) == [x \in DOMAIN f \ {k} |-> f[x]]

\* exec counts the approval of a slot of the new table.
Counts(s) == s.approved /\ (s.level.actor \in DOMAIN invalidations
                                => invalidations[s.level.actor] < s.time)

\* exec counts the approval of a slot of the old table.
OldCounts(s) == s.approved /\ s.level.actor \notin DOMAIN invalidations

\* The levels exec counts for the proposal k.
CountedLevels(k) ==
    IF k \in DOMAIN approvals
    THEN {approvals[k][i].level : i \in {j \in DOMAIN approvals[k] : Counts(approvals[k][j])}}
    ELSE {old_approvals[k][i].level :
              i \in {j \in DOMAIN old_approvals[k] : OldCounts(old_approvals[k][j])}}

-----------------------------------------------------------------------------
Init ==
    /\ proposals = [k \in DOMAIN Legacy |-> Legacy[k].trx]
    /\ approvals = <<>>
    /\ old_approvals = [k \in DOMAIN Legacy |-> Requested(Legacy[k].requested)]
    /\ invalidations = <<>>
    /\ deferred = <<>>
    /\ authority \in Authorities
    /\ consent = [l \in Levels |-> {}]
    /\ now = 0

\* propose(k[1], k[2], requested, trx)
Propose(k, requested, trx) ==
    /\ trx.expiration >= now
    /\ k \notin DOMAIN proposals
    /\ k \notin DOMAIN approvals
    /\ CheckAuthorization(trx, {requested[i] : i \in DOMAIN requested})
    /\ proposals' = With(proposals, k, trx)
    /\ approvals' = With(approvals, k, Requested(requested))
    /\ UNCHANGED <<old_approvals, invalidations, deferred, authority, consent, now>>

\* The outcomes of approving an entry that asks for the level l.
Approving(slots, l) ==
    {[slots EXCEPT ![i] = [level |-> l, approved |-> TRUE, time |-> now]] :
        i \in {j \in DOMAIN slots : slots[j].level = l /\ ~slots[j].approved}}

\* The entries approved by l.
ApprovedBy(slots, l) == {i \in DOMAIN slots : slots[i].level = l /\ slots[i].approved}

(***************************************************************************)
(* The outcomes of taking back an approval by l.  Provided approvals are   *)
(* in the order they came in and the first one found is erased.            *)
(***************************************************************************)
Unapproving(slots, l) ==
    {[slots EXCEPT ![i] = [level |-> l, approved |-> FALSE, time |-> now]] :
        i \in {j \in ApprovedBy(slots, l) :
                 \A m \in ApprovedBy(slots, l) : slots[j].time <= slots[m].time}}

BugHashUnchecked(k, hash) == hash # NoHash => k \in DOMAIN proposals

\* assert_sha256: the hash, where it is given, is that of the proposal.
HashMatches(k, hash) == hash # NoHash => k \in DOMAIN proposals /\ proposals[k] = hash

(***************************************************************************)
(* approve(k[1], k[2], l, hash).  With a hash the owner of l consents to   *)
(* the transaction it is the hash of, without one to what is proposed.     *)
(***************************************************************************)
Approve(k, l, hash) ==
    /\ HashMatches(k, hash)
    /\ \/ /\ k \in DOMAIN approvals
          /\ \E after \in Approving(approvals[k], l) :
                approvals' = [approvals EXCEPT ![k] = after]
          /\ UNCHANGED old_approvals
       \/ /\ k \in DOMAIN old_approvals \ DOMAIN approvals
          /\ \E after \in Approving(old_approvals[k], l) :
                old_approvals' = [old_approvals EXCEPT ![k] = after]
          /\ UNCHANGED approvals
    /\ consent' = [consent EXCEPT ![l] =
            @ \cup {[key |-> k, trx |-> IF hash = NoHash THEN proposals[k] ELSE hash]}]
    /\ UNCHANGED <<proposals, invalidations, deferred, authority, now>>

\* unapprove(k[1], k[2], l)
Unapprove(k, l) ==
    /\ \/ /\ k \in DOMAIN approvals
          /\ \E after \in Unapproving(approvals[k], l) :
                approvals' = [approvals EXCEPT ![k] = after]
          /\ UNCHANGED old_approvals
       \/ /\ k \in DOMAIN old_approvals \ DOMAIN approvals
          /\ \E after \in Unapproving(old_approvals[k], l) :
                old_approvals' = [old_approvals EXCEPT ![k] = after]
          /\ UNCHANGED approvals
    /\ consent' = [consent EXCEPT ![l] = {c \in @ : c.key # k}]
    /\ UNCHANGED <<proposals, invalidations, deferred, authority, now>>

BugEraseApprovalsOldOnly(k) ==
    /\ k \in DOMAIN approvals \cup DOMAIN old_approvals
    /\ old_approvals' = Without(old_approvals, k)
    /\ UNCHANGED approvals

\* The row of k leaves the new table of approvals, or else the old one.
EraseApprovals(k) ==
    \/ /\ k \in DOMAIN approvals
       /\ approvals' = Without(approvals, k)
       /\ UNCHANGED old_approvals
    \/ /\ k \in DOMAIN old_approvals \ DOMAIN approvals
       /\ old_approvals' = Without(old_approvals, k)
       /\ UNCHANGED approvals

\* cancel(k[1], k[2], canceler)
Cancel(k, canceler) ==
    /\ k \in DOMAIN proposals
    /\ canceler # k[1] => proposals[k].expiration < now
    /\ proposals' = Without(proposals, k)
    /\ EraseApprovals(k)
    /\ UNCHANGED <<invalidations, deferred, authority, consent, now>>

(***************************************************************************)
(* exec(k[1], k[2], executer).  send_deferred does not replace: it fails   *)
(* while a transaction sent for the same key has not run.                  *)
(***************************************************************************)
Exec(k) ==
    /\ k \in DOMAIN proposals
    /\ proposals[k].expiration >= now
    /\ EraseApprovals(k)
    /\ CheckAuthorization(proposals[k], CountedLevels(k))
    /\ k \notin DOMAIN deferred
    /\ deferred' = With(deferred, k, proposals[k])
    /\ proposals' = Without(proposals, k)
    /\ UNCHANGED <<invalidations, authority, consent, now>>

\* invalidate(account): its owner takes all approvals back.
Invalidate(account) ==
    /\ invalidations' = With(invalidations, account, now)
    /\ consent' = [l \in Levels |-> IF l.actor = account THEN {} ELSE consent[l]]
    /\ UNCHANGED <<proposals, approvals, old_approvals, deferred, authority, now>>

-----------------------------------------------------------------------------
\* The node runs a deferred transaction, or drops it when it fails.
RunDeferred(k) ==
    /\ k \in DOMAIN deferred
    /\ deferred' = Without(deferred, k)
    /\ UNCHANGED <<proposals, approvals, old_approvals, invalidations, authority, consent, now>>

\* The owners of accounts change permissions (updateauth, deleteauth).
ChangeAuthority ==
    /\ authority' \in Authorities
    /\ UNCHANGED <<proposals, approvals, old_approvals, invalidations, deferred, consent, now>>

Tick ==
    /\ now < MaxTime
    /\ now' = now + 1
    /\ UNCHANGED <<proposals, approvals, old_approvals, invalidations, deferred,
                   authority, consent>>

Next ==
    \/ \E k \in Keys, r \in RequestedLists, t \in Trxs : Propose(k, r, t)
    \/ \E k \in Keys, l \in Levels, hash \in Trxs \cup {NoHash} : Approve(k, l, hash)
    \/ \E k \in Keys, l \in Levels : Unapprove(k, l)
    \/ \E k \in Keys, c \in Proposers \cup Actors : Cancel(k, c)
    \/ \E k \in Keys : Exec(k) \/ RunDeferred(k)
    \/ \E a \in Actors : Invalidate(a)
    \/ ChangeAuthority
    \/ Tick

Spec == Init /\ [][Next]_vars

-----------------------------------------------------------------------------
\* The tables hold values of the types they declare.
TypeOK ==
    /\ DOMAIN proposals \subseteq Keys
    /\ \A k \in DOMAIN proposals : proposals[k] \in Trxs
    /\ DOMAIN approvals \subseteq Keys
    /\ \A k \in DOMAIN approvals : approvals[k] \in Seq(Slots)
    /\ DOMAIN old_approvals \subseteq Keys
    /\ \A k \in DOMAIN old_approvals : old_approvals[k] \in Seq(Slots)
    /\ DOMAIN invalidations \subseteq Actors
    /\ \A a \in DOMAIN invalidations : invalidations[a] \in 0..now
    /\ DOMAIN deferred \subseteq Keys
    /\ \A k \in DOMAIN deferred : deferred[k] \in Trxs
    /\ authority \in Authorities
    /\ consent \in [Levels -> SUBSET [key : Keys, trx : Trxs]]
    /\ now \in 0..MaxTime

\* Every proposal has its approvals in exactly one of the two tables, and no
\* approvals are left behind for a proposal of the same name that follows:
\* propose, cancel and exec keep the three tables together.
TablesInSync ==
    /\ DOMAIN approvals \cap DOMAIN old_approvals = {}
    /\ DOMAIN proposals = DOMAIN approvals \cup DOMAIN old_approvals

\* Approvals are never dated after the present.
ApprovalsArePast ==
    \A k \in DOMAIN approvals : \A i \in DOMAIN approvals[k] :
        approvals[k][i].time <= now

\* No level is asked for twice.
AskedOnce(slots) ==
    \A i, j \in DOMAIN slots : slots[i].level = slots[j].level => i = j

LevelsAskedOnce ==
    /\ \A k \in DOMAIN approvals : AskedOnce(approvals[k])
    /\ \A k \in DOMAIN old_approvals : AskedOnce(old_approvals[k])

\* Every approval exec would count belongs to a level whose owner stands by
\* the very transaction that is proposed under that name: not by an earlier
\* proposal of the name, and neither unapproved nor invalidated since.
ApprovalsAreConsented ==
    /\ \A k \in DOMAIN approvals : \A i \in DOMAIN approvals[k] :
            Counts(approvals[k][i]) =>
                [key |-> k, trx |-> proposals[k]] \in consent[approvals[k][i].level]
    /\ \A k \in DOMAIN old_approvals : \A i \in DOMAIN old_approvals[k] :
            OldCounts(old_approvals[k][i]) =>
                [key |-> k, trx |-> proposals[k]] \in consent[old_approvals[k][i].level]

\* The inductive invariant of the contract.
MsigInv ==
    /\ TablesInSync
    /\ ApprovalsArePast
    /\ LevelsAskedOnce
    /\ ApprovalsAreConsented

\* The step sends the transaction of the proposal k.
Sends(k) == k \notin DOMAIN deferred /\ k \in DOMAIN deferred'

\* What the step sends is authorised by levels whose owners stand by it.
SendsOnlyConsented ==
    \A k \in Keys : Sends(k) =>
        \E q \in authority[deferred'[k]] : \A l \in q :
            [key |-> k, trx |-> deferred'[k]] \in consent[l]

\* Whatever is proposed, cancelled, approved late, taken back, invalidated or
\* changed in the accounts' permissions, exec sends only a transaction that
\* enough owners stand by at that moment.
ExecIsConsented == [][SendsOnlyConsented]_vars

\* eosio.msig.hpp, exec: "all requested approvals are received".
ExecHasAllApprovals ==
    [][\A k \in DOMAIN approvals : Sends(k) =>
          \A i \in DOMAIN approvals[k] : approvals[k][i].approved]_vars

\* eosio.msig.hpp, exec: "approval accounts are not found in invalidations
\* table".
ExecHasNoInvalidations ==
    [][\A k \in DOMAIN approvals : Sends(k) =>
          \A i \in DOMAIN approvals[k] :
              approvals[k][i].approved =>
                  approvals[k][i].level.actor \notin DOMAIN invalidations]_vars

\* eosio.msig.hpp, unapprove: "the `level` permission is erased from internal
\* `provided_approvals`", which revokes the approval.
UnapproveRevokes ==
    [][\A k \in DOMAIN approvals \cap DOMAIN approvals' : \A l \in Levels :
          Cardinality(ApprovedBy(approvals'[k], l)) < Cardinality(ApprovedBy(approvals[k], l))
              => ApprovedBy(approvals'[k], l) = {}]_vars
=============================================================================
