------------------------------- MODULE MCMsig -------------------------------
(***************************************************************************)
(* Instances of Msig for TLC.  Two transactions of different expiration    *)
(* compete for one name; alice has two levels, so that her invalidation    *)
(* reaches both.                                                           *)
(***************************************************************************)
EXTENDS Msig, TLC

Alice == [actor |-> "alice", permission |-> "active"]
AliceOwner == [actor |-> "alice", permission |-> "owner"]
Bob == [actor |-> "bob", permission |-> "active"]

MCLevels == {Alice, AliceOwner, Bob}
TwoLevels == {Alice, Bob}

Early == [body |-> "setcode", expiration |-> 1]
Late == [body |-> "transfer", expiration |-> 2]
MCTrxs == {Early, Late}
OneTrx == {Late}

\* Two accounts have to approve, or one of them is enough for one transaction.
Both == (Early :> {{Alice, Bob}, {AliceOwner, Bob}}) @@ (Late :> {{Alice, Bob}})
Either == (Early :> {{Alice, Bob}}) @@ (Late :> {{AliceOwner}, {Bob}})
MCAuthorities == {Both, Either}
AliceOrBob == {Late :> {{Alice}, {Bob}}}

MCLists == {<<Alice, AliceOwner, Bob>>, <<Bob>>}
TwoLists == {<<Alice, Bob>>}
TwiceLists == {<<Alice, Alice>>}

NoLegacy == <<>>
MCLegacy == <<"prop", "p1">> :> [trx |-> Late, requested |-> <<Bob>>]
=============================================================================
