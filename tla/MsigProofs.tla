----------------------------- MODULE MsigProofs -----------------------------
(***************************************************************************)
(* Proofs about Msig, for any accounts, transactions, lists of requested   *)
(* approvals and states of the accounts' permissions.                      *)
(***************************************************************************)
EXTENDS Msig, SequenceTheorems, TLAPS

\* No list of requested approvals names a level twice.
NoRepeats == \A r \in RequestedLists : \A i, j \in DOMAIN r : r[i] = r[j] => i = j

\* The slots propose makes of a list: one for each of its entries.
LEMMA RequestedSlots ==
    ASSUME NEW r \in RequestedLists
    PROVE  /\ Requested(r) \in Seq(Slots)
           /\ DOMAIN Requested(r) = DOMAIN r
           /\ \A i \in DOMAIN r : Requested(r)[i] = [level |-> r[i], approved |-> FALSE, time |-> 0]
<1>1. r \in Seq(Levels)
      BY MsigConstants
<1>2. /\ DOMAIN r = 1..Len(r)
      /\ Len(r) \in Nat
      /\ \A i \in 1..Len(r) : r[i] \in Levels
      BY <1>1, LenProperties, ElementOfSeq
<1>3. Requested(r) \in [1..Len(r) -> Slots]
      BY <1>2 DEF Requested, Slots
<1>4. Requested(r) \in Seq(Slots)
      BY <1>2, <1>3, SeqDef
<1>. QED BY <1>2, <1>4 DEF Requested

\* Without repetitions in the list no level has two slots.
LEMMA RequestedOnce ==
    ASSUME NoRepeats, NEW r \in RequestedLists
    PROVE  /\ AskedOnce(Requested(r))
           /\ \A i \in DOMAIN Requested(r) : ~Requested(r)[i].approved /\ Requested(r)[i].time = 0
<1>1. /\ DOMAIN Requested(r) = DOMAIN r
      /\ \A i \in DOMAIN r : Requested(r)[i] = [level |-> r[i], approved |-> FALSE, time |-> 0]
      BY RequestedSlots
<1>2. \A i \in DOMAIN r : /\ Requested(r)[i].level = r[i]
                          /\ Requested(r)[i].approved = FALSE
                          /\ Requested(r)[i].time = 0
      BY <1>1
<1>3. \A i, j \in DOMAIN r : r[i] = r[j] => i = j
      BY DEF NoRepeats
<1>. QED BY <1>1, <1>2, <1>3 DEF AskedOnce

\* approve changes one slot of the level that approves.
LEMMA ApprovingSlots ==
    ASSUME NEW slots \in Seq(Slots), NEW l \in Levels, now \in Nat,
           NEW after \in Approving(slots, l)
    PROVE  /\ after \in Seq(Slots)
           /\ DOMAIN after = DOMAIN slots
           /\ \E i \in DOMAIN slots :
                /\ slots[i].level = l
                /\ \A j \in DOMAIN slots :
                     after[j] = IF j = i THEN [level |-> l, approved |-> TRUE, time |-> now]
                                         ELSE slots[j]
<1>1. PICK i \in DOMAIN slots :
        /\ slots[i].level = l
        /\ after = [slots EXCEPT ![i] = [level |-> l, approved |-> TRUE, time |-> now]]
      BY DEF Approving
<1>2. DOMAIN slots = 1..Len(slots)
      BY LenProperties
<1>3. [level |-> l, approved |-> TRUE, time |-> now] \in Slots
      BY DEF Slots
<1>4. after \in Seq(Slots)
      BY <1>1, <1>2, <1>3, ExceptSeq
<1>. QED BY <1>1, <1>4

\* unapprove clears the approval of one slot of the level.
LEMMA UnapprovingSlots ==
    ASSUME NEW slots \in Seq(Slots), NEW l \in Levels, now \in Nat,
           NEW after \in Unapproving(slots, l)
    PROVE  /\ after \in Seq(Slots)
           /\ DOMAIN after = DOMAIN slots
           /\ \E i \in DOMAIN slots :
                /\ slots[i].level = l
                /\ \A j \in DOMAIN slots :
                     after[j] = IF j = i THEN [level |-> l, approved |-> FALSE, time |-> now]
                                         ELSE slots[j]
<1>1. PICK i \in DOMAIN slots :
        /\ slots[i].level = l
        /\ after = [slots EXCEPT ![i] = [level |-> l, approved |-> FALSE, time |-> now]]
      BY DEF Unapproving, ApprovedBy
<1>2. DOMAIN slots = 1..Len(slots)
      BY LenProperties
<1>3. [level |-> l, approved |-> FALSE, time |-> now] \in Slots
      BY DEF Slots
<1>4. after \in Seq(Slots)
      BY <1>1, <1>2, <1>3, ExceptSeq
<1>. QED BY <1>1, <1>4

\* What cancel and exec do to the two tables of approvals.
LEMMA ErasedTables ==
    ASSUME NEW k, EraseApprovals(k)
    PROVE  /\ DOMAIN approvals' \subseteq DOMAIN approvals
           /\ \A x \in DOMAIN approvals' : approvals'[x] = approvals[x]
           /\ DOMAIN old_approvals' \subseteq DOMAIN old_approvals
           /\ \A x \in DOMAIN old_approvals' : old_approvals'[x] = old_approvals[x]
           /\ TablesInSync =>
                DOMAIN approvals' \cup DOMAIN old_approvals'
                    = (DOMAIN approvals \cup DOMAIN old_approvals) \ {k}
BY DEF EraseApprovals, Without, TablesInSync

-----------------------------------------------------------------------------
(***************************************************************************)
(* approve without a hash relies on the table of proposals to have a row   *)
(* whenever a table of approvals has one, so the types and the agreement   *)
(* of the tables are inductive together.                                   *)
(***************************************************************************)
LEMMA InitTables == Init => TypeOK /\ TablesInSync
<1>. SUFFICES ASSUME Init PROVE TypeOK /\ TablesInSync
     OBVIOUS
<1>1. DOMAIN proposals \subseteq Keys /\ \A k \in DOMAIN proposals : proposals[k] \in Trxs
      BY MsigConstants DEF Init
<1>2. DOMAIN approvals = {} /\ DOMAIN invalidations = {} /\ DOMAIN deferred = {}
      BY DEF Init
<1>3. /\ DOMAIN old_approvals = DOMAIN Legacy
      /\ DOMAIN old_approvals \subseteq Keys
      /\ \A k \in DOMAIN old_approvals : old_approvals[k] \in Seq(Slots)
      BY MsigConstants, RequestedSlots DEF Init
<1>4. authority \in Authorities /\ now \in 0..MaxTime
      BY MsigConstants DEF Init
<1>5. consent \in [Levels -> SUBSET [key : Keys, trx : Trxs]]
      BY DEF Init
<1>6. TypeOK
      BY <1>1, <1>2, <1>3, <1>4, <1>5 DEF TypeOK
<1>7. TablesInSync
      BY <1>2, <1>3 DEF Init, TablesInSync
<1>. QED BY <1>6, <1>7

LEMMA NextTables ==
    ASSUME TypeOK, TablesInSync, [Next]_vars
    PROVE  TypeOK' /\ TablesInSync'
<1>0. now \in Nat /\ MaxTime \in Nat /\ now \in 0..MaxTime
      BY MsigConstants DEF TypeOK
<1>1. ASSUME NEW k \in Keys, NEW r \in RequestedLists, NEW t \in Trxs, Propose(k, r, t)
      PROVE  TypeOK' /\ TablesInSync'
  <2>1. Requested(r) \in Seq(Slots)
        BY RequestedSlots
  <2>2. TypeOK'
        BY <1>1, <2>1 DEF Propose, TypeOK, With
  <2>3. TablesInSync'
        BY <1>1 DEF Propose, TablesInSync, With
  <2>. QED BY <2>2, <2>3
<1>2. ASSUME NEW k \in Keys, NEW l \in Levels, NEW hash \in Trxs \cup {NoHash}, Approve(k, l, hash)
      PROVE  TypeOK' /\ TablesInSync'
  <2>1. /\ DOMAIN approvals' = DOMAIN approvals
        /\ \A x \in DOMAIN approvals' : approvals'[x] \in Seq(Slots)
    <3>1. CASE UNCHANGED approvals
          BY <3>1 DEF TypeOK
    <3>2. CASE /\ k \in DOMAIN approvals
               /\ \E after \in Approving(approvals[k], l) :
                     approvals' = [approvals EXCEPT ![k] = after]
      <4>1. PICK after \in Approving(approvals[k], l) : approvals' = [approvals EXCEPT ![k] = after]
            BY <3>2
      <4>2. after \in Seq(Slots)
            BY <1>0, <3>2, ApprovingSlots DEF TypeOK
      <4>. QED BY <4>1, <4>2 DEF TypeOK
    <3>. QED BY <1>2, <3>1, <3>2 DEF Approve
  <2>2. /\ DOMAIN old_approvals' = DOMAIN old_approvals
        /\ \A x \in DOMAIN old_approvals' : old_approvals'[x] \in Seq(Slots)
    <3>1. CASE UNCHANGED old_approvals
          BY <3>1 DEF TypeOK
    <3>2. CASE /\ k \in DOMAIN old_approvals
               /\ \E after \in Approving(old_approvals[k], l) :
                     old_approvals' = [old_approvals EXCEPT ![k] = after]
      <4>1. PICK after \in Approving(old_approvals[k], l) :
                    old_approvals' = [old_approvals EXCEPT ![k] = after]
            BY <3>2
      <4>2. after \in Seq(Slots)
            BY <1>0, <3>2, ApprovingSlots DEF TypeOK
      <4>. QED BY <4>1, <4>2 DEF TypeOK
    <3>. QED BY <1>2, <3>1, <3>2 DEF Approve
  <2>3. k \in DOMAIN proposals
        BY <1>2 DEF Approve, TablesInSync
  <2>4. (IF hash = NoHash THEN proposals[k] ELSE hash) \in Trxs
        BY <2>3 DEF TypeOK
  <2>5. consent' \in [Levels -> SUBSET [key : Keys, trx : Trxs]]
        BY <1>2, <2>4 DEF Approve, TypeOK
  <2>6. TypeOK'
        BY <1>2, <2>1, <2>2, <2>5 DEF Approve, TypeOK
  <2>7. TablesInSync'
        BY <1>2, <2>1, <2>2 DEF Approve, TablesInSync
  <2>. QED BY <2>6, <2>7
<1>3. ASSUME NEW k \in Keys, NEW l \in Levels, Unapprove(k, l)
      PROVE  TypeOK' /\ TablesInSync'
  <2>1. /\ DOMAIN approvals' = DOMAIN approvals
        /\ \A x \in DOMAIN approvals' : approvals'[x] \in Seq(Slots)
    <3>1. CASE UNCHANGED approvals
          BY <3>1 DEF TypeOK
    <3>2. CASE /\ k \in DOMAIN approvals
               /\ \E after \in Unapproving(approvals[k], l) :
                     approvals' = [approvals EXCEPT ![k] = after]
      <4>1. PICK after \in Unapproving(approvals[k], l) :
                    approvals' = [approvals EXCEPT ![k] = after]
            BY <3>2
      <4>2. after \in Seq(Slots)
            BY <1>0, <3>2, UnapprovingSlots DEF TypeOK
      <4>. QED BY <4>1, <4>2 DEF TypeOK
    <3>. QED BY <1>3, <3>1, <3>2 DEF Unapprove
  <2>2. /\ DOMAIN old_approvals' = DOMAIN old_approvals
        /\ \A x \in DOMAIN old_approvals' : old_approvals'[x] \in Seq(Slots)
    <3>1. CASE UNCHANGED old_approvals
          BY <3>1 DEF TypeOK
    <3>2. CASE /\ k \in DOMAIN old_approvals
               /\ \E after \in Unapproving(old_approvals[k], l) :
                     old_approvals' = [old_approvals EXCEPT ![k] = after]
      <4>1. PICK after \in Unapproving(old_approvals[k], l) :
                    old_approvals' = [old_approvals EXCEPT ![k] = after]
            BY <3>2
      <4>2. after \in Seq(Slots)
            BY <1>0, <3>2, UnapprovingSlots DEF TypeOK
      <4>. QED BY <4>1, <4>2 DEF TypeOK
    <3>. QED BY <1>3, <3>1, <3>2 DEF Unapprove
  <2>3. consent' \in [Levels -> SUBSET [key : Keys, trx : Trxs]]
        BY <1>3 DEF Unapprove, TypeOK
  <2>4. TypeOK'
        BY <1>3, <2>1, <2>2, <2>3 DEF Unapprove, TypeOK
  <2>5. TablesInSync'
        BY <1>3, <2>1, <2>2 DEF Unapprove, TablesInSync
  <2>. QED BY <2>4, <2>5
<1>4. ASSUME NEW k \in Keys, NEW c, Cancel(k, c)
      PROVE  TypeOK' /\ TablesInSync'
  <2>1. EraseApprovals(k) /\ proposals' = Without(proposals, k)
        BY <1>4 DEF Cancel
  <2>2. TypeOK'
        BY <1>4, <2>1, ErasedTables DEF Cancel, TypeOK, Without
  <2>3. TablesInSync'
        BY <2>1, ErasedTables DEF TablesInSync, Without
  <2>. QED BY <2>2, <2>3
<1>5. ASSUME NEW k \in Keys, Exec(k)
      PROVE  TypeOK' /\ TablesInSync'
  <2>1. EraseApprovals(k) /\ proposals' = Without(proposals, k)
        BY <1>5 DEF Exec
  <2>2. TypeOK'
        BY <1>5, <2>1, ErasedTables DEF Exec, TypeOK, Without, With
  <2>3. TablesInSync'
        BY <2>1, ErasedTables DEF TablesInSync, Without
  <2>. QED BY <2>2, <2>3
<1>6. ASSUME NEW k \in Keys, RunDeferred(k)
      PROVE  TypeOK' /\ TablesInSync'
      BY <1>6 DEF RunDeferred, TypeOK, TablesInSync, Without
<1>7. ASSUME NEW a \in Actors, Invalidate(a)
      PROVE  TypeOK' /\ TablesInSync'
  <2>1. consent' \in [Levels -> SUBSET [key : Keys, trx : Trxs]]
        BY <1>7 DEF Invalidate, TypeOK
  <2>2. /\ DOMAIN invalidations' \subseteq Actors
        /\ \A x \in DOMAIN invalidations' : invalidations'[x] \in 0..now
        BY <1>0, <1>7 DEF Invalidate, TypeOK, With
  <2>. QED BY <1>7, <2>1, <2>2 DEF Invalidate, TypeOK, TablesInSync
<1>8. CASE ChangeAuthority
      BY <1>8 DEF ChangeAuthority, TypeOK, TablesInSync
<1>9. CASE Tick
  <2>1. /\ now' \in 0..MaxTime
        /\ \A a \in DOMAIN invalidations' : invalidations'[a] \in 0..now'
        BY <1>0, <1>9 DEF Tick, TypeOK
  <2>. QED BY <1>9, <2>1 DEF Tick, TypeOK, TablesInSync
<1>10. CASE UNCHANGED vars
       BY <1>10 DEF vars, TypeOK, TablesInSync
<1>. QED BY <1>1, <1>2, <1>3, <1>4, <1>5, <1>6, <1>7, <1>8, <1>9, <1>10 DEF Next

\* Every table of the contract holds values of the declared types and refers
\* to levels, transactions and accounts that exist, in every reachable state.
THEOREM TypeCorrect == Spec => []TypeOK
BY InitTables, NextTables, PTL DEF Spec

\* propose, cancel and exec keep the proposals and both generations of the
\* approvals together, with and without proposals from before the change.
THEOREM TablesCorrect == Spec => []TablesInSync
BY InitTables, NextTables, PTL DEF Spec

-----------------------------------------------------------------------------
(***************************************************************************)
(* exec adds up stored approvals; that their owners stand by them needs    *)
(* that approvals are not dated after the present (so that an invalidation *)
(* reaches them all) and that no level is asked for twice (so that an      *)
(* unapproval leaves none of its approvals).                               *)
(***************************************************************************)
LEMMA InitConsent == ASSUME NoRepeats, Init PROVE MsigInv
<1>1. TypeOK /\ TablesInSync
      BY InitTables
<1>2. DOMAIN approvals = {}
      BY DEF Init
<1>3. ASSUME NEW k \in DOMAIN old_approvals
      PROVE  /\ AskedOnce(old_approvals[k])
             /\ \A i \in DOMAIN old_approvals[k] : ~old_approvals[k][i].approved
  <2>1. old_approvals[k] = Requested(Legacy[k].requested) /\ Legacy[k].requested \in RequestedLists
        BY <1>3, MsigConstants DEF Init
  <2>. QED BY <2>1, RequestedOnce
<1>. QED BY <1>1, <1>2, <1>3
         DEF MsigInv, ApprovalsArePast, LevelsAskedOnce, ApprovalsAreConsented, OldCounts

\* Steps that add no slot, no approval and no consent less keep the invariant.
LEMMA KeepsConsent ==
    ASSUME TypeOK, MsigInv, TablesInSync', now' \in Nat, now <= now',
           invalidations' = invalidations, consent' = consent,
           DOMAIN approvals' \subseteq DOMAIN approvals,
           \A k \in DOMAIN approvals' : approvals'[k] = approvals[k],
           DOMAIN old_approvals' \subseteq DOMAIN old_approvals,
           \A k \in DOMAIN old_approvals' : old_approvals'[k] = old_approvals[k],
           \A k \in DOMAIN proposals' : proposals'[k] = proposals[k]
    PROVE  MsigInv'
<1>1. ApprovalsArePast'
  <2>. SUFFICES ASSUME NEW k \in DOMAIN approvals', NEW i \in DOMAIN approvals'[k]
                PROVE  approvals'[k][i].time <= now'
       BY DEF ApprovalsArePast
  <2>1. approvals[k][i] \in Slots
        BY LenProperties, ElementOfSeq DEF TypeOK
  <2>2. approvals[k][i].time \in Nat /\ now \in Nat
        BY <2>1, MsigConstants DEF Slots, TypeOK
  <2>3. approvals[k][i].time <= now
        BY DEF MsigInv, ApprovalsArePast
  <2>. QED BY <2>2, <2>3
<1>2. LevelsAskedOnce'
      BY DEF MsigInv, LevelsAskedOnce, AskedOnce
<1>3. ApprovalsAreConsented'
  <2>1. \A k \in DOMAIN approvals' \cup DOMAIN old_approvals' : k \in DOMAIN proposals'
        BY DEF TablesInSync
  <2>. QED BY <2>1 DEF MsigInv, ApprovalsAreConsented, Counts, OldCounts
<1>. QED BY <1>1, <1>2, <1>3 DEF MsigInv

LEMMA ProposeConsent ==
    ASSUME NoRepeats, TypeOK, MsigInv, TablesInSync',
           NEW k \in Keys, NEW r \in RequestedLists, NEW t \in Trxs, Propose(k, r, t)
    PROVE  MsigInv'
<1>1. /\ DOMAIN approvals' = DOMAIN approvals \cup {k}
      /\ k \notin DOMAIN approvals
      /\ approvals'[k] = Requested(r)
      /\ \A x \in DOMAIN approvals : approvals'[x] = approvals[x]
      BY DEF Propose, With
<1>2. /\ k \notin DOMAIN proposals
      /\ \A x \in DOMAIN proposals : proposals'[x] = proposals[x]
      BY DEF Propose, With
<1>3. UNCHANGED <<old_approvals, invalidations, consent, now>>
      BY DEF Propose
<1>4. /\ AskedOnce(Requested(r))
      /\ \A i \in DOMAIN Requested(r) : ~Requested(r)[i].approved /\ Requested(r)[i].time = 0
      BY RequestedOnce
<1>5. now \in Nat
      BY MsigConstants DEF TypeOK
<1>6. ApprovalsArePast'
      BY <1>1, <1>3, <1>4, <1>5 DEF MsigInv, ApprovalsArePast
<1>7. LevelsAskedOnce'
      BY <1>1, <1>3, <1>4 DEF MsigInv, LevelsAskedOnce, AskedOnce
<1>8. ApprovalsAreConsented'
  <2>1. DOMAIN approvals \subseteq DOMAIN proposals /\ DOMAIN old_approvals \subseteq DOMAIN proposals
        BY DEF MsigInv, TablesInSync
  <2>. QED BY <1>1, <1>2, <1>3, <1>4, <2>1 DEF MsigInv, ApprovalsAreConsented, Counts, OldCounts
<1>. QED BY <1>6, <1>7, <1>8 DEF MsigInv

LEMMA ApproveConsent ==
    ASSUME TypeOK, MsigInv, TablesInSync',
           NEW k \in Keys, NEW l \in Levels, NEW hash \in Trxs \cup {NoHash}, Approve(k, l, hash)
    PROVE  MsigInv'
<1>0. now \in Nat
      BY MsigConstants DEF TypeOK
<1>1. UNCHANGED <<proposals, invalidations, now>>
      BY DEF Approve
<1>2. k \in DOMAIN proposals
      BY DEF Approve, MsigInv, TablesInSync
<1>3. /\ [key |-> k, trx |-> proposals[k]] \in consent'[l]
      /\ \A m \in Levels : consent[m] \subseteq consent'[m]
  <2>1. (IF hash = NoHash THEN proposals[k] ELSE hash) = proposals[k]
        BY DEF Approve, HashMatches
  <2>. QED BY <2>1 DEF Approve, TypeOK
<1>4. CASE /\ k \in DOMAIN approvals
           /\ \E after \in Approving(approvals[k], l) : approvals' = [approvals EXCEPT ![k] = after]
           /\ UNCHANGED old_approvals
  <2>1. PICK after \in Approving(approvals[k], l) : approvals' = [approvals EXCEPT ![k] = after]
        BY <1>4
  <2>2. approvals[k] \in Seq(Slots)
        BY <1>4 DEF TypeOK
  <2>3. PICK i \in DOMAIN approvals[k] :
          /\ DOMAIN after = DOMAIN approvals[k]
          /\ approvals[k][i].level = l
          /\ \A j \in DOMAIN approvals[k] :
                after[j] = IF j = i THEN [level |-> l, approved |-> TRUE, time |-> now]
                                    ELSE approvals[k][j]
        BY <1>0, <2>2, ApprovingSlots
  <2>4. /\ DOMAIN approvals' = DOMAIN approvals
        /\ approvals'[k] = after
        /\ \A x \in DOMAIN approvals \ {k} : approvals'[x] = approvals[x]
        BY <1>4, <2>1
  <2>5. ApprovalsArePast'
        BY <1>0, <1>1, <2>3, <2>4 DEF MsigInv, ApprovalsArePast
  <2>6. LevelsAskedOnce'
    <3>1. AskedOnce(after)
          BY <1>4, <2>3 DEF MsigInv, LevelsAskedOnce, AskedOnce
    <3>. QED BY <1>4, <2>4, <3>1 DEF MsigInv, LevelsAskedOnce, AskedOnce
  <2>7. ASSUME NEW x \in DOMAIN approvals', NEW j \in DOMAIN approvals'[x],
               Counts(approvals[x][j])'
        PROVE  [key |-> x, trx |-> proposals'[x]] \in consent'[approvals'[x][j].level]
    <3>1. CASE x = k /\ j = i
          BY <1>1, <1>3, <2>3, <2>4, <3>1
    <3>2. CASE ~(x = k /\ j = i)
      <4>1. x \in DOMAIN approvals /\ j \in DOMAIN approvals[x] /\ approvals'[x][j] = approvals[x][j]
            BY <2>3, <2>4, <3>2
      <4>2. [key |-> x, trx |-> proposals[x]] \in consent[approvals[x][j].level]
            BY <1>1, <2>7, <4>1 DEF MsigInv, ApprovalsAreConsented, Counts
      <4>3. approvals[x][j] \in Slots
            BY <4>1, LenProperties, ElementOfSeq DEF TypeOK
      <4>4. approvals[x][j].level \in Levels
            BY <4>3 DEF Slots
      <4>. QED BY <1>1, <1>3, <4>1, <4>2, <4>4
    <3>. QED BY <3>1, <3>2
  <2>8. ASSUME NEW x \in DOMAIN old_approvals', NEW j \in DOMAIN old_approvals'[x],
               OldCounts(old_approvals[x][j])'
        PROVE  [key |-> x, trx |-> proposals'[x]] \in consent'[old_approvals'[x][j].level]
    <3>1. old_approvals[x][j] \in Slots
          BY <1>4, LenProperties, ElementOfSeq DEF TypeOK
    <3>2. old_approvals[x][j].level \in Levels
          BY <3>1 DEF Slots
    <3>. QED BY <1>1, <1>3, <1>4, <2>8, <3>2 DEF MsigInv, ApprovalsAreConsented, OldCounts
  <2>. QED BY <2>5, <2>6, <2>7, <2>8 DEF MsigInv, ApprovalsAreConsented
<1>5. CASE /\ k \in DOMAIN old_approvals
           /\ \E after \in Approving(old_approvals[k], l) :
                  old_approvals' = [old_approvals EXCEPT ![k] = after]
           /\ UNCHANGED approvals
  <2>1. PICK after \in Approving(old_approvals[k], l) :
                old_approvals' = [old_approvals EXCEPT ![k] = after]
        BY <1>5
  <2>2. old_approvals[k] \in Seq(Slots)
        BY <1>5 DEF TypeOK
  <2>3. PICK i \in DOMAIN old_approvals[k] :
          /\ DOMAIN after = DOMAIN old_approvals[k]
          /\ old_approvals[k][i].level = l
          /\ \A j \in DOMAIN old_approvals[k] :
                after[j] = IF j = i THEN [level |-> l, approved |-> TRUE, time |-> now]
                                    ELSE old_approvals[k][j]
        BY <1>0, <2>2, ApprovingSlots
  <2>4. /\ DOMAIN old_approvals' = DOMAIN old_approvals
        /\ old_approvals'[k] = after
        /\ \A x \in DOMAIN old_approvals \ {k} : old_approvals'[x] = old_approvals[x]
        BY <1>5, <2>1
  <2>5. ApprovalsArePast'
        BY <1>1, <1>5 DEF MsigInv, ApprovalsArePast
  <2>6. LevelsAskedOnce'
    <3>1. AskedOnce(after)
          BY <1>5, <2>3 DEF MsigInv, LevelsAskedOnce, AskedOnce
    <3>. QED BY <1>5, <2>4, <3>1 DEF MsigInv, LevelsAskedOnce, AskedOnce
  <2>7. ASSUME NEW x \in DOMAIN old_approvals', NEW j \in DOMAIN old_approvals'[x],
               OldCounts(old_approvals[x][j])'
        PROVE  [key |-> x, trx |-> proposals'[x]] \in consent'[old_approvals'[x][j].level]
    <3>1. CASE x = k /\ j = i
          BY <1>1, <1>3, <2>3, <2>4, <3>1
    <3>2. CASE ~(x = k /\ j = i)
      <4>1. /\ x \in DOMAIN old_approvals
            /\ j \in DOMAIN old_approvals[x]
            /\ old_approvals'[x][j] = old_approvals[x][j]
            BY <2>3, <2>4, <3>2
      <4>2. [key |-> x, trx |-> proposals[x]] \in consent[old_approvals[x][j].level]
            BY <1>1, <2>7, <4>1 DEF MsigInv, ApprovalsAreConsented, OldCounts
      <4>3. old_approvals[x][j] \in Slots
            BY <4>1, LenProperties, ElementOfSeq DEF TypeOK
      <4>4. old_approvals[x][j].level \in Levels
            BY <4>3 DEF Slots
      <4>. QED BY <1>1, <1>3, <4>1, <4>2, <4>4
    <3>. QED BY <3>1, <3>2
  <2>8. ASSUME NEW x \in DOMAIN approvals', NEW j \in DOMAIN approvals'[x],
               Counts(approvals[x][j])'
        PROVE  [key |-> x, trx |-> proposals'[x]] \in consent'[approvals'[x][j].level]
    <3>1. approvals[x][j] \in Slots
          BY <1>5, LenProperties, ElementOfSeq DEF TypeOK
    <3>2. approvals[x][j].level \in Levels
          BY <3>1 DEF Slots
    <3>. QED BY <1>1, <1>3, <1>5, <2>8, <3>2 DEF MsigInv, ApprovalsAreConsented, Counts
  <2>. QED BY <2>5, <2>6, <2>7, <2>8 DEF MsigInv, ApprovalsAreConsented
<1>. QED BY <1>4, <1>5 DEF Approve

LEMMA UnapproveConsent ==
    ASSUME TypeOK, MsigInv, TablesInSync',
           NEW k \in Keys, NEW l \in Levels, Unapprove(k, l)
    PROVE  MsigInv'
<1>0. now \in Nat
      BY MsigConstants DEF TypeOK
<1>1. UNCHANGED <<proposals, invalidations, now>>
      BY DEF Unapprove
<1>2. /\ \A m \in Levels : \A c \in consent[m] : m # l \/ c.key # k => c \in consent'[m]
      BY DEF Unapprove, TypeOK
\* An approval of another proposal, or by another level, keeps its consent.
<1>3. ASSUME NEW x, NEW m \in Levels, m # l \/ x # k,
             [key |-> x, trx |-> proposals[x]] \in consent[m]
      PROVE  [key |-> x, trx |-> proposals'[x]] \in consent'[m]
      BY <1>1, <1>2, <1>3
<1>4. CASE /\ k \in DOMAIN approvals
           /\ \E after \in Unapproving(approvals[k], l) : approvals' = [approvals EXCEPT ![k] = after]
           /\ UNCHANGED old_approvals
  <2>1. PICK after \in Unapproving(approvals[k], l) : approvals' = [approvals EXCEPT ![k] = after]
        BY <1>4
  <2>2. approvals[k] \in Seq(Slots)
        BY <1>4 DEF TypeOK
  <2>3. PICK i \in DOMAIN approvals[k] :
          /\ DOMAIN after = DOMAIN approvals[k]
          /\ approvals[k][i].level = l
          /\ \A j \in DOMAIN approvals[k] :
                after[j] = IF j = i THEN [level |-> l, approved |-> FALSE, time |-> now]
                                    ELSE approvals[k][j]
        BY <1>0, <2>2, UnapprovingSlots
  <2>4. /\ DOMAIN approvals' = DOMAIN approvals
        /\ approvals'[k] = after
        /\ \A x \in DOMAIN approvals \ {k} : approvals'[x] = approvals[x]
        BY <1>4, <2>1
  <2>5. ApprovalsArePast'
        BY <1>0, <1>1, <2>3, <2>4 DEF MsigInv, ApprovalsArePast
  <2>6. LevelsAskedOnce'
    <3>1. AskedOnce(after)
          BY <1>4, <2>3 DEF MsigInv, LevelsAskedOnce, AskedOnce
    <3>. QED BY <1>4, <2>4, <3>1 DEF MsigInv, LevelsAskedOnce, AskedOnce
  <2>7. ASSUME NEW x \in DOMAIN approvals', NEW j \in DOMAIN approvals'[x], Counts(approvals[x][j])'
        PROVE  [key |-> x, trx |-> proposals'[x]] \in consent'[approvals'[x][j].level]
    <3>1. ~(x = k /\ j = i)
          BY <2>3, <2>4, <2>7 DEF Counts
    <3>2. x \in DOMAIN approvals /\ j \in DOMAIN approvals[x] /\ approvals'[x][j] = approvals[x][j]
          BY <2>3, <2>4, <3>1
    <3>3. [key |-> x, trx |-> proposals[x]] \in consent[approvals[x][j].level]
          BY <1>1, <2>7, <3>2 DEF MsigInv, ApprovalsAreConsented, Counts
    <3>4. approvals[x][j] \in Slots
          BY <3>2, LenProperties, ElementOfSeq DEF TypeOK
    <3>5. approvals[x][j].level \in Levels
          BY <3>4 DEF Slots
    <3>6. approvals[x][j].level # l \/ x # k
          BY <1>4, <2>3, <3>1, <3>2 DEF MsigInv, LevelsAskedOnce, AskedOnce
    <3>. QED BY <1>3, <3>2, <3>3, <3>5, <3>6
  <2>8. ASSUME NEW x \in DOMAIN old_approvals', NEW j \in DOMAIN old_approvals'[x],
               OldCounts(old_approvals[x][j])'
        PROVE  [key |-> x, trx |-> proposals'[x]] \in consent'[old_approvals'[x][j].level]
    <3>1. old_approvals[x][j] \in Slots
          BY <1>4, LenProperties, ElementOfSeq DEF TypeOK
    <3>2. old_approvals[x][j].level \in Levels
          BY <3>1 DEF Slots
    <3>3. [key |-> x, trx |-> proposals[x]] \in consent[old_approvals[x][j].level]
          BY <1>1, <1>4, <2>8 DEF MsigInv, ApprovalsAreConsented, OldCounts
    <3>4. x # k
          BY <1>4 DEF MsigInv, TablesInSync
    <3>. QED BY <1>3, <1>4, <3>2, <3>3, <3>4
  <2>. QED BY <2>5, <2>6, <2>7, <2>8 DEF MsigInv, ApprovalsAreConsented
<1>5. CASE /\ k \in DOMAIN old_approvals
           /\ \E after \in Unapproving(old_approvals[k], l) :
                  old_approvals' = [old_approvals EXCEPT ![k] = after]
           /\ UNCHANGED approvals
  <2>1. PICK after \in Unapproving(old_approvals[k], l) :
                old_approvals' = [old_approvals EXCEPT ![k] = after]
        BY <1>5
  <2>2. old_approvals[k] \in Seq(Slots)
        BY <1>5 DEF TypeOK
  <2>3. PICK i \in DOMAIN old_approvals[k] :
          /\ DOMAIN after = DOMAIN old_approvals[k]
          /\ old_approvals[k][i].level = l
          /\ \A j \in DOMAIN old_approvals[k] :
                after[j] = IF j = i THEN [level |-> l, approved |-> FALSE, time |-> now]
                                    ELSE old_approvals[k][j]
        BY <1>0, <2>2, UnapprovingSlots
  <2>4. /\ DOMAIN old_approvals' = DOMAIN old_approvals
        /\ old_approvals'[k] = after
        /\ \A x \in DOMAIN old_approvals \ {k} : old_approvals'[x] = old_approvals[x]
        BY <1>5, <2>1
  <2>5. ApprovalsArePast'
        BY <1>1, <1>5 DEF MsigInv, ApprovalsArePast
  <2>6. LevelsAskedOnce'
    <3>1. AskedOnce(after)
          BY <1>5, <2>3 DEF MsigInv, LevelsAskedOnce, AskedOnce
    <3>. QED BY <1>5, <2>4, <3>1 DEF MsigInv, LevelsAskedOnce, AskedOnce
  <2>7. ASSUME NEW x \in DOMAIN old_approvals', NEW j \in DOMAIN old_approvals'[x],
               OldCounts(old_approvals[x][j])'
        PROVE  [key |-> x, trx |-> proposals'[x]] \in consent'[old_approvals'[x][j].level]
    <3>1. ~(x = k /\ j = i)
          BY <2>3, <2>4, <2>7 DEF OldCounts
    <3>2. /\ x \in DOMAIN old_approvals
          /\ j \in DOMAIN old_approvals[x]
          /\ old_approvals'[x][j] = old_approvals[x][j]
          BY <2>3, <2>4, <3>1
    <3>3. [key |-> x, trx |-> proposals[x]] \in consent[old_approvals[x][j].level]
          BY <1>1, <2>7, <3>2 DEF MsigInv, ApprovalsAreConsented, OldCounts
    <3>4. old_approvals[x][j] \in Slots
          BY <3>2, LenProperties, ElementOfSeq DEF TypeOK
    <3>5. old_approvals[x][j].level \in Levels
          BY <3>4 DEF Slots
    <3>6. old_approvals[x][j].level # l \/ x # k
          BY <1>5, <2>3, <3>1, <3>2 DEF MsigInv, LevelsAskedOnce, AskedOnce
    <3>. QED BY <1>3, <3>2, <3>3, <3>5, <3>6
  <2>8. ASSUME NEW x \in DOMAIN approvals', NEW j \in DOMAIN approvals'[x], Counts(approvals[x][j])'
        PROVE  [key |-> x, trx |-> proposals'[x]] \in consent'[approvals'[x][j].level]
    <3>1. approvals[x][j] \in Slots
          BY <1>5, LenProperties, ElementOfSeq DEF TypeOK
    <3>2. approvals[x][j].level \in Levels
          BY <3>1 DEF Slots
    <3>3. [key |-> x, trx |-> proposals[x]] \in consent[approvals[x][j].level]
          BY <1>1, <1>5, <2>8 DEF MsigInv, ApprovalsAreConsented, Counts
    <3>4. x # k
          BY <1>5 DEF MsigInv, TablesInSync
    <3>. QED BY <1>3, <1>5, <3>2, <3>3, <3>4
  <2>. QED BY <2>5, <2>6, <2>7, <2>8 DEF MsigInv, ApprovalsAreConsented
<1>. QED BY <1>4, <1>5 DEF Unapprove

LEMMA InvalidateConsent ==
    ASSUME TypeOK, MsigInv, TablesInSync', NEW a \in Actors, Invalidate(a)
    PROVE  MsigInv'
<1>0. now \in Nat
      BY MsigConstants DEF TypeOK
<1>1. UNCHANGED <<proposals, approvals, old_approvals, now>>
      BY DEF Invalidate
<1>2. /\ DOMAIN invalidations' = DOMAIN invalidations \cup {a}
      /\ invalidations'[a] = now
      /\ \A b \in DOMAIN invalidations \ {a} : invalidations'[b] = invalidations[b]
      BY DEF Invalidate, With
<1>3. \A l \in Levels : l.actor # a => consent'[l] = consent[l]
      BY DEF Invalidate
<1>4. ASSUME NEW x \in DOMAIN approvals, NEW j \in DOMAIN approvals[x], Counts(approvals[x][j])'
      PROVE  [key |-> x, trx |-> proposals[x]] \in consent'[approvals[x][j].level]
  <2>1. approvals[x][j] \in Slots
        BY LenProperties, ElementOfSeq DEF TypeOK
  <2>2. approvals[x][j].level \in Levels /\ approvals[x][j].time \in Nat
        BY <2>1 DEF Slots
  <2>3. approvals[x][j].time <= now
        BY DEF MsigInv, ApprovalsArePast
  <2>4. approvals[x][j].level.actor # a
        BY <1>0, <1>1, <1>2, <1>4, <2>2, <2>3 DEF Counts
  <2>5. Counts(approvals[x][j])
        BY <1>1, <1>2, <1>4, <2>4 DEF Counts
  <2>6. [key |-> x, trx |-> proposals[x]] \in consent[approvals[x][j].level]
        BY <2>5 DEF MsigInv, ApprovalsAreConsented
  <2>. QED BY <1>3, <2>2, <2>4, <2>6
<1>5. ASSUME NEW x \in DOMAIN old_approvals, NEW j \in DOMAIN old_approvals[x],
             OldCounts(old_approvals[x][j])'
      PROVE  [key |-> x, trx |-> proposals[x]] \in consent'[old_approvals[x][j].level]
  <2>1. old_approvals[x][j] \in Slots
        BY LenProperties, ElementOfSeq DEF TypeOK
  <2>2. old_approvals[x][j].level \in Levels
        BY <2>1 DEF Slots
  <2>3. old_approvals[x][j].level.actor # a /\ OldCounts(old_approvals[x][j])
        BY <1>1, <1>2, <1>5 DEF OldCounts
  <2>4. [key |-> x, trx |-> proposals[x]] \in consent[old_approvals[x][j].level]
        BY <2>3 DEF MsigInv, ApprovalsAreConsented
  <2>. QED BY <1>3, <2>2, <2>3, <2>4
<1>6. ApprovalsAreConsented'
      BY <1>1, <1>4, <1>5 DEF ApprovalsAreConsented
<1>. QED BY <1>1, <1>6 DEF MsigInv, ApprovalsArePast, LevelsAskedOnce, AskedOnce

LEMMA NextConsent ==
    ASSUME NoRepeats, TypeOK, MsigInv, [Next]_vars
    PROVE  MsigInv'
<1>0. now \in Nat /\ TablesInSync /\ TablesInSync'
      BY NextTables, MsigConstants DEF MsigInv, TypeOK
<1>1. ASSUME NEW k \in Keys, NEW c, Cancel(k, c)
      PROVE  MsigInv'
  <2>1. EraseApprovals(k)
        BY <1>1 DEF Cancel
  <2>2. \A x \in DOMAIN proposals' : proposals'[x] = proposals[x]
        BY <1>1 DEF Cancel, Without
  <2>3. UNCHANGED <<invalidations, consent, now>>
        BY <1>1 DEF Cancel
  <2>. QED BY <1>0, <2>1, <2>2, <2>3, ErasedTables, KeepsConsent
<1>2. ASSUME NEW k \in Keys, Exec(k)
      PROVE  MsigInv'
  <2>1. EraseApprovals(k)
        BY <1>2 DEF Exec
  <2>2. \A x \in DOMAIN proposals' : proposals'[x] = proposals[x]
        BY <1>2 DEF Exec, Without
  <2>3. UNCHANGED <<invalidations, consent, now>>
        BY <1>2 DEF Exec
  <2>. QED BY <1>0, <2>1, <2>2, <2>3, ErasedTables, KeepsConsent
<1>3. ASSUME UNCHANGED <<proposals, approvals, old_approvals, invalidations, consent>>,
             now' = now \/ now' = now + 1
      PROVE  MsigInv'
      BY <1>0, <1>3, KeepsConsent
<1>4. ASSUME NEW k \in Keys, RunDeferred(k)
      PROVE  MsigInv'
      BY <1>3, <1>4 DEF RunDeferred
<1>5. CASE ChangeAuthority
      BY <1>3, <1>5 DEF ChangeAuthority
<1>6. CASE Tick
      BY <1>3, <1>6 DEF Tick
<1>7. CASE UNCHANGED vars
      BY <1>3, <1>7 DEF vars
<1>. QED BY <1>0, <1>1, <1>2, <1>4, <1>5, <1>6, <1>7, ProposeConsent, ApproveConsent,
            UnapproveConsent, InvalidateConsent DEF Next

\* In every reachable state each approval that exec would count is one its
\* owner stands by, for the very transaction under that name, as long as no
\* list of requested approvals repeats a level.
THEOREM ConsentIsInductive == ASSUME NoRepeats PROVE Spec => []MsigInv
<1>1. Init => TypeOK /\ MsigInv
      BY InitTables, InitConsent
<1>2. TypeOK /\ MsigInv /\ [Next]_vars => (TypeOK /\ MsigInv)'
      BY NextTables, NextConsent DEF MsigInv
<1>. QED BY <1>1, <1>2, PTL DEF Spec

\* exec sends only transactions that levels which suffice for them stand by.
LEMMA SendsConsented ==
    ASSUME MsigInv, [Next]_vars
    PROVE  SendsOnlyConsented
<1>. SUFFICES ASSUME NEW k \in Keys, Sends(k)
              PROVE  \E q \in authority[deferred'[k]] : \A l \in q :
                        [key |-> k, trx |-> deferred'[k]] \in consent[l]
     BY DEF SendsOnlyConsented
<1>1. Exec(k)
  <2>1. deferred' # deferred
        BY DEF Sends
  <2>2. ASSUME NEW x \in Keys PROVE ~RunDeferred(x)
        BY DEF RunDeferred, Without, Sends
  <2>3. ASSUME NEW x \in Keys, Exec(x) PROVE x = k
        BY <2>3 DEF Exec, With, Sends
  <2>4. \E x \in Keys : Exec(x) \/ RunDeferred(x)
        BY <2>1 DEF Next, vars, Propose, Approve, Unapprove, Cancel, Invalidate,
                    ChangeAuthority, Tick
  <2>. QED BY <2>2, <2>3, <2>4
<1>2. deferred'[k] = proposals[k]
      BY <1>1 DEF Exec, With
<1>3. PICK q \in authority[proposals[k]] : q \subseteq CountedLevels(k)
      BY <1>1 DEF Exec, CheckAuthorization
<1>4. k \in DOMAIN approvals \cup DOMAIN old_approvals
      BY <1>1 DEF Exec, MsigInv, TablesInSync
<1>5. ASSUME NEW l \in q
      PROVE  [key |-> k, trx |-> proposals[k]] \in consent[l]
  <2>1. CASE k \in DOMAIN approvals
    <3>1. PICK i \in DOMAIN approvals[k] : Counts(approvals[k][i]) /\ l = approvals[k][i].level
          BY <1>3, <1>5, <2>1 DEF CountedLevels
    <3>. QED BY <2>1, <3>1 DEF MsigInv, ApprovalsAreConsented
  <2>2. CASE k \notin DOMAIN approvals
    <3>1. PICK i \in DOMAIN old_approvals[k] :
                OldCounts(old_approvals[k][i]) /\ l = old_approvals[k][i].level
          BY <1>3, <1>5, <2>2 DEF CountedLevels
    <3>. QED BY <1>4, <2>2, <3>1 DEF MsigInv, ApprovalsAreConsented
  <2>. QED BY <2>1, <2>2
<1>. QED BY <1>2, <1>3, <1>5

\* Whatever is proposed, cancelled, approved late, taken back or invalidated,
\* in any order: exec sends only what enough owners stand by at that moment.
THEOREM ExecCorrect == ASSUME NoRepeats PROVE Spec => ExecIsConsented
<1>1. Spec => []MsigInv
      BY ConsentIsInductive
<1>2. MsigInv /\ [Next]_vars => SendsOnlyConsented
      BY SendsConsented
<1>3. MsigInv /\ [Next]_vars => [SendsOnlyConsented]_vars
      BY <1>2
<1>. QED BY <1>1, <1>3, PTL DEF Spec, ExecIsConsented
=============================================================================
