--------------------------------- MODULE Info ---------------------------------
(***************************************************************************)
(* eosio.info: KYC accounts, registered by eosio, store verifications of   *)
(* users; users store keys of their own.  What both may store is named in  *)
(* the table keytypes, which tells keys of users from verification keys.   *)
(*                                                                         *)
(* Definitions of keys and times of verifications are left out.            *)
(***************************************************************************)
EXTENDS Integers, FiniteSets, FiniteSetsExt

CONSTANTS
    KycAccounts,        \* accounts eosio may register
    Users,              \* accounts with keys and verifications
    Keys,               \* names of keys
    Memos,              \* what a user may write to a key
    MaxId               \* bound on the ids of rows

VARIABLES
    kycaccounts,        \* table kycaccounts
    keytypes,           \* table keytypes: key -> is it a key of users?
    userverifs,         \* table userverifs, of each KYC account: [id, user, key]
    userkeys            \* table userkeys: [id, user, key, memo]

infoVars == <<kycaccounts, keytypes, userverifs, userkeys>>

Verifications == [id : 0..MaxId, user : Users, key : Keys]
UserKeys == [id : 0..MaxId, user : Users, key : Keys, memo : Memos]

InfoInit ==
    /\ kycaccounts = {}
    /\ keytypes = [k \in {} |-> FALSE]
    /\ userverifs = [a \in KycAccounts |-> {}]
    /\ userkeys = {}

\* available_primary_key: past the greatest id of the table.
AvailableId(rows) == IF rows = {} THEN 0 ELSE Max({r.id : r \in rows}) + 1

\* The rows that the index ckey finds.
Of(rows, user, key) == {r \in rows : r.user = user /\ r.key = key}

\* addkycacc(account)
AddKycAcc(account) ==
    /\ account \notin kycaccounts
    /\ kycaccounts' = kycaccounts \cup {account}
    /\ UNCHANGED <<keytypes, userverifs, userkeys>>

\* delkycacc(account): the verifications of the account stay.
DelKycAcc(account) ==
    /\ account \in kycaccounts
    /\ kycaccounts' = kycaccounts \ {account}
    /\ UNCHANGED <<keytypes, userverifs, userkeys>>

WriteKeyType(key, user) ==
    /\ keytypes' = [k \in DOMAIN keytypes \cup {key} |-> IF k = key THEN user ELSE keytypes[k]]
    /\ UNCHANGED <<kycaccounts, userverifs, userkeys>>

\* addkeytype(key, definition, user)
AddKeyType(key, user) == key \notin DOMAIN keytypes /\ WriteKeyType(key, user)

\* updkeytype(key, definition, user)
UpdKeyType(key, user) == key \in DOMAIN keytypes /\ WriteKeyType(key, user)

\* What adduserver and deluserver check first.
MayVerify(kyc_account, verification_key) ==
    /\ kyc_account \in kycaccounts
    /\ verification_key \in DOMAIN keytypes
    /\ ~keytypes[verification_key]

BugAddTwice(kyc_account, user, verification_key) ==
    LET id == AvailableId(userverifs[kyc_account])
    IN  /\ MayVerify(kyc_account, verification_key)
        /\ id <= MaxId
        /\ userverifs' = [userverifs EXCEPT ![kyc_account] =
                            @ \cup {[id |-> id, user |-> user, key |-> verification_key]}]
        /\ UNCHANGED <<kycaccounts, keytypes, userkeys>>

\* adduserver(kyc_account, user, verification_key)
AddUserVer(kyc_account, user, verification_key) ==
    LET id == AvailableId(userverifs[kyc_account])
    IN  /\ MayVerify(kyc_account, verification_key)
        /\ Of(userverifs[kyc_account], user, verification_key) = {}
        /\ id <= MaxId
        /\ userverifs' = [userverifs EXCEPT ![kyc_account] =
                            @ \cup {[id |-> id, user |-> user, key |-> verification_key]}]
        /\ UNCHANGED <<kycaccounts, keytypes, userkeys>>

\* deluserver(kyc_account, user, verification_key)
DelUserVer(kyc_account, user, verification_key) ==
    /\ MayVerify(kyc_account, verification_key)
    /\ Of(userverifs[kyc_account], user, verification_key) # {}
    /\ userverifs' = [userverifs EXCEPT ![kyc_account] = @ \ Of(@, user, verification_key)]
    /\ UNCHANGED <<kycaccounts, keytypes, userkeys>>

\* setuserkey(user, key, memo): a key of any type; a row keeps its id.
SetUserKey(user, key, memo) ==
    LET present == Of(userkeys, user, key)
        id == IF present = {} THEN AvailableId(userkeys) ELSE Max({r.id : r \in present})
    IN  /\ key \in DOMAIN keytypes
        /\ id <= MaxId
        /\ userkeys' = (userkeys \ present)
                         \cup {[id |-> id, user |-> user, key |-> key, memo |-> memo]}
        /\ UNCHANGED <<kycaccounts, keytypes, userverifs>>

\* deluserkey(user, key): also of a key that is a verification key now.
DelUserKey(user, key) ==
    /\ Of(userkeys, user, key) # {}
    /\ userkeys' = userkeys \ Of(userkeys, user, key)
    /\ UNCHANGED <<kycaccounts, keytypes, userverifs>>

InfoNext ==
    \/ \E a \in KycAccounts :
        \/ AddKycAcc(a)
        \/ DelKycAcc(a)
        \/ \E u \in Users, k \in Keys : AddUserVer(a, u, k) \/ DelUserVer(a, u, k)
    \/ \E k \in Keys, user \in BOOLEAN : AddKeyType(k, user) \/ UpdKeyType(k, user)
    \/ \E u \in Users, k \in Keys : DelUserKey(u, k) \/ \E m \in Memos : SetUserKey(u, k, m)

InfoSpec == InfoInit /\ [][InfoNext]_infoVars

-----------------------------------------------------------------------------
\* No two rows of a table have the same id, or the same user and key, however
\* rows were deleted and added: the second index is not unique by itself, the
\* actions have to keep it so.
Unique(rows) ==
    \A r, s \in rows : r.id = s.id \/ (r.user = s.user /\ r.key = s.key) => r = s

RowsAreUnique == Unique(userkeys) /\ \A a \in KycAccounts : Unique(userverifs[a])

=============================================================================
