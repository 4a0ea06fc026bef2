------------------------------- MODULE Access -------------------------------
(***************************************************************************)
(* What a user may read (es/accountsSharing.go): the AWS account ids and   *)
(* the indexes that every query of costs, usage, anomalies and plugins is  *)
(* limited to.  The documents found are those of any of the accounts in    *)
(* any of the indexes.  The tables t have the rows of AWS accounts         *)
(* [identity, owner] and of shares [account, user], in the order of their  *)
(* ids; a user may add an AWS account that another user has added.         *)
(***************************************************************************)
EXTENDS Integers, SequencesExt

CONSTANTS Refused   \* the answer 400

\* AccountsAndIndexes; an index is named after the user whose bills it holds.
Nothing == [accounts |-> {}, indexes |-> {}]

\* addAccount, addIndex
AddAccounts(ai, rows) ==
    [accounts |-> ai.accounts \cup {row.identity : row \in rows},
     indexes  |-> ai.indexes \cup {row.owner : row \in rows}]

\* Of shared rows one after the other: the account is there already, or by an earlier row.
IsAccountDuplicate(ai, rows, k) ==
    \/ rows[k].identity \in ai.accounts
    \/ \E j \in DOMAIN rows : j < k /\ rows[j].identity = rows[k].identity

AddShared(ai, rows) ==
    AddAccounts(ai, {rows[k] : k \in {j \in DOMAIN rows : ~IsAccountDuplicate(ai, rows, j)}})

\* AwsAccountsByUserID
UserAccounts(t, u) == {row \in ToSet(t.accounts) : row.owner = u}

SharesOf(t, u) == {k \in DOMAIN t.shares : t.shares[k].user = u}

\* A mistake: the index is that of the guest.
SharedAccountsOfGuest(t, u) ==
    [k \in SharesOf(t, u) |-> [t.accounts[t.shares[k].account] EXCEPT !.owner = u]]

\* SharedAccountsWithRoleByUserID: the rows of the accounts that are shared with u,
\* by share, whether or not u has accepted.
SharedAccounts(t, u) == [k \in SharesOf(t, u) |-> t.accounts[t.shares[k].account]]

\* getAllAccountsAndIndexes
AllAccountsAndIndexes(t, u) ==
    AddShared(AddAccounts(Nothing, UserAccounts(t, u)), SharedAccounts(t, u))

\* One account of the list: the user's own rows come first.
Match(t, u, ai, x) ==
    LET own    == {row \in UserAccounts(t, u) : row.identity = x}
        shared == RestrictValues(SharedAccounts(t, u), LAMBDA row: row.identity = x)
    IN IF own # {} THEN AddAccounts(ai, own) ELSE AddShared(ai, shared)

\* GetAccountsAndIndexes
AccountsAndIndexes(t, u, list) ==
    LET all == AllAccountsAndIndexes(t, u) IN
    IF list = <<>>
    THEN IF all.indexes = {} THEN Refused ELSE all
    ELSE IF ToSet(list) \subseteq all.accounts
         THEN FoldLeft(LAMBDA ai, x: Match(t, u, ai, x), Nothing, list)
         ELSE Refused
=============================================================================
