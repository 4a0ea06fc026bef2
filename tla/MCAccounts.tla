----------------------------- MODULE MCAccounts -----------------------------
EXTENDS Accounts, TLC

CONSTANTS e1, e2, e3, p1, p2, n1, n2, i1, i2

U(e, x, parent) == [email |-> e, auth |-> p1, external |-> x, parent |-> parent, entitled |-> TRUE]
A(u, role, x, i, parent) ==
    [owner |-> u, pretty |-> n1, role |-> role, external |-> x, identity |-> i, parent |-> parent]

\* A user who has asked for an external id, and a token to reset the password.
Registered ==
    [users |-> <<U(e1, 1, None)>>,
     accounts |-> <<>>, shares |-> <<>>, tokens |-> <<[user |-> 1]>>, repos |-> <<>>]

\* A payer with a bill repository and the sub account of an organisation.
Payer ==
    [users |-> <<U(e1, 2, None)>>,
     accounts |-> <<A(1, i1, 1, i1, None)>>, shares |-> <<>>, tokens |-> <<>>,
     repos |-> <<[account |-> 1]>>]

\* Two users, one of whom shares an account with the other.
Shared ==
    [users |-> <<U(e1, None, None), U(e2, None, None)>>,
     accounts |-> <<A(1, i2, 1, i2, None)>>,
     shares |-> <<[account |-> 1, user |-> 2, level |-> 1]>>, tokens |-> <<>>, repos |-> <<>>]

\* A payer with a sub account, whose role is not set yet.
Family ==
    [users |-> <<U(e1, 2, None)>>,
     accounts |-> <<A(1, i1, 1, i1, None), A(1, None, None, i2, 1)>>,
     shares |-> <<>>, tokens |-> <<>>, repos |-> <<>>]

MCDatabases == {Registered, Payer, Family, Shared}
MCOrg == [i \in {i1, i2} |-> {i1, i2}]

\* A third request is followed where it may meet the second one or the first two
\* have met, and nothing else goes wrong, and if what it writes depends on more than its
\* own row; users with shares do nothing but share, those
\* with two accounts change them; tokens expire early.
Focus ==
    /\ served = 2 => raced # {} \/ Busy # {}
    /\ served > 2 => /\ raced # {} /\ faults = 0
                     /\ \A w \in Busy : req[w].r.kind \notin {"entitlement", "identity", "patch", "profile"}
    /\ expired # {} => served < 3 /\ db.shares = <<>>
    /\ Len(db.accounts) > 1 /\ db.repos = <<>> => \A w \in Busy :
            req[w].r.kind \in {"patch", "subaccount", "next", "identity", "delete"}
    /\ db.shares # <<>> => \A w \in Busy : req[w].r.kind \in {"invite", "level", "unshare", "delete"}
=============================================================================
