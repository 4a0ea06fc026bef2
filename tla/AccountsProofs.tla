--------------------------- MODULE AccountsProofs ---------------------------
(***************************************************************************)
(* Theorems of Accounts.                                                   *)
(***************************************************************************)
EXTENDS Accounts, FiniteSetTheorems, TLAPS

-----------------------------------------------------------------------------
(* Tables *)

\* A row of a table is written.
LEMMA SetRow ==
    ASSUME NEW R, NEW t \in Seq(R), NEW i \in DOMAIN t, NEW x \in R
    PROVE  /\ [t EXCEPT ![i] = x] \in Seq(R)
           /\ DOMAIN [t EXCEPT ![i] = x] = DOMAIN t
           /\ [t EXCEPT ![i] = x][i] = x
           /\ \A j \in DOMAIN t \ {i} : [t EXCEPT ![i] = x][j] = t[j]
OBVIOUS

\* A row is added to a table.
LEMMA AddRow ==
    ASSUME NEW R, NEW t \in Seq(R), NEW x \in R
    PROVE  /\ Append(t, x) \in Seq(R)
           /\ DOMAIN Append(t, x) = DOMAIN t \cup {Len(t) + 1}
           /\ Len(t) + 1 \notin DOMAIN t
           /\ Append(t, x)[Len(t) + 1] = x
           /\ \A j \in DOMAIN t : Append(t, x)[j] = t[j]
OBVIOUS

\* Rows of a table are mapped.
LEMMA MapRows ==
    ASSUME NEW R, NEW t \in Seq(R), NEW F, NEW G \in [DOMAIN t -> R], F = G
    PROVE  F \in Seq(R) /\ DOMAIN F = DOMAIN t
OBVIOUS

\* A table grows.
LEMMA AddRows ==
    ASSUME NEW R, NEW t \in Seq(R), NEW x \in Seq(R)
    PROVE  /\ t \o x \in Seq(R)
           /\ DOMAIN t \subseteq DOMAIN (t \o x)
           /\ \A j \in DOMAIN t : (t \o x)[j] = t[j]
           /\ \A j \in DOMAIN (t \o x) \ DOMAIN t :
                 j - Len(t) \in DOMAIN x /\ (t \o x)[j] = x[j - Len(t)]
OBVIOUS

\* The rows that are left.
LEMMA LiveRows ==
    ASSUME NEW R, NEW t \in Table(R), NEW i \in Live(t)
    PROVE  i \in DOMAIN t /\ t[i] \in R /\ t[i] # Gone /\ i \in Nat
BY DEF Table, Live

-----------------------------------------------------------------------------
(* What a handler may do: b is the snapshot, d and e are the database before and after *)

\* The requests that write the row of their user.
UserKinds == {"next", "post", "subaccount", "profile", "entitlement", "reset"}
\* Those that check something of a share or an account first.
ShareKinds == {"invite", "level", "unshare"}

\* The database b was there before d: ids stay, what is gone stays so, and the columns that
\* no statement sets are as they were.
Older(b, d) ==
    /\ DOMAIN b.users \subseteq DOMAIN d.users
    /\ DOMAIN b.accounts \subseteq DOMAIN d.accounts
    /\ DOMAIN b.shares \subseteq DOMAIN d.shares
    /\ DOMAIN b.tokens \subseteq DOMAIN d.tokens
    /\ DOMAIN b.repos \subseteq DOMAIN d.repos
    /\ \A a \in DOMAIN b.accounts \cap Live(d.accounts) :
           a \in Live(b.accounts) /\ d.accounts[a].owner = b.accounts[a].owner
    /\ \A s \in DOMAIN b.shares \cap Live(d.shares) :
           /\ s \in Live(b.shares)
           /\ d.shares[s].account = b.shares[s].account
           /\ d.shares[s].user = b.shares[s].user
    /\ \A t \in DOMAIN b.tokens \cap Live(d.tokens) : t \in Live(b.tokens)
    /\ \A p \in DOMAIN b.repos \cap Live(d.repos) :
           p \in Live(b.repos) /\ d.repos[p] = b.repos[p]

\* The request r names what there was in b.  POST /aws/billrepository and the
\* removal of the tokens r.tokens are requests, too.
Valid(b, r) ==
    /\ r.kind \in Requests \cup {"repository", "clean"}
    /\ r.kind \in UserKinds \cup ShareKinds \cup {"viewer"} => r.user \in DOMAIN b.users
    /\ r.kind = "next" => r.fresh \in External
    /\ r.kind \in {"post", "subaccount"} => r.external \in External /\ r.role \in Identities
    /\ r.kind \in {"post", "patch"} => r.pretty \in Names
    /\ r.kind \in {"patch", "subaccount", "delete", "invite", "repository"} => r.account \in Live(b.accounts)
    /\ r.kind = "delete" => Owns(b, r.user, r.account)
    /\ r.kind \in {"ingest", "put"} =>
            /\ r.row \in Account /\ r.row.owner \in DOMAIN b.users
            /\ r.account \in DOMAIN b.accounts /\ r.repo \in DOMAIN b.repos
    /\ r.kind = "ingest" =>
            /\ r = [kind |-> r.kind, account |-> r.account, repo |-> r.repo, row |-> r.row, user |-> r.user]
            /\ r.repo \in Live(b.repos) /\ r.account = b.repos[r.repo].account
    /\ r.kind = "put" => r.row.role # None
    /\ r.kind \in {"user", "viewer", "profile", "invite"} => r.email \in Emails
    /\ r.kind \in {"user", "viewer", "profile", "reset"} => r.password \in Passwords
    /\ r.kind = "entitlement" => r.entitled \in BOOLEAN
    /\ r.kind = "reset" => r.token \in Live(b.tokens)
    /\ r.kind \in {"invite", "level"} => r.level \in Level
    /\ r.kind \in {"level", "unshare"} => r.share \in Live(b.shares)

UsersMove(b, d, e, r) ==
    /\ DOMAIN d.users \subseteq DOMAIN e.users
    /\ \A u \in DOMAIN d.users : e.users[u] # d.users[u] =>
        /\ r.kind \in UserKinds /\ u = r.user
        /\ e.users[u].parent = b.users[u].parent
        /\ \/ e.users[u].email = b.users[u].email
           \/ r.kind = "profile" /\ e.users[u].email = r.email
        /\ \/ e.users[u].external \in {b.users[u].external, None}
           \/ /\ r.kind = "next" /\ b.users[u].external = None
              /\ e.users[u].external = r.fresh
    /\ \A u \in DOMAIN e.users \ DOMAIN d.users :
        /\ r.kind \in {"user", "viewer", "invite"}
        /\ e.users[u].email = r.email
        /\ e.users[u].external = None
        /\ e.users[u].parent \in DOMAIN d.users \cup {None}

\* The next external id of the user is spent.
Spent(b, e, r) ==
    /\ r.kind \in {"post", "subaccount"}
    /\ b.users[r.user].external = r.external
    /\ e.users[r.user].external = None

IdentifiedRow(row) == row.external # FromConfig => row.role \in {None, row.identity}

\* The accounts whose rows the request writes back.
Touches(b, r, a) ==
    \/ r.kind \in {"patch", "subaccount"} /\ a = r.account /\ Owns(b, r.user, a)
    \/ r.kind = "put" /\ a \in AccountsOf(b, r.row.owner)
    \/ r.kind = "identity"

AccountWritten(b, d, e, r, a) ==
    /\ a \in Live(b.accounts) /\ e.accounts[a] # Gone
    /\ Touches(b, r, a)
    /\ e.accounts[a].owner = b.accounts[a].owner
    /\ IdentifiedRow(b.accounts[a]) => IdentifiedRow(e.accounts[a])
    /\ \/ e.accounts[a].external = b.accounts[a].external
       \/ r.kind = "subaccount" /\ Spent(b, e, r) /\ e.accounts[a].external = r.external

AccountAdded(b, d, e, r, a) ==
    /\ e.accounts[a] # Gone
    /\ IdentifiedRow(e.accounts[a])
    /\ \/ /\ r.kind = "post" /\ Spent(b, e, r)
          /\ e.accounts[a].owner = r.user /\ e.accounts[a].external = r.external
       \/ r.kind = "put" /\ e.accounts[a].owner = r.row.owner /\ e.accounts[a].external = None
       \/ /\ r.kind = "user" /\ e.accounts[a].external = FromConfig
          /\ e.accounts[a].owner \in DOMAIN e.users \ DOMAIN d.users

AccountsMove(b, d, e, r) ==
    /\ DOMAIN d.accounts \subseteq DOMAIN e.accounts
    /\ \A a \in DOMAIN d.accounts : e.accounts[a] # d.accounts[a] =>
        /\ a \in Live(d.accounts)
        /\ \/ /\ r.kind = "delete" /\ a = r.account /\ e.accounts[a] = Gone
              /\ Owns(b, r.user, a)
           \/ AccountWritten(b, d, e, r, a)
    /\ \A a \in DOMAIN e.accounts \ DOMAIN d.accounts : AccountAdded(b, d, e, r, a)

SharesMove(d, e, r) ==
    /\ DOMAIN d.shares \subseteq DOMAIN e.shares
    /\ \A s \in DOMAIN d.shares : e.shares[s] # d.shares[s] =>
        /\ s \in Live(d.shares)
        /\ \/ r.kind = "delete" /\ d.shares[s].account = r.account /\ e.shares[s] = Gone
           \/ /\ r.kind \in {"level", "unshare"} /\ s = r.share
              /\ e.shares[s] # Gone => /\ e.shares[s].account = d.shares[s].account
                                       /\ e.shares[s].user = d.shares[s].user
    /\ \A s \in DOMAIN e.shares \ DOMAIN d.shares :
        /\ r.kind = "invite" /\ e.shares[s] # Gone
        /\ e.shares[s].account = r.account /\ r.account \in Live(e.accounts)
        /\ e.shares[s].user \in DOMAIN e.users
    /\ \A a \in Live(d.accounts) \ Live(e.accounts), s \in Live(e.shares) : e.shares[s].account # a

ReposMove(d, e, r) ==
    /\ DOMAIN d.repos \subseteq DOMAIN e.repos
    /\ \A p \in DOMAIN d.repos : e.repos[p] # d.repos[p] =>
        /\ p \in Live(d.repos)
        /\ r.kind = "delete" /\ d.repos[p].account = r.account /\ e.repos[p] = Gone
    /\ \A p \in DOMAIN e.repos \ DOMAIN d.repos :
        /\ e.repos[p] # Gone /\ e.repos[p].account \in Live(e.accounts)
        /\ \/ r.kind = "user" /\ e.repos[p].account \notin DOMAIN d.accounts
           \/ r.kind = "repository" /\ e.repos[p].account = r.account
    /\ \A a \in Live(d.accounts) \ Live(e.accounts), p \in Live(e.repos) : e.repos[p].account # a

TokensMove(d, e, r) ==
    /\ DOMAIN d.tokens \subseteq DOMAIN e.tokens
    /\ \A t \in DOMAIN d.tokens : e.tokens[t] # d.tokens[t] =>
        /\ e.tokens[t] = Gone
        /\ \/ r.kind = "reset" /\ t = r.token
           \/ r.kind = "clean" /\ t \in r.tokens
    /\ \A t \in DOMAIN e.tokens \ DOMAIN d.tokens :
        e.tokens[t] # Gone /\ e.tokens[t].user \in DOMAIN e.users

\* All of it.
Moves(b, d, e, r) ==
    /\ e \in Tables
    /\ UsersMove(b, d, e, r)
    /\ AccountsMove(b, d, e, r)
    /\ SharesMove(d, e, r)
    /\ ReposMove(d, e, r)
    /\ TokensMove(d, e, r)

\* The situation of a handler.
Situation(b, d, r) ==
    /\ b \in Tables /\ Linked(b) /\ d \in Tables /\ Linked(d) /\ Older(b, d) /\ Valid(b, r)

-----------------------------------------------------------------------------
(* Each handler does no more *)

LEMMA TableTypes ==
    ASSUME NEW d \in Tables
    PROVE  /\ d.users \in Seq(User) /\ d.accounts \in Table(Account) /\ d.shares \in Table(Share)
           /\ d.tokens \in Table(Token) /\ d.repos \in Table(Repo)
BY DEF Tables

LEMMA KeptUsers ==
    ASSUME NEW b, NEW d, NEW e, NEW r, e.users = d.users
    PROVE  UsersMove(b, d, e, r)
BY DEF UsersMove

LEMMA KeptAccounts ==
    ASSUME NEW b, NEW d, NEW e, NEW r, e.accounts = d.accounts
    PROVE  AccountsMove(b, d, e, r)
BY DEF AccountsMove

LEMMA KeptRest ==
    ASSUME NEW d, NEW e, NEW r, Live(d.accounts) \subseteq Live(e.accounts)
    PROVE  /\ e.shares = d.shares => SharesMove(d, e, r)
           /\ e.repos = d.repos => ReposMove(d, e, r)
           /\ e.tokens = d.tokens => TokensMove(d, e, r)
BY DEF SharesMove, ReposMove, TokensMove

LEMMA NothingMoves ==
    ASSUME NEW b, NEW d \in Tables, NEW r
    PROVE  Moves(b, d, d, r)
BY KeptUsers, KeptAccounts, KeptRest DEF Moves

\* A row of a user is what the snapshot has, but for the columns that were set.
UserWritten(b, r, row) ==
    /\ row \in User
    /\ row.parent = b.users[r.user].parent
    /\ row.email = b.users[r.user].email \/ (r.kind = "profile" /\ row.email = r.email)
    /\ \/ row.external \in {b.users[r.user].external, None}
       \/ r.kind = "next" /\ b.users[r.user].external = None /\ row.external = r.fresh

LEMMA WriteUserMoves ==
    ASSUME NEW b, NEW d, NEW e, NEW r, Situation(b, d, r), r.kind \in UserKinds,
           NEW row, UserWritten(b, r, row), e.users = [d.users EXCEPT ![r.user] = row]
    PROVE  /\ e.users \in Seq(User)
           /\ UsersMove(b, d, e, r)
<1> DEFINE us == [d.users EXCEPT ![r.user] = row]
<1>1. d \in Tables /\ d.users \in Seq(User) /\ r.user \in DOMAIN d.users
  BY TableTypes DEF Situation, Valid, Older
<1>2. e.users = us
  OBVIOUS
<1>3. /\ us \in Seq(User) /\ DOMAIN us = DOMAIN d.users /\ us[r.user] = row
      /\ \A j \in DOMAIN d.users \ {r.user} : us[j] = d.users[j]
  <2>1. row \in User
    BY DEF UserWritten
  <2> QED BY <1>1, <2>1, SetRow
<1> HIDE DEF us
<1> QED BY <1>2, <1>3 DEF UsersMove, UserWritten

LEMMA UserRow ==
    ASSUME NEW b, NEW d, NEW r, Situation(b, d, r), r.user \in DOMAIN b.users
    PROVE  b.users[r.user] \in User
BY TableTypes DEF Situation

LEMMA OnlyUserMoves ==
    ASSUME NEW b, NEW d, NEW r, Situation(b, d, r), r.kind \in UserKinds,
           NEW row, UserWritten(b, r, row)
    PROVE  Moves(b, d, WriteUser(d, r.user, row), r)
<1> DEFINE e == WriteUser(d, r.user, row)
<1>1. d \in Tables
  BY DEF Situation
<1>2. e.users \in Seq(User) /\ UsersMove(b, d, e, r)
  <2>1. e.users = [d.users EXCEPT ![r.user] = row]
    BY <1>1 DEF WriteUser, Tables
  <2> HIDE DEF e
  <2> QED BY <2>1, WriteUserMoves
<1>3. /\ e = [d EXCEPT !.users = e.users]
      /\ e.accounts = d.accounts /\ e.shares = d.shares /\ e.tokens = d.tokens /\ e.repos = d.repos
  BY <1>1 DEF WriteUser, Tables
<1>4. e \in Tables
  BY <1>1, <1>2, <1>3 DEF Tables
<1>5. Live(d.accounts) \subseteq Live(e.accounts)
  BY <1>3
<1> HIDE DEF e
<1>6. AccountsMove(b, d, e, r)
  BY <1>3, KeptAccounts
<1>7. SharesMove(d, e, r) /\ ReposMove(d, e, r) /\ TokensMove(d, e, r)
  BY <1>3, <1>5, KeptRest
<1>8. Moves(b, d, e, r)
  BY <1>2, <1>4, <1>6, <1>7 DEF Moves
<1> QED BY <1>8 DEF e

LEMMA NextExternalMoves ==
    ASSUME NEW b, NEW d, NEW r, Situation(b, d, r), r.kind = "next"
    PROVE  Moves(b, d, NextExternal(b, d, r), r)
<1>1. r.user \in DOMAIN b.users /\ r.fresh \in External
  BY DEF Situation, Valid, UserKinds
<1>2. b.users[r.user] \in User
  BY <1>1, UserRow
<1>3. b.users[r.user].external = None
      => UserWritten(b, r, [b.users[r.user] EXCEPT !.external = r.fresh])
  BY <1>1, <1>2 DEF UserWritten, User
<1> QED BY <1>3, OnlyUserMoves, NothingMoves DEF NextExternal, UserKinds, Situation

LEMMA PatchUserMoves ==
    ASSUME NEW b, NEW d, NEW r, Situation(b, d, r), r.kind = "profile"
    PROVE  Moves(b, d, PatchUser(b, d, r), r)
<1>1. r.user \in DOMAIN b.users /\ r.email \in Emails /\ r.password \in Passwords
  BY DEF Situation, Valid, UserKinds
<1>2. b.users[r.user] \in User
  BY <1>1, UserRow
<1>3. UserWritten(b, r, [b.users[r.user] EXCEPT !.email = r.email, !.auth = r.password])
  BY <1>1, <1>2 DEF UserWritten, User
<1> QED BY <1>3, OnlyUserMoves, NothingMoves DEF PatchUser, UserKinds, Situation

LEMMA UpdateEntitlementMoves ==
    ASSUME NEW b, NEW d, NEW r, Situation(b, d, r), r.kind = "entitlement"
    PROVE  Moves(b, d, UpdateEntitlement(b, d, r), r)
<1>1. r.user \in DOMAIN b.users /\ r.entitled \in BOOLEAN
  BY DEF Situation, Valid, UserKinds
<1>2. b.users[r.user] \in User
  BY <1>1, UserRow
<1>3. UserWritten(b, r, [b.users[r.user] EXCEPT !.entitled = r.entitled])
  BY <1>1, <1>2 DEF UserWritten, User
<1> QED BY <1>3, OnlyUserMoves, NothingMoves DEF UpdateEntitlement, UserKinds, Situation

\* A token is used up.
LEMMA TokenGone ==
    ASSUME NEW d \in Tables, NEW i \in DOMAIN d.tokens
    PROVE  /\ [d.tokens EXCEPT ![i] = Gone] \in Table(Token)
           /\ DOMAIN [d.tokens EXCEPT ![i] = Gone] = DOMAIN d.tokens
           /\ [d.tokens EXCEPT ![i] = Gone][i] = Gone
           /\ \A j \in DOMAIN d.tokens \ {i} : [d.tokens EXCEPT ![i] = Gone][j] = d.tokens[j]
<1>1. d.tokens \in Seq(Token \cup {Gone})
  BY TableTypes DEF Table
<1> QED BY <1>1, SetRow DEF Table

LEMMA ResetPasswordMoves ==
    ASSUME NEW b, NEW d, NEW r, Situation(b, d, r), r.kind = "reset"
    PROVE  Moves(b, d, ResetPassword(b, d, r), r)
<1> DEFINE row == [b.users[r.user] EXCEPT !.auth = r.password]
           w == WriteUser(d, r.user, row)
           e == [w EXCEPT !.tokens[r.token] = Gone]
           ts == [d.tokens EXCEPT ![r.token] = Gone]
<1>1. r.user \in DOMAIN b.users /\ r.password \in Passwords /\ d \in Tables /\ r.token \in DOMAIN d.tokens
  BY DEF Situation, Valid, UserKinds, Older, Live
<1>2. b.users[r.user] \in User
  BY <1>1, UserRow
<1>3. UserWritten(b, r, row)
  BY <1>1, <1>2 DEF UserWritten, User
<1>4. w \in Tables /\ UsersMove(b, d, w, r)
  BY <1>3, OnlyUserMoves DEF UserKinds, Moves
<1>5. w.accounts = d.accounts /\ w.shares = d.shares /\ w.tokens = d.tokens /\ w.repos = d.repos
  BY <1>1 DEF WriteUser, Tables
<1> HIDE DEF w
<1>6. /\ e.users = w.users /\ e.accounts = d.accounts /\ e.shares = d.shares
      /\ e.tokens = ts /\ e.repos = d.repos
      /\ e = [w EXCEPT !.tokens = ts]
  BY <1>4, <1>5 DEF Tables
<1> HIDE DEF e, ts
<1>7. /\ ts \in Table(Token) /\ DOMAIN ts = DOMAIN d.tokens /\ ts[r.token] = Gone
      /\ \A j \in DOMAIN d.tokens \ {r.token} : ts[j] = d.tokens[j]
  BY <1>1, TokenGone DEF ts
<1>8. e \in Tables
  BY <1>4, <1>6, <1>7 DEF Tables
<1>9. UsersMove(b, d, e, r)
  BY <1>4, <1>6 DEF UsersMove
<1>10. TokensMove(d, e, r)
  BY <1>6, <1>7 DEF TokensMove
<1>11. Live(d.accounts) \subseteq Live(e.accounts)
  BY <1>6
<1>12. Moves(b, d, e, r)
  BY <1>6, <1>8, <1>9, <1>10, <1>11, KeptAccounts, KeptRest DEF Moves
<1>13. ResetPassword(b, d, r) = d \/ ResetPassword(b, d, r) = e
  BY DEF ResetPassword, e, w
<1> QED BY <1>1, <1>12, <1>13, NothingMoves

\* The write of the user after the one of the account.
LEMMA SpendMoves ==
    ASSUME NEW b, NEW d, NEW r, Situation(b, d, r), r.kind \in {"post", "subaccount"},
           b.users[r.user].external = r.external,
           NEW w \in Tables, w.users = d.users,
           NEW e, e = WriteUser(w, r.user, [b.users[r.user] EXCEPT !.external = None])
    PROVE  /\ e \in Tables
           /\ UsersMove(b, d, e, r) /\ Spent(b, e, r)
           /\ e.accounts = w.accounts /\ e.shares = w.shares
           /\ e.tokens = w.tokens /\ e.repos = w.repos
<1> DEFINE row == [b.users[r.user] EXCEPT !.external = None]
<1>1. r.user \in DOMAIN b.users
  BY DEF Situation, Valid, UserKinds
<1>2. b.users[r.user] \in User
  BY <1>1, UserRow
<1>3. UserWritten(b, r, row) /\ row.external = None
  BY <1>1, <1>2 DEF UserWritten, User
<1> HIDE DEF row
<1>4. /\ e.accounts = w.accounts /\ e.shares = w.shares
      /\ e.tokens = w.tokens /\ e.repos = w.repos
      /\ e = [w EXCEPT !.users = e.users]
      /\ e.users = [d.users EXCEPT ![r.user] = row]
  BY DEF WriteUser, Tables, row
<1>5. e.users \in Seq(User) /\ UsersMove(b, d, e, r) /\ e.users[r.user] = row
  <2>1. r.kind \in UserKinds
    BY DEF UserKinds
  <2>2. UserWritten(b, r, row)
    BY <1>3
  <2>3. e.users = [d.users EXCEPT ![r.user] = row]
    BY <1>4
  <2>4. Situation(b, d, r)
    OBVIOUS
  <2>5. UsersMove(b, d, e, r)
    BY <2>1, <2>2, <2>3, <2>4, WriteUserMoves
  <2>6. e.users \in Seq(User)
    BY <2>1, <2>2, <2>3, <2>4, WriteUserMoves
  <2>7. e.users[r.user] = row
    <3>1. r.user \in DOMAIN d.users
      BY <1>1 DEF Situation, Older
    <3> QED BY <2>3, <3>1
  <2> QED BY <2>5, <2>6, <2>7
<1>6. e \in Tables
  BY <1>4, <1>5 DEF Tables
<1> QED BY <1>3, <1>4, <1>5, <1>6 DEF Spent

LEMMA PostAwsAccountMoves ==
    ASSUME NEW b, NEW d, NEW r, Situation(b, d, r), r.kind = "post"
    PROVE  Moves(b, d, PostAwsAccount(b, d, r), r)
<1> DEFINE row == [owner |-> r.user, pretty |-> r.pretty, role |-> r.role,
                   external |-> r.external, identity |-> r.role, parent |-> None]
           w == [d EXCEPT !.accounts = Append(@, row)]
           e == WriteUser(w, r.user, [b.users[r.user] EXCEPT !.external = None])
<1>1. /\ r.user \in DOMAIN b.users /\ d \in Tables /\ r.external \in External
      /\ r.role \in Identities /\ r.pretty \in Names /\ r.user \in Nat
  BY TableTypes DEF Situation, Valid, UserKinds
<1>2. /\ row \in Account /\ row.owner = r.user /\ row.external = r.external
      /\ IdentifiedRow(row) /\ row # Gone
  <2>1. row \in Account
    BY <1>1 DEF Account
  <2>2. row # Gone
    BY <2>1, GoneAssumption
  <2> QED BY <1>1, <2>1, <2>2 DEF IdentifiedRow
<1> HIDE DEF row
<1>3. d.accounts \in Seq(Account \cup {Gone})
  BY <1>1, TableTypes DEF Table
<1> DEFINE acs == Append(d.accounts, row)
<1>4. /\ acs \in Seq(Account \cup {Gone})
      /\ DOMAIN acs = DOMAIN d.accounts \cup {Len(d.accounts) + 1}
      /\ acs[Len(d.accounts) + 1] = row
      /\ \A j \in DOMAIN d.accounts : acs[j] = d.accounts[j]
  BY <1>2, <1>3, AddRow
<1> HIDE DEF acs
<1>5. /\ w.users = d.users /\ w.accounts = acs /\ w.shares = d.shares
      /\ w.tokens = d.tokens /\ w.repos = d.repos
      /\ w \in Tables
  BY <1>1, <1>4 DEF Tables, Table, acs
<1>6. CASE b.users[r.user].external = r.external
  <2> HIDE DEF e, w
  <2>1. /\ e \in Tables /\ UsersMove(b, d, e, r) /\ Spent(b, e, r)
        /\ e.accounts = acs /\ e.shares = d.shares /\ e.tokens = d.tokens /\ e.repos = d.repos
    <3>1. e = WriteUser(w, r.user, [b.users[r.user] EXCEPT !.external = None])
      BY DEF e
    <3>2. w \in Tables /\ w.users = d.users
      BY <1>5
    <3>3. /\ e \in Tables /\ UsersMove(b, d, e, r) /\ Spent(b, e, r)
          /\ e.accounts = w.accounts /\ e.shares = w.shares
          /\ e.tokens = w.tokens /\ e.repos = w.repos
      BY <1>6, <3>1, <3>2, SpendMoves
    <3> QED BY <1>5, <3>3
  <2>2. Live(d.accounts) \subseteq Live(e.accounts)
    BY <1>4, <2>1 DEF Live
  <2>3. AccountsMove(b, d, e, r)
    BY <1>2, <1>4, <2>1 DEF AccountsMove, AccountAdded
  <2>4. SharesMove(d, e, r) /\ ReposMove(d, e, r) /\ TokensMove(d, e, r)
    BY <2>1, <2>2, KeptRest
  <2>5. Moves(b, d, e, r)
    BY <2>1, <2>3, <2>4 DEF Moves
  <2>6. PostAwsAccount(b, d, r) = d \/ PostAwsAccount(b, d, r) = e
    BY DEF PostAwsAccount, SpendExternal, e, w, row
  <2> QED BY <1>1, <2>5, <2>6, NothingMoves
<1>7. CASE b.users[r.user].external # r.external
  BY <1>1, <1>7, NothingMoves DEF PostAwsAccount
<1> QED BY <1>6, <1>7

\* models.AwsAccount.Update.
LEMMA WriteAccountMoves ==
    ASSUME NEW b, NEW d, NEW r, Situation(b, d, r), NEW a \in Live(b.accounts), NEW row \in Account
    PROVE  LET e == WriteAccount(d, a, row)
           IN /\ e \in Tables
              /\ e.users = d.users /\ e.shares = d.shares /\ e.tokens = d.tokens /\ e.repos = d.repos
              /\ DOMAIN e.accounts = DOMAIN d.accounts
              /\ Live(e.accounts) = Live(d.accounts)
              /\ a \in Live(d.accounts) => e.accounts[a] = row
              /\ \A x \in DOMAIN d.accounts : x # a \/ a \notin Live(d.accounts)
                    => e.accounts[x] = d.accounts[x]
<1> DEFINE e == WriteAccount(d, a, row)
           acs == [d.accounts EXCEPT ![a] = row]
<1>1. d \in Tables /\ d.accounts \in Seq(Account \cup {Gone})
  BY TableTypes DEF Situation, Table
<1>2. row \in Account \cup {Gone} /\ row # Gone
  BY GoneAssumption
<1>3. CASE a \in Live(d.accounts)
  <2>1. a \in DOMAIN d.accounts
    BY <1>3 DEF Live
  <2>2. /\ acs \in Seq(Account \cup {Gone})
        /\ DOMAIN acs = DOMAIN d.accounts
        /\ acs[a] = row
        /\ \A j \in DOMAIN d.accounts \ {a} : acs[j] = d.accounts[j]
    BY <1>1, <1>2, <2>1, SetRow
  <2> HIDE DEF acs
  <2>3. /\ e.users = d.users /\ e.shares = d.shares /\ e.tokens = d.tokens /\ e.repos = d.repos
        /\ e.accounts = acs /\ e = [d EXCEPT !.accounts = acs]
    BY <1>1, <1>3 DEF WriteAccount, Tables, acs
  <2>4. e \in Tables
    BY <1>1, <2>2, <2>3 DEF Tables, Table
  <2> HIDE DEF e
  <2>5. Live(e.accounts) = Live(d.accounts)
    BY <1>2, <1>3, <2>2, <2>3 DEF Live
  <2> QED BY <1>3, <2>2, <2>3, <2>4, <2>5 DEF e
<1>4. CASE a \notin Live(d.accounts)
  BY <1>1, <1>4 DEF WriteAccount
<1> QED BY <1>3, <1>4

LEMMA OwnedRow ==
    ASSUME NEW b \in Tables, NEW u, NEW a, Owns(b, u, a)
    PROVE  a \in Live(b.accounts) /\ b.accounts[a] \in Account /\ b.accounts[a].owner = u
<1>1. a \in Live(b.accounts) /\ b.accounts[a].owner = u
  BY DEF Owns, AccountsOf
<1>2. b.accounts \in Table(Account)
  BY TableTypes
<1> QED BY <1>1, <1>2, LiveRows

LEMMA PatchAwsAccountMoves ==
    ASSUME NEW b, NEW d, NEW r, Situation(b, d, r), r.kind = "patch"
    PROVE  Moves(b, d, PatchAwsAccount(b, d, r), r)
<1>1. d \in Tables /\ b \in Tables /\ r.pretty \in Names
  BY DEF Situation, Valid
<1>2. CASE Owns(b, r.user, r.account)
  <2> DEFINE a == r.account
             row == [b.accounts[r.account] EXCEPT !.pretty = r.pretty]
             e == WriteAccount(d, r.account, row)
  <2>1. a \in Live(b.accounts) /\ b.accounts[a] \in Account
    BY <1>1, <1>2, OwnedRow
  <2>2. /\ row \in Account /\ row.owner = b.accounts[a].owner
        /\ row.external = b.accounts[a].external
        /\ IdentifiedRow(b.accounts[a]) => IdentifiedRow(row)
    BY <1>1, <2>1 DEF Account, IdentifiedRow
  <2>3. row # Gone
    BY <2>2, GoneAssumption
  <2> HIDE DEF row
  <2>4. /\ e \in Tables
        /\ e.users = d.users /\ e.shares = d.shares /\ e.tokens = d.tokens /\ e.repos = d.repos
        /\ DOMAIN e.accounts = DOMAIN d.accounts
        /\ Live(e.accounts) = Live(d.accounts)
        /\ a \in Live(d.accounts) => e.accounts[a] = row
        /\ \A x \in DOMAIN d.accounts : x # a \/ a \notin Live(d.accounts)
              => e.accounts[x] = d.accounts[x]
    BY <2>1, <2>2, WriteAccountMoves
  <2> HIDE DEF e
  <2>5. AccountsMove(b, d, e, r)
    BY <1>2, <2>1, <2>2, <2>3, <2>4 DEF AccountsMove, AccountWritten, Touches
  <2>6. UsersMove(b, d, e, r) /\ SharesMove(d, e, r) /\ ReposMove(d, e, r) /\ TokensMove(d, e, r)
    BY <2>4, KeptUsers, KeptRest
  <2>7. Moves(b, d, e, r)
    BY <2>4, <2>5, <2>6 DEF Moves
  <2> QED BY <1>2, <2>7 DEF PatchAwsAccount, e, row
<1>3. CASE ~Owns(b, r.user, r.account)
  BY <1>1, <1>3, NothingMoves DEF PatchAwsAccount
<1> QED BY <1>2, <1>3

LEMMA PatchAwsSubaccountMoves ==
    ASSUME NEW b, NEW d, NEW r, Situation(b, d, r), r.kind = "subaccount"
    PROVE  Moves(b, d, PatchAwsSubaccount(b, d, r), r)
<1>1. d \in Tables /\ b \in Tables /\ r.external \in External /\ r.role \in Identities
  BY DEF Situation, Valid
<1>2. CASE MaySetRole(b, r) /\ EmailFree(d, b.users[r.user].email, r.user)
  <2> DEFINE a == r.account
             row == [b.accounts[r.account] EXCEPT !.role = r.role, !.external = r.external]
             w == WriteAccount(d, r.account, row)
             e == WriteUser(w, r.user, [b.users[r.user] EXCEPT !.external = None])
  <2>1. a \in Live(b.accounts) /\ b.accounts[a] \in Account
    BY <1>1, <1>2, OwnedRow DEF MaySetRole
  <2>2. /\ row \in Account /\ row.owner = b.accounts[a].owner
        /\ row.external = r.external
        /\ IdentifiedRow(row)
    BY <1>1, <1>2, <2>1 DEF Account, IdentifiedRow, MaySetRole
  <2>3. row # Gone
    BY <2>2, GoneAssumption
  <2> HIDE DEF row
  <2>4. /\ w \in Tables
        /\ w.users = d.users /\ w.shares = d.shares /\ w.tokens = d.tokens /\ w.repos = d.repos
        /\ DOMAIN w.accounts = DOMAIN d.accounts
        /\ Live(w.accounts) = Live(d.accounts)
        /\ a \in Live(d.accounts) => w.accounts[a] = row
        /\ \A x \in DOMAIN d.accounts : x # a \/ a \notin Live(d.accounts)
              => w.accounts[x] = d.accounts[x]
    BY <2>1, <2>2, WriteAccountMoves
  <2> HIDE DEF w
  <2>5. b.users[r.user].external = r.external
    BY <1>2 DEF MaySetRole
  <2>6. /\ e \in Tables /\ UsersMove(b, d, e, r) /\ Spent(b, e, r)
        /\ e.accounts = w.accounts /\ e.shares = d.shares
        /\ e.tokens = d.tokens /\ e.repos = d.repos
    <3> HIDE DEF e
    <3>1. e = WriteUser(w, r.user, [b.users[r.user] EXCEPT !.external = None])
      BY DEF e
    <3>2. /\ e \in Tables /\ UsersMove(b, d, e, r) /\ Spent(b, e, r)
          /\ e.accounts = w.accounts /\ e.shares = w.shares
          /\ e.tokens = w.tokens /\ e.repos = w.repos
      BY <2>4, <2>5, <3>1, SpendMoves
    <3> QED BY <2>4, <3>2
  <2> HIDE DEF e
  <2>7. AccountsMove(b, d, e, r)
    <3>1. Touches(b, r, a)
      BY <1>2 DEF Touches, MaySetRole
    <3>2. a \in Live(d.accounts) => AccountWritten(b, d, e, r, a)
      BY <2>1, <2>2, <2>3, <2>4, <2>6, <3>1 DEF AccountWritten
    <3> QED BY <2>4, <2>6, <3>2 DEF AccountsMove
  <2>8. SharesMove(d, e, r) /\ ReposMove(d, e, r) /\ TokensMove(d, e, r)
    BY <2>4, <2>6, KeptRest
  <2>9. Moves(b, d, e, r)
    BY <2>6, <2>7, <2>8 DEF Moves
  <2> QED BY <1>2, <2>9 DEF PatchAwsSubaccount, SpendExternal, e, w, row
<1>3. CASE ~(MaySetRole(b, r) /\ EmailFree(d, b.users[r.user].email, r.user))
  BY <1>1, <1>3, NothingMoves DEF PatchAwsSubaccount, SpendExternal
<1> QED BY <1>2, <1>3

LEMMA DeleteAwsAccountMoves ==
    ASSUME NEW b, NEW d, NEW r, Situation(b, d, r), r.kind = "delete"
    PROVE  Moves(b, d, DeleteAwsAccount(b, d, r), r)
<1>1. d \in Tables /\ b \in Tables
  BY DEF Situation
<1>2. CASE Owns(b, r.user, r.account) /\ Owns(d, r.user, r.account)
  <2> DEFINE a == r.account
             acs == [d.accounts EXCEPT ![a] = Gone]
             ss == [s \in DOMAIN d.shares |->
                       IF d.shares[s] # Gone /\ d.shares[s].account = a THEN Gone ELSE d.shares[s]]
             ps == [p \in DOMAIN d.repos |->
                       IF d.repos[p] # Gone /\ d.repos[p].account = a THEN Gone ELSE d.repos[p]]
             e == DropAccount(d, a)
  <2>1. a \in Live(d.accounts) /\ a \in DOMAIN d.accounts
    BY <1>1, <1>2, OwnedRow DEF Live
  <2>2. /\ d.accounts \in Seq(Account \cup {Gone}) /\ d.shares \in Seq(Share \cup {Gone})
        /\ d.repos \in Seq(Repo \cup {Gone})
    BY <1>1, TableTypes DEF Table
  <2>3. /\ acs \in Seq(Account \cup {Gone}) /\ DOMAIN acs = DOMAIN d.accounts
        /\ acs[a] = Gone /\ \A x \in DOMAIN d.accounts \ {a} : acs[x] = d.accounts[x]
    BY <2>1, <2>2, SetRow
  <2>4. ss \in Seq(Share \cup {Gone}) /\ DOMAIN ss = DOMAIN d.shares
    <3>1. ss \in [DOMAIN d.shares -> Share \cup {Gone}]
      BY <2>2
    <3> QED BY <2>2, <3>1, MapRows
  <2>5. ps \in Seq(Repo \cup {Gone}) /\ DOMAIN ps = DOMAIN d.repos
    <3>1. ps \in [DOMAIN d.repos -> Repo \cup {Gone}]
      BY <2>2
    <3> QED BY <2>2, <3>1, MapRows
  <2>6. /\ e.users = d.users /\ e.accounts = acs /\ e.shares = ss
        /\ e.tokens = d.tokens /\ e.repos = ps
        /\ e \in Tables
    <3>1. e = [d EXCEPT !.accounts = acs, !.shares = ss, !.repos = ps]
      BY <1>1 DEF DropAccount, Tables
    <3> HIDE DEF e, acs, ss, ps
    <3> QED BY <1>1, <2>3, <2>4, <2>5, <3>1 DEF Tables, Table
  <2>7. \A s \in DOMAIN d.shares :
           ss[s] = IF d.shares[s] # Gone /\ d.shares[s].account = a THEN Gone ELSE d.shares[s]
    OBVIOUS
  <2>8. \A p \in DOMAIN d.repos :
           ps[p] = IF d.repos[p] # Gone /\ d.repos[p].account = a THEN Gone ELSE d.repos[p]
    OBVIOUS
  <2> HIDE DEF e, acs, ss, ps
  <2>9. AccountsMove(b, d, e, r)
    BY <1>2, <2>1, <2>3, <2>6 DEF AccountsMove
  <2>10. Live(d.accounts) \ Live(e.accounts) = {a}
    BY <2>1, <2>3, <2>6 DEF Live
  <2>11. SharesMove(d, e, r)
    BY <2>4, <2>6, <2>7, <2>10 DEF SharesMove, Live
  <2>12. ReposMove(d, e, r)
    BY <2>5, <2>6, <2>8, <2>10 DEF ReposMove, Live
  <2>13. UsersMove(b, d, e, r) /\ TokensMove(d, e, r)
    BY <2>6, KeptUsers DEF TokensMove
  <2>14. Moves(b, d, e, r)
    BY <2>6, <2>9, <2>11, <2>12, <2>13 DEF Moves
  <2> QED BY <1>2, <2>14 DEF DeleteAwsAccount, e
<1>3. CASE ~(Owns(b, r.user, r.account) /\ Owns(d, r.user, r.account))
  BY <1>1, <1>3, NothingMoves DEF DeleteAwsAccount
<1> QED BY <1>2, <1>3

\* A finite set as a sequence.
LEMMA SetToSeqProperties ==
    ASSUME NEW S, IsFiniteSet(S)
    PROVE  /\ SetToSeq(S) \in Seq(S)
           /\ \A i, j \in DOMAIN SetToSeq(S) : SetToSeq(S)[i] = SetToSeq(S)[j] => i = j
<1> DEFINE n == Cardinality(S)
<1>1. n \in Nat /\ ExistsBijection(1 .. n, S)
  BY FS_CardinalityType
<1> HIDE DEF n
<1>2. PICK f \in [1 .. n -> S] : IsInjective(f)
  BY <1>1 DEF ExistsBijection, Bijection, Injection, Surjection, IsInjective
<1>3. SetToSeq(S) \in [1 .. n -> S] /\ IsInjective(SetToSeq(S))
  BY <1>2 DEF SetToSeq, n
<1>4. SetToSeq(S) \in Seq(S)
  BY <1>1, <1>3
<1> QED BY <1>3, <1>4 DEF IsInjective

\* What PutSubAccounts does to the table.
LEMMA PutSubAccountsTables ==
    ASSUME NEW b, NEW d, NEW r, Situation(b, d, r), r.kind = "put"
    PROVE  LET e    == PutSubAccounts(b, d, r)
               u    == r.row.owner
               subs == Org[IdentityOf(r.row)]
           IN /\ e \in Tables
              /\ e.users = d.users /\ e.shares = d.shares /\ e.tokens = d.tokens /\ e.repos = d.repos
              /\ DOMAIN d.accounts \subseteq DOMAIN e.accounts
              /\ \A x \in DOMAIN d.accounts :
                    \/ e.accounts[x] = d.accounts[x]
                    \/ /\ x \in AccountsOf(b, u) /\ d.accounts[x] # Gone
                       /\ e.accounts[x] \in Account
                       /\ e.accounts[x] = [b.accounts[x] EXCEPT !.parent = r.account]
              /\ \A x \in DOMAIN e.accounts \ DOMAIN d.accounts :
                    /\ e.accounts[x] \in Account
                    /\ e.accounts[x].owner = u
                    /\ e.accounts[x].role = None /\ e.accounts[x].external = None
                    /\ e.accounts[x].identity \in subs \ Known(b, u)
              /\ \A x, y \in DOMAIN e.accounts \ DOMAIN d.accounts :
                    e.accounts[x].identity = e.accounts[y].identity => x = y
<1> DEFINE aa == r.row
           subs == Org[IdentityOf(aa)]
           new == SetToSeq(subs \ Known(b, aa.owner))
           adopted == {x \in AccountsOf(b, aa.owner) :
                        /\ b.accounts[x].parent = None
                        /\ b.accounts[x].identity \in subs \ {IdentityOf(aa)}}
           kept  == [x \in DOMAIN d.accounts |->
                    IF x \in adopted /\ d.accounts[x] # Gone
                    THEN [b.accounts[x] EXCEPT !.parent = r.account] ELSE d.accounts[x]]
           added == [i \in DOMAIN new |->
                    [owner |-> aa.owner, pretty |-> SomeName, role |-> None,
                     external |-> None, identity |-> new[i], parent |-> r.account]]
           e == PutSubAccounts(b, d, r)
           acs == kept \o added
<1>1. /\ d \in Tables /\ b \in Tables /\ aa \in Account /\ aa.role # None
      /\ r.account \in Nat /\ aa.owner \in Nat
      /\ d.accounts \in Seq(Account \cup {Gone})
  BY TableTypes DEF Situation, Valid, Table, Account
<1>2. subs \subseteq Identities /\ IsFiniteSet(subs \ Known(b, aa.owner))
  <2>1. IdentityOf(aa) \in Identities
    BY <1>1 DEF IdentityOf, Account
  <2>2. subs \subseteq Identities
    BY <2>1, AccountsAssumption
  <2> QED BY <2>2, AccountsAssumption, FS_Subset
<1>3. SomeName \in Names
  BY AccountsAssumption DEF SomeName
<1> HIDE DEF aa, subs, new
<1>4. /\ new \in Seq(subs \ Known(b, aa.owner))
      /\ \A i, j \in DOMAIN new : new[i] = new[j] => i = j
  BY <1>2, SetToSeqProperties DEF new
<1>5. \A x \in adopted : x \in Live(b.accounts) /\ b.accounts[x] \in Account
  BY <1>1, TableTypes, LiveRows DEF AccountsOf
<1>6. kept \in Seq(Account \cup {Gone}) /\ DOMAIN kept = DOMAIN d.accounts
  <2>1. \A x \in adopted : [b.accounts[x] EXCEPT !.parent = r.account] \in Account
    BY <1>1, <1>5 DEF Account
  <2> HIDE DEF adopted
  <2>2. \A x \in DOMAIN d.accounts : d.accounts[x] \in Account \cup {Gone}
    BY <1>1
  <2>3. kept \in [DOMAIN d.accounts -> Account \cup {Gone}]
    BY <2>1, <2>2
  <2> HIDE DEF kept
  <2>4. DOMAIN kept = DOMAIN d.accounts
    BY <2>3
  <2> QED BY <1>1, <2>3, <2>4, MapRows
<1>7. added \in Seq(Account) /\ DOMAIN added = DOMAIN new
  <2>1. \A i \in DOMAIN new : new[i] \in Identities
    BY <1>2, <1>4
  <2>2. added \in [DOMAIN new -> Account]
    BY <1>1, <1>3, <2>1 DEF Account
  <2> HIDE DEF added
  <2>3. DOMAIN new = 1 .. Len(new) /\ Len(new) \in Nat
    BY <1>4
  <2> QED BY <2>2, <2>3
<1>8. \A x \in DOMAIN d.accounts :
         \/ kept[x] = d.accounts[x]
         \/ /\ x \in AccountsOf(b, aa.owner) /\ d.accounts[x] # Gone
            /\ kept[x] \in Account
            /\ kept[x] = [b.accounts[x] EXCEPT !.parent = r.account]
  <2>1. \A x \in adopted : [b.accounts[x] EXCEPT !.parent = r.account] \in Account
    BY <1>1, <1>5 DEF Account
  <2> QED BY <2>1
<1>9. \A i \in DOMAIN new : /\ added[i].owner = aa.owner /\ added[i].role = None
                            /\ added[i].external = None /\ added[i].identity = new[i]
  OBVIOUS
<1> HIDE DEF kept, added, adopted
<1>10. /\ acs \in Seq(Account \cup {Gone})
       /\ DOMAIN kept \subseteq DOMAIN acs
       /\ \A j \in DOMAIN kept : acs[j] = kept[j]
       /\ \A j \in DOMAIN acs \ DOMAIN kept : j - Len(kept) \in DOMAIN added /\ acs[j] = added[j - Len(kept)]
  <2>1. added \in Seq(Account \cup {Gone})
    BY <1>7
  <2> QED BY <1>6, <2>1, AddRows
<1> HIDE DEF acs
<1>11. e = [d EXCEPT !.accounts = acs]
  BY DEF PutSubAccounts, e, acs, kept, added, adopted, new, subs, aa
<1> HIDE DEF e
<1>12. /\ e.users = d.users /\ e.accounts = acs /\ e.shares = d.shares
       /\ e.tokens = d.tokens /\ e.repos = d.repos /\ e \in Tables
  BY <1>1, <1>10, <1>11 DEF Tables, Table
<1>13. \A x \in DOMAIN acs \ DOMAIN kept :
         /\ acs[x] \in Account /\ acs[x].owner = aa.owner /\ acs[x].role = None /\ acs[x].external = None
         /\ acs[x].identity = new[x - Len(kept)] /\ x - Len(kept) \in DOMAIN new
  <2> SUFFICES ASSUME NEW x \in DOMAIN acs \ DOMAIN kept
               PROVE  /\ acs[x] \in Account /\ acs[x].owner = aa.owner
                      /\ acs[x].role = None /\ acs[x].external = None
                      /\ acs[x].identity = new[x - Len(kept)] /\ x - Len(kept) \in DOMAIN new
    OBVIOUS
  <2>1. PICK i \in DOMAIN added : i = x - Len(kept) /\ acs[x] = added[i]
    BY <1>10
  <2>2. added[i] \in Account
    BY <1>7
  <2> QED BY <1>7, <1>9, <2>1, <2>2
<1>14. \A x \in DOMAIN acs \ DOMAIN kept : acs[x].identity \in subs \ Known(b, aa.owner)
  <2>1. \A i \in DOMAIN new : new[i] \in subs \ Known(b, aa.owner)
    BY <1>4
  <2> QED BY <1>13, <2>1
<1>15. \A x, y \in DOMAIN acs \ DOMAIN kept : acs[x].identity = acs[y].identity => x = y
  <2> TAKE x, y \in DOMAIN acs \ DOMAIN kept
  <2>1. acs[x].identity = acs[y].identity => x - Len(kept) = y - Len(kept)
    BY <1>4, <1>13
  <2>2. x \in Nat /\ y \in Nat
    <3>1. \A R, t : t \in Seq(R) => DOMAIN t \subseteq Nat
      OBVIOUS
    <3>2. DOMAIN acs \subseteq Nat
      BY <1>10, <3>1
    <3> QED BY <3>2
  <2>3. Len(kept) \in Nat
    BY <1>6
  <2> QED BY <2>1, <2>2, <2>3
<1>16. /\ DOMAIN d.accounts \subseteq DOMAIN e.accounts
       /\ \A x \in DOMAIN d.accounts : e.accounts[x] = kept[x]
  BY <1>6, <1>10, <1>12
<1>17. \A x \in DOMAIN d.accounts :
         \/ e.accounts[x] = d.accounts[x]
         \/ /\ x \in AccountsOf(b, aa.owner) /\ d.accounts[x] # Gone
            /\ e.accounts[x] \in Account
            /\ e.accounts[x] = [b.accounts[x] EXCEPT !.parent = r.account]
  BY <1>8, <1>16
<1>18. \A x \in DOMAIN e.accounts \ DOMAIN d.accounts :
         /\ e.accounts[x] \in Account
         /\ e.accounts[x].owner = aa.owner
         /\ e.accounts[x].role = None /\ e.accounts[x].external = None
         /\ e.accounts[x].identity \in subs \ Known(b, aa.owner)
  BY <1>6, <1>12, <1>13, <1>14
<1>19. \A x, y \in DOMAIN e.accounts \ DOMAIN d.accounts :
          e.accounts[x].identity = e.accounts[y].identity => x = y
  BY <1>6, <1>12, <1>15
<1> QED BY <1>12, <1>16, <1>17, <1>18, <1>19 DEF e, aa, subs

LEMMA PutSubAccountsMoves ==
    ASSUME NEW b, NEW d, NEW r, Situation(b, d, r), r.kind = "put"
    PROVE  Moves(b, d, PutSubAccounts(b, d, r), r)
<1> DEFINE e == PutSubAccounts(b, d, r)
<1>1. /\ e \in Tables
      /\ e.users = d.users /\ e.shares = d.shares /\ e.tokens = d.tokens /\ e.repos = d.repos
      /\ DOMAIN d.accounts \subseteq DOMAIN e.accounts
      /\ \A x \in DOMAIN d.accounts :
            \/ e.accounts[x] = d.accounts[x]
            \/ /\ x \in AccountsOf(b, r.row.owner) /\ d.accounts[x] # Gone
               /\ e.accounts[x] \in Account
               /\ e.accounts[x] = [b.accounts[x] EXCEPT !.parent = r.account]
      /\ \A x \in DOMAIN e.accounts \ DOMAIN d.accounts :
            /\ e.accounts[x] \in Account
            /\ e.accounts[x].owner = r.row.owner
            /\ e.accounts[x].role = None /\ e.accounts[x].external = None
  BY PutSubAccountsTables
<1> HIDE DEF e
<1>2. b \in Tables
  BY DEF Situation
<1>3. \A x \in DOMAIN d.accounts : e.accounts[x] # d.accounts[x] =>
         x \in Live(d.accounts) /\ AccountWritten(b, d, e, r, x)
  <2> SUFFICES ASSUME NEW x \in DOMAIN d.accounts, e.accounts[x] # d.accounts[x]
               PROVE  x \in Live(d.accounts) /\ AccountWritten(b, d, e, r, x)
    OBVIOUS
  <2>1. /\ x \in AccountsOf(b, r.row.owner) /\ d.accounts[x] # Gone /\ e.accounts[x] \in Account
        /\ e.accounts[x] = [b.accounts[x] EXCEPT !.parent = r.account]
    BY <1>1
  <2>2. x \in Live(b.accounts) /\ b.accounts[x] \in Account /\ b.accounts[x].owner = r.row.owner
    BY <1>2, <2>1, OwnedRow DEF Owns
  <2>3. e.accounts[x] # Gone
    BY <2>1, GoneAssumption
  <2>4. /\ e.accounts[x].owner = b.accounts[x].owner
        /\ e.accounts[x].external = b.accounts[x].external
        /\ e.accounts[x].role = b.accounts[x].role
        /\ e.accounts[x].identity = b.accounts[x].identity
    BY <2>1, <2>2 DEF Account
  <2>5. Touches(b, r, x)
    BY <2>1 DEF Touches
  <2> QED BY <2>1, <2>2, <2>3, <2>4, <2>5 DEF AccountWritten, IdentifiedRow, Live
<1>4. \A x \in DOMAIN e.accounts \ DOMAIN d.accounts : AccountAdded(b, d, e, r, x)
  BY <1>1, GoneAssumption DEF AccountAdded, IdentifiedRow
<1>5. AccountsMove(b, d, e, r)
  BY <1>1, <1>3, <1>4 DEF AccountsMove
<1>6. Live(d.accounts) \subseteq Live(e.accounts)
  BY <1>1, <1>3 DEF Live, AccountWritten
<1>7. UsersMove(b, d, e, r) /\ SharesMove(d, e, r) /\ ReposMove(d, e, r) /\ TokensMove(d, e, r)
  BY <1>1, <1>6, KeptUsers, KeptRest
<1>8. Moves(b, d, e, r)
  BY <1>1, <1>5, <1>7 DEF Moves
<1> QED BY <1>8 DEF e

LEMMA UpdateAwsIdentityMoves ==
    ASSUME NEW b, NEW d, NEW r, Situation(b, d, r), r.kind = "identity"
    PROVE  Moves(b, d, UpdateAwsIdentity(b, d, r), r)
<1> DEFINE row(x) == [b.accounts[x] EXCEPT !.identity = IdentityOf(b.accounts[x])]
           acs == [x \in DOMAIN d.accounts |->
                     IF x \in Live(b.accounts) /\ d.accounts[x] # Gone THEN row(x) ELSE d.accounts[x]]
           e == UpdateAwsIdentity(b, d, r)
<1>1. d \in Tables /\ b \in Tables /\ d.accounts \in Seq(Account \cup {Gone})
  BY TableTypes DEF Situation, Table
<1>2. \A x \in Live(b.accounts) :
         /\ row(x) \in Account /\ row(x).owner = b.accounts[x].owner
         /\ row(x).external = b.accounts[x].external
         /\ IdentifiedRow(row(x))
  <2> SUFFICES ASSUME NEW x \in Live(b.accounts)
               PROVE  /\ row(x) \in Account /\ row(x).owner = b.accounts[x].owner
                      /\ row(x).external = b.accounts[x].external
                      /\ IdentifiedRow(row(x))
    OBVIOUS
  <2>1. b.accounts[x] \in Account
    BY <1>1, TableTypes, LiveRows
  <2>2. IdentityOf(b.accounts[x]) \in Identities \cup {None}
    BY <2>1 DEF IdentityOf, Account
  <2> QED BY <2>1, <2>2 DEF Account, IdentifiedRow, IdentityOf
<1>3. \A x \in Live(b.accounts) : row(x) # Gone
  BY <1>2, GoneAssumption
<1>4. e = [d EXCEPT !.accounts = acs]
  BY <1>1 DEF UpdateAwsIdentity, Tables
<1> HIDE DEF row
<1>5. acs \in Seq(Account \cup {Gone}) /\ DOMAIN acs = DOMAIN d.accounts
  <2>1. \A x \in DOMAIN d.accounts : d.accounts[x] \in Account \cup {Gone}
    BY <1>1
  <2>2. acs \in [DOMAIN d.accounts -> Account \cup {Gone}]
    BY <1>2, <2>1
  <2> HIDE DEF acs
  <2>3. DOMAIN acs = DOMAIN d.accounts
    BY <2>2
  <2> QED BY <1>1, <2>2, <2>3, MapRows
<1>6. \A x \in DOMAIN d.accounts :
         \/ acs[x] = d.accounts[x]
         \/ x \in Live(b.accounts) /\ x \in Live(d.accounts) /\ acs[x] = row(x)
  BY DEF Live
<1> HIDE DEF acs, e
<1>7. /\ e.users = d.users /\ e.accounts = acs /\ e.shares = d.shares
      /\ e.tokens = d.tokens /\ e.repos = d.repos /\ e \in Tables
  BY <1>1, <1>4, <1>5 DEF Tables, Table
<1>8. AccountsMove(b, d, e, r)
  BY <1>2, <1>3, <1>5, <1>6, <1>7 DEF AccountsMove, AccountWritten, Touches
<1>9. Live(d.accounts) \subseteq Live(e.accounts)
  BY <1>3, <1>5, <1>6, <1>7 DEF Live
<1>10. UsersMove(b, d, e, r) /\ SharesMove(d, e, r) /\ ReposMove(d, e, r) /\ TokensMove(d, e, r)
  BY <1>7, <1>9, KeptUsers, KeptRest
<1>11. Moves(b, d, e, r)
  BY <1>7, <1>8, <1>10 DEF Moves
<1> QED BY <1>11 DEF e

LEMMA NewUserAdded ==
    ASSUME NEW d \in Tables, NEW email \in Emails, NEW p \in Passwords,
           NEW parent \in DOMAIN d.users \cup {None}
    PROVE  Append(d.users, NewUser(email, p, parent)) \in Seq(User)
<1>1. d.users \in Seq(User)
  BY TableTypes
<1>2. NewUser(email, p, parent) \in User
  BY <1>1 DEF NewUser, User
<1> QED BY <1>1, <1>2, AddRow

\* A user is added.
LEMMA AddUserMoves ==
    ASSUME NEW b, NEW d, NEW r, Situation(b, d, r), r.kind \in {"user", "viewer", "invite"},
           NEW p \in Passwords, NEW parent \in DOMAIN d.users \cup {None}, r.email \in Emails,
           NEW e, e.users = Append(d.users, NewUser(r.email, p, parent))
    PROVE  /\ UsersMove(b, d, e, r)
           /\ DOMAIN e.users = DOMAIN d.users \cup {Len(d.users) + 1}
           /\ Len(d.users) + 1 \in Nat \ DOMAIN d.users
<1> DEFINE row == NewUser(r.email, p, parent)
<1>1. d.users \in Seq(User)
  BY TableTypes DEF Situation
<1>2. row \in User /\ row.email = r.email /\ row.external = None /\ row.parent = parent
  BY <1>1 DEF NewUser, User
<1> HIDE DEF row
<1>3. /\ Append(d.users, row) \in Seq(User)
      /\ DOMAIN Append(d.users, row) = DOMAIN d.users \cup {Len(d.users) + 1}
      /\ Len(d.users) + 1 \notin DOMAIN d.users
      /\ Append(d.users, row)[Len(d.users) + 1] = row
      /\ \A j \in DOMAIN d.users : Append(d.users, row)[j] = d.users[j]
  BY <1>1, <1>2, AddRow
<1>4. e.users = Append(d.users, row)
  BY DEF row
<1>5. UsersMove(b, d, e, r)
  BY <1>2, <1>3, <1>4 DEF UsersMove
<1>6. Len(d.users) + 1 \in Nat
  BY <1>1
<1> QED BY <1>3, <1>4, <1>5, <1>6

\* A token of a user is added.
LEMMA AddTokenMoves ==
    ASSUME NEW d \in Tables, NEW r, NEW e, NEW u \in DOMAIN e.users, u \in Nat,
           e.tokens = Append(d.tokens, [user |-> u])
    PROVE  e.tokens \in Table(Token) /\ TokensMove(d, e, r)
<1> DEFINE row == [user |-> u]
<1>1. d.tokens \in Seq(Token \cup {Gone})
  BY TableTypes DEF Table
<1>2. row \in Token /\ row.user = u
  BY DEF Token
<1>3. row # Gone
  BY <1>2, GoneAssumption
<1> HIDE DEF row
<1>4. /\ Append(d.tokens, row) \in Seq(Token \cup {Gone})
      /\ DOMAIN Append(d.tokens, row) = DOMAIN d.tokens \cup {Len(d.tokens) + 1}
      /\ Append(d.tokens, row)[Len(d.tokens) + 1] = row
      /\ \A j \in DOMAIN d.tokens : Append(d.tokens, row)[j] = d.tokens[j]
  BY <1>1, <1>2, AddRow
<1>5. e.tokens = Append(d.tokens, row)
  BY DEF row
<1> QED BY <1>2, <1>3, <1>4, <1>5 DEF TokensMove, Table

LEMMA ForgottenPasswordMoves ==
    ASSUME NEW b, NEW d, NEW r, Situation(b, d, r), r.kind = "forgotten"
    PROVE  Moves(b, d, ForgottenPassword(b, d, r), r)
<1>1. d \in Tables /\ DOMAIN b.users \subseteq DOMAIN d.users
  BY DEF Situation, Older
<1>2. CASE WithEmail(b, r.email) # {}
  <2> DEFINE u == CHOOSE x \in WithEmail(b, r.email) : TRUE
             e == [d EXCEPT !.tokens = Append(@, [user |-> u])]
  <2>1. u \in WithEmail(b, r.email)
    BY <1>2
  <2>2. u \in DOMAIN d.users
    BY <1>1, <2>1 DEF WithEmail
  <2>3. u \in Nat
    BY <1>1, <2>2, TableTypes
  <2>4. ForgottenPassword(b, d, r) = e
    BY <1>2 DEF ForgottenPassword
  <2> HIDE DEF u
  <2>5. /\ e.users = d.users /\ e.accounts = d.accounts /\ e.shares = d.shares
        /\ e.tokens = Append(d.tokens, [user |-> u]) /\ e.repos = d.repos
        /\ e = [d EXCEPT !.tokens = e.tokens]
    BY <1>1 DEF Tables
  <2> HIDE DEF e
  <2>6. u \in DOMAIN e.users
    BY <2>2, <2>5
  <2>7. e.tokens \in Table(Token) /\ TokensMove(d, e, r)
    BY <1>1, <2>3, <2>5, <2>6, AddTokenMoves
  <2>8. e \in Tables
    BY <1>1, <2>5, <2>7 DEF Tables
  <2>9. Live(d.accounts) \subseteq Live(e.accounts)
    BY <2>5
  <2>10. /\ UsersMove(b, d, e, r) /\ AccountsMove(b, d, e, r)
         /\ SharesMove(d, e, r) /\ ReposMove(d, e, r)
    BY <2>5, <2>9, KeptUsers, KeptAccounts, KeptRest
  <2> QED BY <2>4, <2>7, <2>8, <2>10 DEF Moves
<1>3. CASE WithEmail(b, r.email) = {}
  BY <1>1, <1>3, NothingMoves DEF ForgottenPassword
<1> QED BY <1>2, <1>3

LEMMA CreateViewerMoves ==
    ASSUME NEW b, NEW d, NEW r, Situation(b, d, r), r.kind = "viewer"
    PROVE  Moves(b, d, CreateViewer(b, d, r), r)
<1> DEFINE u == Len(d.users) + 1
           e == [d EXCEPT !.users  = Append(@, NewUser(r.email, r.password, r.user)),
                          !.tokens = Append(@, [user |-> u])]
<1>1. d \in Tables /\ r.user \in DOMAIN d.users /\ r.email \in Emails /\ r.password \in Passwords
  BY DEF Situation, Older, Valid
<1>2. /\ e.users = Append(d.users, NewUser(r.email, r.password, r.user))
      /\ e.accounts = d.accounts /\ e.shares = d.shares
      /\ e.tokens = Append(d.tokens, [user |-> u]) /\ e.repos = d.repos
      /\ e = [d EXCEPT !.users = e.users, !.tokens = e.tokens]
  BY <1>1 DEF Tables
<1>3. CreateViewer(b, d, r) = d \/ CreateViewer(b, d, r) = e
  BY DEF CreateViewer
<1> HIDE DEF e
<1>4. /\ e.users \in Seq(User) /\ UsersMove(b, d, e, r)
      /\ DOMAIN e.users = DOMAIN d.users \cup {u} /\ u \in Nat
  <2>1. r.kind \in {"user", "viewer", "invite"} /\ r.user \in DOMAIN d.users \cup {None}
    BY <1>1
  <2>2. e.users = Append(d.users, NewUser(r.email, r.password, r.user))
    BY <1>2
  <2>3. e.users \in Seq(User)
    BY <1>1, <2>1, <2>2, NewUserAdded
  <2>4. UsersMove(b, d, e, r)
    BY <1>1, <2>1, <2>2, AddUserMoves
  <2>5. DOMAIN e.users = DOMAIN d.users \cup {u}
    BY <1>1, <2>1, <2>2, AddUserMoves
  <2>6. u \in Nat
    BY <1>1, TableTypes
  <2> QED BY <2>3, <2>4, <2>5, <2>6
<1>5. e.tokens \in Table(Token) /\ TokensMove(d, e, r)
  <2> HIDE DEF u
  <2> QED BY <1>1, <1>2, <1>4, AddTokenMoves
<1>6. e \in Tables
  BY <1>1, <1>2, <1>4, <1>5 DEF Tables
<1>7. Live(d.accounts) \subseteq Live(e.accounts)
  BY <1>2
<1>8. AccountsMove(b, d, e, r) /\ SharesMove(d, e, r) /\ ReposMove(d, e, r)
  BY <1>2, <1>7, KeptAccounts, KeptRest
<1>9. Moves(b, d, e, r)
  BY <1>4, <1>5, <1>6, <1>8 DEF Moves
<1> QED BY <1>1, <1>3, <1>9, NothingMoves

LEMMA CreateUserMoves ==
    ASSUME NEW b, NEW d, NEW r, Situation(b, d, r), r.kind = "user"
    PROVE  Moves(b, d, CreateUser(b, d, r), r)
<1> DEFINE u == Len(d.users) + 1
           a == Len(d.accounts) + 1
           some == CHOOSE i \in Identities : TRUE
           row == [owner |-> u, pretty |-> SomeName, role |-> some, external |-> FromConfig,
                   identity |-> None, parent |-> None]
           repo == [account |-> a]
           g == [d EXCEPT !.users = Append(@, NewUser(r.email, r.password, None))]
           e == [g EXCEPT !.accounts = Append(@, row), !.repos = Append(@, repo)]
           acs == Append(d.accounts, row)
           ps == Append(d.repos, repo)
<1>1. d \in Tables /\ r.email \in Emails /\ r.password \in Passwords
  BY DEF Situation, Valid
<1>2. /\ g.users = Append(d.users, NewUser(r.email, r.password, None))
      /\ g.accounts = d.accounts /\ g.shares = d.shares /\ g.tokens = d.tokens /\ g.repos = d.repos
      /\ g = [d EXCEPT !.users = g.users]
      /\ e.users = g.users /\ e.accounts = acs /\ e.shares = d.shares
      /\ e.tokens = d.tokens /\ e.repos = ps
      /\ e = [d EXCEPT !.users = g.users, !.accounts = acs, !.repos = ps]
  BY <1>1 DEF Tables
<1>3. \/ CreateUser(b, d, r) = d
      \/ CreateUser(b, d, r) = g
      \/ CreateUser(b, d, r) = e
  BY DEF CreateUser
<1>4. row \in Account /\ row.external = FromConfig /\ row.owner = u
  <2>1. u \in Nat
    BY <1>1, TableTypes
  <2>2. some \in Identities /\ SomeName \in Names
    BY AccountsAssumption DEF SomeName
  <2> HIDE DEF u, some
  <2> QED BY <2>1, <2>2 DEF Account
<1>5. repo \in Repo /\ repo.account = a
  <2>1. a \in Nat
    BY <1>1, TableTypes DEF Table
  <2> HIDE DEF a
  <2> QED BY <2>1 DEF Repo
<1> HIDE DEF row, repo
<1>6. row # Gone /\ repo # Gone
  BY <1>4, <1>5, GoneAssumption
<1>7. d.accounts \in Seq(Account \cup {Gone}) /\ d.repos \in Seq(Repo \cup {Gone})
  BY <1>1, TableTypes DEF Table
<1>8. /\ acs \in Seq(Account \cup {Gone}) /\ DOMAIN acs = DOMAIN d.accounts \cup {a}
      /\ a \notin DOMAIN d.accounts /\ acs[a] = row
      /\ \A j \in DOMAIN d.accounts : acs[j] = d.accounts[j]
  BY <1>4, <1>7, AddRow
<1>9. /\ ps \in Seq(Repo \cup {Gone}) /\ DOMAIN ps = DOMAIN d.repos \cup {Len(d.repos) + 1}
      /\ ps[Len(d.repos) + 1] = repo
      /\ \A j \in DOMAIN d.repos : ps[j] = d.repos[j]
  BY <1>5, <1>7, AddRow
<1> HIDE DEF g, e, acs, ps, a
<1>10. g.users \in Seq(User)
  BY <1>1, <1>2, NewUserAdded
<1>11. /\ UsersMove(b, d, g, r)
       /\ DOMAIN g.users = DOMAIN d.users \cup {u} /\ u \notin DOMAIN d.users
  <2>1. r.kind \in {"user", "viewer", "invite"} /\ None \in DOMAIN d.users \cup {None}
    OBVIOUS
  <2>2. g.users = Append(d.users, NewUser(r.email, r.password, None))
    BY <1>2
  <2>3. UsersMove(b, d, g, r)
    BY <1>1, <2>1, <2>2, AddUserMoves
  <2>4. DOMAIN g.users = DOMAIN d.users \cup {u} /\ u \notin DOMAIN d.users
    BY <1>1, <2>1, <2>2, AddUserMoves
  <2> QED BY <2>3, <2>4
<1>12. g \in Tables /\ e \in Tables
  BY <1>1, <1>2, <1>8, <1>9, <1>10 DEF Tables, Table
<1>13. Moves(b, d, g, r)
  <2>1. Live(d.accounts) \subseteq Live(g.accounts)
    BY <1>2
  <2>2. /\ AccountsMove(b, d, g, r)
        /\ SharesMove(d, g, r) /\ ReposMove(d, g, r) /\ TokensMove(d, g, r)
    BY <1>2, <2>1, KeptAccounts, KeptRest
  <2> QED BY <1>11, <1>12, <2>2 DEF Moves
<1>14. Moves(b, d, e, r)
  <2> HIDE DEF u
  <2>1. Live(d.accounts) \subseteq Live(e.accounts)
    BY <1>2, <1>8 DEF Live
  <2>2. UsersMove(b, d, e, r)
    BY <1>2, <1>11 DEF UsersMove
  <2>3. AccountsMove(b, d, e, r)
    BY <1>2, <1>4, <1>6, <1>8, <1>11 DEF AccountsMove, AccountAdded, IdentifiedRow
  <2>4. ReposMove(d, e, r)
    <3>1. a \in Live(e.accounts) \ DOMAIN d.accounts
      BY <1>2, <1>6, <1>8 DEF Live
    <3> QED BY <1>2, <1>5, <1>6, <1>9, <2>1, <3>1 DEF ReposMove
  <2>5. SharesMove(d, e, r) /\ TokensMove(d, e, r)
    BY <1>2, <2>1, KeptRest
  <2> QED BY <1>12, <2>2, <2>3, <2>4, <2>5 DEF Moves
<1> QED BY <1>1, <1>3, <1>13, <1>14, NothingMoves

\* A share is added.
LEMMA AddShareMoves ==
    ASSUME NEW d \in Tables, NEW r, NEW e, r.kind = "invite", r.level \in Level,
           e.accounts = d.accounts, r.account \in Live(d.accounts),
           NEW u \in DOMAIN e.users, u \in Nat,
           e.shares = Append(d.shares, [account |-> r.account, user |-> u, level |-> r.level])
    PROVE  e.shares \in Table(Share) /\ SharesMove(d, e, r)
<1> DEFINE row == [account |-> r.account, user |-> u, level |-> r.level]
<1>1. d.shares \in Seq(Share \cup {Gone}) /\ r.account \in Nat
  BY TableTypes DEF Table, Live
<1>2. row \in Share /\ row.user = u /\ row.account = r.account
  BY <1>1 DEF Share
<1>3. row # Gone
  BY <1>2, GoneAssumption
<1> HIDE DEF row
<1>4. /\ Append(d.shares, row) \in Seq(Share \cup {Gone})
      /\ DOMAIN Append(d.shares, row) = DOMAIN d.shares \cup {Len(d.shares) + 1}
      /\ Append(d.shares, row)[Len(d.shares) + 1] = row
      /\ \A j \in DOMAIN d.shares : Append(d.shares, row)[j] = d.shares[j]
  BY <1>1, <1>2, AddRow
<1>5. e.shares = Append(d.shares, row)
  BY DEF row
<1>6. SharesMove(d, e, r)
  BY <1>2, <1>3, <1>4, <1>5 DEF SharesMove
<1> QED BY <1>4, <1>5, <1>6 DEF Table

LEMMA InviteUserMoves ==
    ASSUME NEW b, NEW d, NEW r, Situation(b, d, r), r.kind = "invite"
    PROVE  Moves(b, d, InviteUser(b, d, r), r)
<1> DEFINE guest == CHOOSE u \in WithEmail(b, r.email) : TRUE
           new == Len(d.users) + 1
           p == CHOOSE x \in Passwords : TRUE
           e1 == ShareWith(d, r.account, guest, r.level)
           e2 == [ShareWith(d, r.account, new, r.level) EXCEPT
                     !.users  = Append(@, NewUser(r.email, p, None)),
                     !.tokens = Append(@, [user |-> new])]
<1>1. /\ d \in Tables /\ r.email \in Emails /\ r.level \in Level
      /\ DOMAIN b.users \subseteq DOMAIN d.users
  BY DEF Situation, Older, Valid
<1>2. \/ InviteUser(b, d, r) = d
      \/ /\ r.account \in Live(d.accounts) /\ WithEmail(b, r.email) # {}
         /\ InviteUser(b, d, r) = e1
      \/ r.account \in Live(d.accounts) /\ InviteUser(b, d, r) = e2
  <2> HIDE DEF e1, e2
  <2>1. CASE ~MayInvite(b, r.user, r.account, r.level) \/ r.account \notin Live(d.accounts)
    BY <2>1 DEF InviteUser
  <2>2. CASE /\ ~(~MayInvite(b, r.user, r.account, r.level) \/ r.account \notin Live(d.accounts))
             /\ WithEmail(b, r.email) # {}
    BY <2>2 DEF InviteUser, e1
  <2>3. CASE /\ ~(~MayInvite(b, r.user, r.account, r.level) \/ r.account \notin Live(d.accounts))
             /\ WithEmail(b, r.email) = {}
    BY <2>3 DEF InviteUser, e2
  <2> QED BY <2>1, <2>2, <2>3
<1>3. p \in Passwords
  BY AccountsAssumption
<1>4. ASSUME r.account \in Live(d.accounts), WithEmail(b, r.email) # {}
      PROVE  Moves(b, d, e1, r)
  <2>1. guest \in DOMAIN d.users
    BY <1>1, <1>4 DEF WithEmail
  <2>2. guest \in Nat
    BY <1>1, <2>1, TableTypes
  <2> HIDE DEF guest
  <2>3. /\ e1.users = d.users /\ e1.accounts = d.accounts
        /\ e1.shares = Append(d.shares, [account |-> r.account, user |-> guest, level |-> r.level])
        /\ e1.tokens = d.tokens /\ e1.repos = d.repos
        /\ e1 = [d EXCEPT !.shares = e1.shares]
    BY <1>1 DEF ShareWith, Tables
  <2> HIDE DEF e1
  <2>4. guest \in DOMAIN e1.users
    BY <2>1, <2>3
  <2>5. e1.shares \in Table(Share) /\ SharesMove(d, e1, r)
    BY <1>1, <1>4, <2>2, <2>3, <2>4, AddShareMoves
  <2>6. e1 \in Tables
    BY <1>1, <2>3, <2>5 DEF Tables
  <2>7. Live(d.accounts) \subseteq Live(e1.accounts)
    BY <2>3
  <2>8. /\ UsersMove(b, d, e1, r) /\ AccountsMove(b, d, e1, r)
        /\ ReposMove(d, e1, r) /\ TokensMove(d, e1, r)
    BY <2>3, <2>7, KeptUsers, KeptAccounts, KeptRest
  <2> QED BY <2>5, <2>6, <2>8 DEF Moves
<1>5. ASSUME r.account \in Live(d.accounts)
      PROVE  Moves(b, d, e2, r)
  <2> HIDE DEF p
  <2>1. /\ e2.users = Append(d.users, NewUser(r.email, p, None)) /\ e2.accounts = d.accounts
        /\ e2.shares = Append(d.shares, [account |-> r.account, user |-> new, level |-> r.level])
        /\ e2.tokens = Append(d.tokens, [user |-> new]) /\ e2.repos = d.repos
        /\ e2 = [d EXCEPT !.users = e2.users, !.shares = e2.shares, !.tokens = e2.tokens]
    BY <1>1 DEF ShareWith, Tables
  <2> HIDE DEF e2
  <2>2. /\ r.kind \in {"user", "viewer", "invite"} /\ None \in DOMAIN d.users \cup {None}
        /\ e2.users = Append(d.users, NewUser(r.email, p, None))
    BY <2>1
  <2>3. e2.users \in Seq(User)
    BY <1>1, <1>3, <2>1, <2>2, NewUserAdded
  <2>4. UsersMove(b, d, e2, r)
    BY <1>1, <1>3, <2>2, AddUserMoves
  <2>5. DOMAIN e2.users = DOMAIN d.users \cup {new}
    BY <1>1, <1>3, <2>2, AddUserMoves
  <2>6. new \in Nat
    BY <1>1, TableTypes
  <2> HIDE DEF new
  <2>7. new \in DOMAIN e2.users
    BY <2>5
  <2>8. e2.shares \in Table(Share) /\ SharesMove(d, e2, r)
    BY <1>1, <1>5, <2>1, <2>6, <2>7, AddShareMoves
  <2>9. e2.tokens \in Table(Token) /\ TokensMove(d, e2, r)
    BY <1>1, <2>1, <2>6, <2>7, AddTokenMoves
  <2>10. e2 \in Tables
    BY <1>1, <2>1, <2>3, <2>8, <2>9 DEF Tables
  <2>11. Live(d.accounts) \subseteq Live(e2.accounts)
    BY <2>1
  <2>12. AccountsMove(b, d, e2, r) /\ ReposMove(d, e2, r)
    BY <2>1, <2>11, KeptAccounts, KeptRest
  <2> QED BY <2>4, <2>8, <2>9, <2>10, <2>12 DEF Moves
<1> HIDE DEF e1, e2
<1> QED BY <1>1, <1>2, <1>4, <1>5, NothingMoves

LEMMA ShareMoves ==
    ASSUME NEW b, NEW d, NEW r, Situation(b, d, r), r.kind \in {"level", "unshare"},
           r.share \in Live(d.shares),
           NEW row \in Share \cup {Gone},
           row # Gone => /\ row.account = d.shares[r.share].account
                         /\ row.user = d.shares[r.share].user,
           NEW e, e = [d EXCEPT !.shares = [@ EXCEPT ![r.share] = row]]
    PROVE  Moves(b, d, e, r)
<1> DEFINE ss == [d.shares EXCEPT ![r.share] = row]
<1>1. d \in Tables /\ d.shares \in Seq(Share \cup {Gone}) /\ r.share \in DOMAIN d.shares
  BY TableTypes DEF Situation, Table, Live
<1>2. /\ ss \in Seq(Share \cup {Gone}) /\ DOMAIN ss = DOMAIN d.shares /\ ss[r.share] = row
      /\ \A j \in DOMAIN d.shares \ {r.share} : ss[j] = d.shares[j]
  BY <1>1, SetRow
<1>3. /\ e.users = d.users /\ e.accounts = d.accounts /\ e.shares = ss
      /\ e.tokens = d.tokens /\ e.repos = d.repos
      /\ e = [d EXCEPT !.shares = ss]
  BY <1>1 DEF Tables
<1> HIDE DEF ss
<1>4. e \in Tables
  BY <1>1, <1>2, <1>3 DEF Tables, Table
<1>5. Live(d.accounts) \subseteq Live(e.accounts)
  BY <1>3
<1>6. SharesMove(d, e, r)
  BY <1>2, <1>3, <1>5 DEF SharesMove
<1>7. /\ UsersMove(b, d, e, r) /\ AccountsMove(b, d, e, r)
      /\ ReposMove(d, e, r) /\ TokensMove(d, e, r)
  BY <1>3, <1>5, KeptUsers, KeptAccounts, KeptRest
<1> QED BY <1>4, <1>6, <1>7 DEF Moves

LEMMA UpdateShareMoves ==
    ASSUME NEW b, NEW d, NEW r, Situation(b, d, r), r.kind = "level"
    PROVE  Moves(b, d, UpdateShare(b, d, r), r)
<1>1. d \in Tables /\ r.level \in Level
  BY DEF Situation, Valid
<1>2. CASE r.share \in Live(d.shares)
  <2> DEFINE row == [d.shares[r.share] EXCEPT !.level = r.level]
             e == [d EXCEPT !.shares = [@ EXCEPT ![r.share] = row]]
  <2>1. d.shares[r.share] \in Share
    BY <1>1, <1>2, TableTypes, LiveRows
  <2>2. /\ row \in Share \cup {Gone} /\ row.account = d.shares[r.share].account
        /\ row.user = d.shares[r.share].user
    BY <1>1, <2>1 DEF Share
  <2>3. UpdateShare(b, d, r) = d \/ UpdateShare(b, d, r) = e
    BY <1>1 DEF UpdateShare, Tables
  <2>4. Moves(b, d, e, r)
    <3> HIDE DEF row
    <3>1. r.kind \in {"level", "unshare"}
      OBVIOUS
    <3> QED BY <1>2, <2>2, <3>1, ShareMoves
  <2> QED BY <1>1, <2>3, <2>4, NothingMoves
<1>3. CASE r.share \notin Live(d.shares)
  BY <1>1, <1>3, NothingMoves DEF UpdateShare
<1> QED BY <1>2, <1>3

LEMMA DeleteShareMoves ==
    ASSUME NEW b, NEW d, NEW r, Situation(b, d, r), r.kind = "unshare"
    PROVE  Moves(b, d, DeleteShare(b, d, r), r)
<1>1. d \in Tables
  BY DEF Situation
<1>2. CASE r.share \in Live(d.shares)
  <2> DEFINE e == [d EXCEPT !.shares = [@ EXCEPT ![r.share] = Gone]]
  <2>1. DeleteShare(b, d, r) = d \/ DeleteShare(b, d, r) = e
    BY <1>1 DEF DeleteShare, Tables
  <2>2. Moves(b, d, e, r)
    <3>1. r.kind \in {"level", "unshare"} /\ Gone \in Share \cup {Gone}
      OBVIOUS
    <3> QED BY <1>2, <3>1, ShareMoves
  <2> QED BY <1>1, <2>1, <2>2, NothingMoves
<1>3. CASE r.share \notin Live(d.shares)
  BY <1>1, <1>3, NothingMoves DEF DeleteShare
<1> QED BY <1>2, <1>3

\* Every handler.
LEMMA HandledMoves ==
    ASSUME NEW b, NEW d, NEW r, Situation(b, d, r), r.kind \in Requests \ {"ingest"}
    PROVE  Moves(b, d, Handled(b, d, r), r)
<1>1. r.kind \in Requests
  OBVIOUS
<1>2. CASE r.kind \in {"next", "post", "patch", "subaccount", "delete", "put", "identity"}
  BY <1>2, NextExternalMoves, PostAwsAccountMoves, PatchAwsAccountMoves, PatchAwsSubaccountMoves,
     DeleteAwsAccountMoves, PutSubAccountsMoves, UpdateAwsIdentityMoves DEF Handled
<1>3. CASE r.kind \in {"user", "viewer", "profile", "entitlement", "forgotten", "reset"}
  BY <1>3, CreateUserMoves, CreateViewerMoves, PatchUserMoves, UpdateEntitlementMoves,
     ForgottenPasswordMoves, ResetPasswordMoves DEF Handled
<1>4. CASE r.kind \in {"invite", "level", "unshare"}
  BY <1>4, InviteUserMoves, UpdateShareMoves, DeleteShareMoves DEF Handled
<1> QED BY <1>1, <1>2, <1>3, <1>4 DEF Requests

-----------------------------------------------------------------------------
(* What follows for the tables *)

LEMMA MovesOlder ==
    ASSUME NEW b, NEW d, NEW e, NEW r, Situation(b, d, r), Moves(b, d, e, r)
    PROVE  Older(d, e)
<1>1. /\ DOMAIN d.users \subseteq DOMAIN e.users
      /\ DOMAIN d.accounts \subseteq DOMAIN e.accounts
      /\ DOMAIN d.shares \subseteq DOMAIN e.shares
      /\ DOMAIN d.tokens \subseteq DOMAIN e.tokens
      /\ DOMAIN d.repos \subseteq DOMAIN e.repos
  BY DEF Moves, UsersMove, AccountsMove, SharesMove, ReposMove, TokensMove
<1>2. \A a \in DOMAIN d.accounts \cap Live(e.accounts) :
           a \in Live(d.accounts) /\ e.accounts[a].owner = d.accounts[a].owner
  <2> SUFFICES ASSUME NEW a \in DOMAIN d.accounts, a \in Live(e.accounts), e.accounts[a] # d.accounts[a]
               PROVE  a \in Live(d.accounts) /\ e.accounts[a].owner = d.accounts[a].owner
    BY DEF Live
  <2>1. a \in Live(d.accounts) /\ AccountWritten(b, d, e, r, a)
    BY DEF Moves, AccountsMove, Live
  <2>2. a \in DOMAIN b.accounts /\ e.accounts[a].owner = b.accounts[a].owner
    BY <2>1 DEF AccountWritten, Live
  <2> QED BY <2>1, <2>2 DEF Situation, Older
<1>3. \A s \in DOMAIN d.shares \cap Live(e.shares) :
           /\ s \in Live(d.shares)
           /\ e.shares[s].account = d.shares[s].account
           /\ e.shares[s].user = d.shares[s].user
  BY DEF Moves, SharesMove, Live
<1>4. \A t \in DOMAIN d.tokens \cap Live(e.tokens) : t \in Live(d.tokens)
  BY DEF Moves, TokensMove, Live
<1>5. \A p \in DOMAIN d.repos \cap Live(e.repos) :
           p \in Live(d.repos) /\ e.repos[p] = d.repos[p]
  BY DEF Moves, ReposMove, Live
<1> QED BY <1>1, <1>2, <1>3, <1>4, <1>5 DEF Older

LEMMA MovesLinked ==
    ASSUME NEW b, NEW d, NEW e, NEW r, Situation(b, d, r), Moves(b, d, e, r)
    PROVE  Linked(e)
<1> USE DEF Live
<1>1. Linked(b) /\ Linked(d) /\ Older(b, d) /\ Older(d, e) /\ Valid(b, r)
  BY MovesOlder DEF Situation
<1>2. /\ DOMAIN b.users \subseteq DOMAIN d.users /\ DOMAIN d.users \subseteq DOMAIN e.users
  BY <1>1 DEF Older
<1>3. \A u \in DOMAIN e.users : e.users[u].parent \in DOMAIN e.users \cup {None}
  <2> SUFFICES ASSUME NEW u \in DOMAIN e.users PROVE e.users[u].parent \in DOMAIN e.users \cup {None}
    OBVIOUS
  <2>1. CASE u \notin DOMAIN d.users
    BY <1>2, <2>1 DEF Moves, UsersMove
  <2>2. CASE u \in DOMAIN d.users /\ e.users[u] = d.users[u]
    BY <1>1, <1>2, <2>2 DEF Linked
  <2>3. CASE u \in DOMAIN d.users /\ e.users[u] # d.users[u]
    <3>1. e.users[u].parent = b.users[u].parent /\ u \in DOMAIN b.users
      BY <1>1, <2>3 DEF Moves, UsersMove, Valid
    <3> QED BY <1>1, <1>2, <3>1 DEF Linked
  <2> QED BY <2>1, <2>2, <2>3
<1>4. \A a \in Live(e.accounts) : e.accounts[a].owner \in DOMAIN e.users
  <2> SUFFICES ASSUME NEW a \in Live(e.accounts) PROVE e.accounts[a].owner \in DOMAIN e.users
    OBVIOUS
  <2>1. CASE a \in DOMAIN d.accounts
    <3>1. a \in Live(d.accounts) /\ e.accounts[a].owner = d.accounts[a].owner
      BY <1>1, <2>1 DEF Older
    <3> QED BY <1>1, <1>2, <3>1 DEF Linked
  <2>2. CASE a \notin DOMAIN d.accounts
    <3>1. AccountAdded(b, d, e, r, a)
      BY <2>2 DEF Moves, AccountsMove
    <3> QED BY <1>1, <1>2, <3>1 DEF AccountAdded, Valid, UserKinds
  <2> QED BY <2>1, <2>2
<1>5. \A s \in Live(e.shares) : /\ e.shares[s].account \in Live(e.accounts)
                                /\ e.shares[s].user \in DOMAIN e.users
  <2> SUFFICES ASSUME NEW s \in Live(e.shares)
               PROVE  /\ e.shares[s].account \in Live(e.accounts)
                      /\ e.shares[s].user \in DOMAIN e.users
    OBVIOUS
  <2>1. CASE s \in DOMAIN d.shares
    <3>1. /\ s \in Live(d.shares) /\ e.shares[s].account = d.shares[s].account
          /\ e.shares[s].user = d.shares[s].user
      BY <1>1, <2>1 DEF Older
    <3>2. d.shares[s].account \in Live(d.accounts) /\ d.shares[s].user \in DOMAIN d.users
      BY <1>1, <3>1 DEF Linked
    <3> QED BY <1>2, <3>1, <3>2 DEF Moves, SharesMove
  <2>2. CASE s \notin DOMAIN d.shares
    BY <2>2 DEF Moves, SharesMove
  <2> QED BY <2>1, <2>2
<1>6. \A t \in Live(e.tokens) : e.tokens[t].user \in DOMAIN e.users
  <2> SUFFICES ASSUME NEW t \in Live(e.tokens) PROVE e.tokens[t].user \in DOMAIN e.users
    OBVIOUS
  <2>1. CASE t \in DOMAIN d.tokens
    <3>1. e.tokens[t] = d.tokens[t] /\ t \in Live(d.tokens)
      BY <2>1 DEF Moves, TokensMove
    <3> QED BY <1>1, <1>2, <3>1 DEF Linked
  <2>2. CASE t \notin DOMAIN d.tokens
    BY <2>2 DEF Moves, TokensMove
  <2> QED BY <2>1, <2>2
<1>7. \A p \in Live(e.repos) : e.repos[p].account \in Live(e.accounts)
  <2> SUFFICES ASSUME NEW p \in Live(e.repos) PROVE e.repos[p].account \in Live(e.accounts)
    OBVIOUS
  <2>1. CASE p \in DOMAIN d.repos
    <3>1. p \in Live(d.repos) /\ e.repos[p] = d.repos[p]
      BY <1>1, <2>1 DEF Older
    <3>2. d.repos[p].account \in Live(d.accounts)
      BY <1>1, <3>1 DEF Linked
    <3> QED BY <3>1, <3>2 DEF Moves, ReposMove
  <2>2. CASE p \notin DOMAIN d.repos
    BY <2>2 DEF Moves, ReposMove
  <2> QED BY <2>1, <2>2
<1> QED BY <1>3, <1>4, <1>5, <1>6, <1>7 DEF Linked

LEMMA OlderTransitive ==
    ASSUME NEW b, NEW d, NEW e, Older(b, d), Older(d, e)
    PROVE  Older(b, e)
<1> USE DEF Live
<1>1. /\ DOMAIN b.users \subseteq DOMAIN e.users
      /\ DOMAIN b.accounts \subseteq DOMAIN e.accounts
      /\ DOMAIN b.shares \subseteq DOMAIN e.shares
      /\ DOMAIN b.tokens \subseteq DOMAIN e.tokens
      /\ DOMAIN b.repos \subseteq DOMAIN e.repos
  BY DEF Older
<1>2. \A a \in DOMAIN b.accounts \cap Live(e.accounts) :
           a \in Live(b.accounts) /\ e.accounts[a].owner = b.accounts[a].owner
  BY DEF Older
<1>3. \A s \in DOMAIN b.shares \cap Live(e.shares) :
           /\ s \in Live(b.shares)
           /\ e.shares[s].account = b.shares[s].account
           /\ e.shares[s].user = b.shares[s].user
  BY DEF Older
<1>4. \A t \in DOMAIN b.tokens \cap Live(e.tokens) : t \in Live(b.tokens)
  BY DEF Older
<1>5. \A p \in DOMAIN b.repos \cap Live(e.repos) :
           p \in Live(b.repos) /\ e.repos[p] = b.repos[p]
  BY DEF Older
<1> QED BY <1>1, <1>2, <1>3, <1>4, <1>5 DEF Older

LEMMA OlderReflexive ==
    ASSUME NEW b PROVE Older(b, b)
BY DEF Older, Live

-----------------------------------------------------------------------------
(* What a request relies on *)

\* The objects in rel are those that r names, in the database b it has read.
Relies(b, r, rel) ==
    /\ r.kind \in UserKinds => <<"user", r.user>> \in rel
    /\ r.kind \in {"post", "delete"} => <<"accounts", r.user>> \in rel
    /\ r.kind \in {"patch", "subaccount", "delete"} => <<"account", r.account>> \in rel
    /\ r.kind \in {"delete", "invite"} => <<"shares", r.account>> \in rel
    /\ r.kind \in {"delete", "ingest", "repository"} => <<"bills", r.account>> \in rel
    /\ r.kind = "put" => /\ <<"accounts", r.row.owner>> \in rel
                         /\ \A a \in AccountsOf(b, r.row.owner) : <<"account", a>> \in rel
    /\ r.kind = "identity" => \A a \in Live(b.accounts) : <<"account", a>> \in rel
    /\ r.kind \in {"identity", "user"} => <<"default role", 0>> \in rel
    /\ r.kind \in {"user", "viewer", "profile", "forgotten", "invite"} => <<"email", r.email>> \in rel
    /\ r.kind = "profile" => <<"email", b.users[r.user].email>> \in rel
    /\ r.kind = "reset" => <<"token", r.token>> \in rel
    /\ r.kind = "clean" => \A t \in r.tokens : <<"token", t>> \in rel
    /\ r.kind \in {"level", "unshare"} => <<"shares", b.shares[r.share].account>> \in rel

SharesOn(d, a) == {s \in Live(d.shares) : d.shares[s].account = a}

\* The object o is in d as it was in b.
Same(b, d, o) ==
    /\ \A u \in DOMAIN b.users :
        /\ o = <<"user", u>> => d.users[u] = b.users[u]
        /\ o = <<"accounts", u>> => AccountsOf(d, u) = AccountsOf(b, u)
    /\ \A a \in DOMAIN b.accounts :
        /\ o = <<"account", a>> => d.accounts[a] = b.accounts[a]
        /\ o = <<"shares", a>> => /\ SharesOn(d, a) = SharesOn(b, a)
                                  /\ \A s \in SharesOn(b, a) : d.shares[s] = b.shares[s]
        /\ o = <<"bills", a>> => ReposOf(d, a) = ReposOf(b, a)
    /\ \A t \in DOMAIN b.tokens : o = <<"token", t>> => d.tokens[t] = b.tokens[t]

SameEmails(b, d, o) == \A e \in Emails : o = <<"email", e>> => WithEmail(d, e) = WithEmail(b, e)

LEMMA SameTransitive ==
    ASSUME NEW b, NEW d, NEW e, NEW o, Older(b, d), Same(b, d, o), Same(d, e, o)
    PROVE  Same(b, e, o)
<1>1. /\ DOMAIN b.users \subseteq DOMAIN d.users
      /\ DOMAIN b.accounts \subseteq DOMAIN d.accounts
      /\ DOMAIN b.tokens \subseteq DOMAIN d.tokens
  BY DEF Older
<1>2. \A u \in DOMAIN b.users :
        /\ o = <<"user", u>> => e.users[u] = b.users[u]
        /\ o = <<"accounts", u>> => AccountsOf(e, u) = AccountsOf(b, u)
  BY <1>1 DEF Same
<1>3. \A a \in DOMAIN b.accounts :
        /\ o = <<"account", a>> => e.accounts[a] = b.accounts[a]
        /\ o = <<"shares", a>> => /\ SharesOn(e, a) = SharesOn(b, a)
                                  /\ \A s \in SharesOn(b, a) : e.shares[s] = b.shares[s]
        /\ o = <<"bills", a>> => ReposOf(e, a) = ReposOf(b, a)
  BY <1>1 DEF Same
<1>4. \A t \in DOMAIN b.tokens : o = <<"token", t>> => e.tokens[t] = b.tokens[t]
  BY <1>1 DEF Same
<1> QED BY <1>2, <1>3, <1>4 DEF Same

LEMMA SameReflexive ==
    ASSUME NEW b, NEW o PROVE Same(b, b, o) /\ SameEmails(b, b, o)
BY DEF Same, SameEmails

\* A request leaves alone what it does not rely on.
LEMMA MovesSame ==
    ASSUME NEW b, NEW d, NEW e, NEW r, Situation(b, d, r), Moves(b, d, e, r),
           NEW rel, Relies(b, r, rel), NEW o, o \notin rel
    PROVE  Same(d, e, o)
<1>1. Older(b, d) /\ Older(d, e) /\ Valid(b, r)
  BY MovesOlder DEF Situation
<1>2. ASSUME NEW u \in DOMAIN d.users, o = <<"user", u>> PROVE e.users[u] = d.users[u]
  BY <1>2 DEF Moves, UsersMove, Relies
<1>3. ASSUME NEW u \in DOMAIN d.users, o = <<"accounts", u>> PROVE AccountsOf(e, u) = AccountsOf(d, u)
  <2>1. ASSUME NEW a \in Live(e.accounts), e.accounts[a].owner = u PROVE a \in AccountsOf(d, u)
    <3>1. CASE a \in DOMAIN d.accounts
      BY <1>1, <2>1, <3>1 DEF Older, AccountsOf
    <3>2. CASE a \notin DOMAIN d.accounts
      <4>1. AccountAdded(b, d, e, r, a)
        BY <3>2 DEF Moves, AccountsMove, Live
      <4> QED BY <1>3, <2>1, <4>1 DEF AccountAdded, Relies
    <3> QED BY <3>1, <3>2
  <2>2. ASSUME NEW a \in Live(d.accounts), d.accounts[a].owner = u PROVE a \in AccountsOf(e, u)
    <3>1. a \in DOMAIN d.accounts /\ a \in DOMAIN e.accounts
      BY <1>1 DEF Older, Live
    <3>2. CASE e.accounts[a] = Gone
      <4>1. r.kind = "delete" /\ a = r.account /\ Owns(b, r.user, a)
        BY <3>1, <3>2 DEF Moves, AccountsMove, AccountWritten, Live
      <4>2. a \in Live(b.accounts) /\ b.accounts[a].owner = r.user
        BY <4>1 DEF Owns, AccountsOf
      <4>3. d.accounts[a].owner = r.user
        BY <1>1, <4>2 DEF Older, Live
      <4> QED BY <1>3, <2>2, <4>1, <4>3 DEF Relies
    <3>3. CASE e.accounts[a] # Gone
      BY <1>1, <2>2, <3>1, <3>3 DEF Older, AccountsOf, Live
    <3> QED BY <3>2, <3>3
  <2> QED BY <2>1, <2>2 DEF AccountsOf
<1>4. ASSUME NEW a \in DOMAIN d.accounts, o = <<"account", a>> PROVE e.accounts[a] = d.accounts[a]
  BY <1>4 DEF Moves, AccountsMove, AccountWritten, Touches, Relies
<1>5. ASSUME NEW a \in DOMAIN d.accounts, o = <<"shares", a>>
      PROVE  /\ SharesOn(e, a) = SharesOn(d, a)
             /\ \A s \in SharesOn(d, a) : e.shares[s] = d.shares[s]
  <2>1. ASSUME NEW s \in SharesOn(d, a) PROVE e.shares[s] = d.shares[s]
    <3>1. s \in Live(d.shares) /\ s \in DOMAIN d.shares /\ d.shares[s].account = a
      BY DEF SharesOn, Live
    <3>2. CASE r.kind \in {"level", "unshare"} /\ s = r.share
      <4>1. s \in DOMAIN b.shares
        BY <1>1, <3>2 DEF Valid, Live
      <4>2. b.shares[s].account = a
        BY <1>1, <3>1, <4>1 DEF Older
      <4> QED BY <1>5, <3>2, <4>2 DEF Relies
    <3> QED BY <1>5, <3>1, <3>2 DEF Moves, SharesMove, Relies
  <2>2. ASSUME NEW s \in SharesOn(e, a) PROVE s \in SharesOn(d, a)
    <3>1. s \in Live(e.shares) /\ s \in DOMAIN e.shares /\ e.shares[s].account = a
      BY DEF SharesOn, Live
    <3>2. CASE s \in DOMAIN d.shares
      BY <1>1, <3>1, <3>2 DEF Older, SharesOn
    <3>3. CASE s \notin DOMAIN d.shares
      BY <1>5, <3>1, <3>3 DEF Moves, SharesMove, Relies
    <3> QED BY <3>2, <3>3
  <2>3. \A s \in SharesOn(d, a) : s \in SharesOn(e, a)
    BY <1>1, <2>1 DEF SharesOn, Live, Older
  <2> QED BY <2>1, <2>2, <2>3
<1>6. ASSUME NEW a \in DOMAIN d.accounts, o = <<"bills", a>> PROVE ReposOf(e, a) = ReposOf(d, a)
  <2>1. ASSUME NEW p \in ReposOf(d, a) PROVE p \in ReposOf(e, a)
    <3>1. p \in Live(d.repos) /\ p \in DOMAIN d.repos /\ p \in DOMAIN e.repos /\ d.repos[p].account = a
      BY <1>1 DEF ReposOf, Live, Older
    <3>2. e.repos[p] = d.repos[p]
      BY <1>6, <3>1 DEF Moves, ReposMove, Relies
    <3> QED BY <3>1, <3>2 DEF ReposOf, Live
  <2>2. ASSUME NEW p \in ReposOf(e, a) PROVE p \in ReposOf(d, a)
    <3>1. p \in Live(e.repos) /\ p \in DOMAIN e.repos /\ e.repos[p].account = a
      BY DEF ReposOf, Live
    <3>2. CASE p \in DOMAIN d.repos
      BY <1>1, <3>1, <3>2 DEF Older, ReposOf
    <3>3. CASE p \notin DOMAIN d.repos
      BY <1>6, <3>1, <3>3 DEF Moves, ReposMove, Relies
    <3> QED BY <3>2, <3>3
  <2> QED BY <2>1, <2>2
<1>7. ASSUME NEW t \in DOMAIN d.tokens, o = <<"token", t>> PROVE e.tokens[t] = d.tokens[t]
  BY <1>7 DEF Moves, TokensMove, Relies
<1> QED BY <1>2, <1>3, <1>4, <1>5, <1>6, <1>7 DEF Same

LEMMA MovesSameEmails ==
    ASSUME NEW b, NEW d, NEW e, NEW r, Situation(b, d, r), Moves(b, d, e, r),
           NEW rel, Relies(b, r, rel), NEW o, o \notin rel,
           r.kind \in UserKinds => d.users[r.user] = b.users[r.user]
    PROVE  SameEmails(d, e, o)
<1> SUFFICES ASSUME NEW m \in Emails, o = <<"email", m>>
             PROVE  WithEmail(e, m) = WithEmail(d, m)
  BY DEF SameEmails
<1>1. DOMAIN d.users \subseteq DOMAIN e.users
  BY DEF Moves, UsersMove
<1>2. ASSUME NEW u \in DOMAIN d.users PROVE (e.users[u].email = m) <=> (d.users[u].email = m)
  <2>1. CASE e.users[u] # d.users[u]
    <3>1. /\ r.kind \in UserKinds /\ u = r.user /\ d.users[u].email = b.users[u].email
          /\ \/ e.users[u].email = b.users[u].email
             \/ r.kind = "profile" /\ e.users[u].email = r.email
      BY <2>1 DEF Moves, UsersMove
    <3> QED BY <3>1 DEF Relies
  <2> QED BY <2>1
<1>3. ASSUME NEW u \in DOMAIN e.users \ DOMAIN d.users PROVE e.users[u].email # m
  BY <1>3 DEF Moves, UsersMove, Relies
<1> QED BY <1>1, <1>2, <1>3 DEF WithEmail

-----------------------------------------------------------------------------
(* Requests that are being served: Q is req, d is db and R is raced *)

\* The requests that take more than one step.
Served == Requests \ {"user", "viewer", "forgotten"}

Serving(q, d, R) ==
    /\ q = [r |-> q.r, b |-> q.b, phase |-> q.phase, relies |-> q.relies]
    /\ Situation(q.b, d, q.r)
    /\ q.r.kind \in Served
    /\ q.phase \in {"read", "uncommitted"}
    /\ q.phase = "uncommitted" => q.r.kind = "delete"
    /\ Relies(q.b, q.r, q.relies)
    /\ \A o \in q.relies \ R : Same(q.b, d, o)
    /\ R = {} => \A o \in q.relies : SameEmails(q.b, d, o)

Working(Q, d, R) ==
    /\ Q = [w \in Workers |-> Q[w]]
    /\ \A w \in Workers : Q[w] # Idle => Serving(Q[w], d, R)
    /\ \A w, x \in Workers : w # x /\ Q[w] # Idle /\ Q[x] # Idle => Q[w].relies \cap Q[x].relies \subseteq R

\* More may race.
LEMMA ServingRaced ==
    ASSUME NEW q, NEW d, NEW R, NEW R2, R \subseteq R2, Serving(q, d, R)
    PROVE  Serving(q, d, R2)
<1>1. \A o \in q.relies \ R2 : Same(q.b, d, o)
  BY DEF Serving
<1>2. R2 = {} => R = {}
  OBVIOUS
<1> QED BY <1>1, <1>2 DEF Serving

\* A request begins.
LEMMA Begun ==
    ASSUME NEW Q, NEW d, NEW R, Working(Q, d, R), d \in Tables, Linked(d), NEW w \in Workers,
           NEW r, Valid(d, r), r.kind \in Served, NEW rel, Relies(d, r, rel),
           NEW R2, R \subseteq R2,
           \A x \in Workers : x # w /\ Q[x] # Idle => rel \cap Q[x].relies \subseteq R2
    PROVE  Working([Q EXCEPT ![w] = [r |-> r, b |-> d, phase |-> "read", relies |-> rel]], d, R2)
<1> DEFINE q == [r |-> r, b |-> d, phase |-> "read", relies |-> rel]
           P == [Q EXCEPT ![w] = q]
<1>1. q.r = r /\ q.b = d /\ q.phase = "read" /\ q.relies = rel
      /\ q = [r |-> q.r, b |-> q.b, phase |-> q.phase, relies |-> q.relies]
  OBVIOUS
<1> HIDE DEF q
<1>2. Serving(q, d, R2)
  BY <1>1, OlderReflexive, SameReflexive DEF Serving, Situation
<1>3. /\ P = [x \in Workers |-> P[x]] /\ P[w] = q
      /\ \A x \in Workers \ {w} : P[x] = Q[x]
  BY DEF Working
<1> HIDE DEF P
<1>4. \A x \in Workers : P[x] # Idle => Serving(P[x], d, R2)
  <2> TAKE x \in Workers
  <2>1. CASE x = w
    BY <1>2, <1>3, <2>1
  <2>2. CASE x # w
    BY <1>3, <2>2, ServingRaced DEF Working
  <2> QED BY <2>1, <2>2
<1>5. \A x, y \in Workers : x # y /\ P[x] # Idle /\ P[y] # Idle => P[x].relies \cap P[y].relies \subseteq R2
  <2> TAKE x, y \in Workers
  <2>1. CASE x = w
    BY <1>1, <1>3, <2>1
  <2>2. CASE y = w
    BY <1>1, <1>3, <2>2
  <2>3. CASE x # w /\ y # w
    BY <1>3, <2>3 DEF Working
  <2> QED BY <2>1, <2>2, <2>3
<1>6. Working(P, d, R2)
  BY <1>3, <1>4, <1>5 DEF Working
<1> QED BY <1>6 DEF P, q

\* A request ends.
LEMMA Ended ==
    ASSUME NEW Q, NEW d, NEW R, Working(Q, d, R), NEW w \in Workers
    PROVE  Working([Q EXCEPT ![w] = Idle], d, R)
<1> DEFINE P == [Q EXCEPT ![w] = Idle]
<1>1. /\ P = [x \in Workers |-> P[x]] /\ P[w] = Idle
      /\ \A x \in Workers \ {w} : P[x] = Q[x]
  BY DEF Working
<1> HIDE DEF P
<1>2. Working(P, d, R)
  BY <1>1 DEF Working
<1> QED BY <1>2 DEF P

\* The database changes under the requests that are being served.
LEMMA Written ==
    ASSUME NEW Q, NEW d, NEW R, Working(Q, d, R),
           NEW b, NEW e, NEW r, Situation(b, d, r), Moves(b, d, e, r),
           NEW rel, Relies(b, r, rel), NEW R2, R \subseteq R2,
           \A x \in Workers : Q[x] # Idle => rel \cap Q[x].relies \subseteq R2,
           R2 = {} /\ r.kind \in UserKinds => d.users[r.user] = b.users[r.user]
    PROVE  Working(Q, e, R2)
<1>1. Older(d, e) /\ Linked(e) /\ e \in Tables
  BY MovesOlder, MovesLinked DEF Moves
<1>2. ASSUME NEW x \in Workers, Q[x] # Idle PROVE Serving(Q[x], e, R2)
  <2> DEFINE q == Q[x]
  <2>1. Serving(q, d, R)
    BY <1>2 DEF Working
  <2>2. rel \cap q.relies \subseteq R2
    BY <1>2
  <2> HIDE DEF q
  <2>3. Situation(q.b, e, q.r)
    <3>1. Situation(q.b, d, q.r)
      BY <2>1 DEF Serving
    <3> QED BY <1>1, <3>1, OlderTransitive DEF Situation
  <2>4. ASSUME NEW o \in q.relies \ R2 PROVE Same(q.b, e, o)
    <3>1. Same(q.b, d, o) /\ Older(q.b, d)
      BY <2>1, <2>4 DEF Serving, Situation
    <3>2. o \notin rel
      BY <2>2, <2>4
    <3>3. Same(d, e, o)
      BY <3>2, MovesSame
    <3> QED BY <3>1, <3>3, SameTransitive
  <2>5. ASSUME R2 = {}, NEW o \in q.relies PROVE SameEmails(q.b, e, o)
    <3>1. SameEmails(q.b, d, o)
      BY <2>1, <2>5 DEF Serving
    <3>2. o \notin rel
      BY <2>2, <2>5
    <3>3. SameEmails(d, e, o)
      BY <2>5, <3>2, MovesSameEmails
    <3> QED BY <3>1, <3>3 DEF SameEmails
  <2>6. Serving(q, e, R2)
    BY <2>1, <2>3, <2>4, <2>5 DEF Serving
  <2> QED BY <2>6 DEF q
<1>3. \A w, x \in Workers : w # x /\ Q[w] # Idle /\ Q[x] # Idle => Q[w].relies \cap Q[x].relies \subseteq R2
  BY DEF Working
<1>4. Q = [w \in Workers |-> Q[w]]
  BY DEF Working
<1> QED BY <1>2, <1>3, <1>4 DEF Working

-----------------------------------------------------------------------------
(* The steps *)

Core ==
    /\ db \in Tables /\ Linked(db)
    /\ given \in 0 .. MaxExternals
    /\ Working(req, db, raced)

\* A request that is served begins; raced has what it shares with the others.
Begins(w, r) ==
    /\ req[w] = Idle
    /\ Valid(db, r) /\ r.kind \in Served \ {"put"}
    /\ Relies(db, r, Relied(r))
    /\ req' = [req EXCEPT ![w] = [r |-> r, b |-> db, phase |-> "read", relies |-> Relied(r)]]
    /\ raced' = raced \cup Races(r)
    /\ IF r.kind = "next" THEN r.fresh = given + 1 /\ given' = given + 1 ELSE given' = given
    /\ UNCHANGED <<db, expired, docs, cleans, meant, failed, resets, puts, imported>>

LEMMA BeginsNext ==
    ASSUME Core, NEW w \in Workers, BeginNext(w)
    PROVE  \E r : Begins(w, r)
<1>1. PICK u \in DOMAIN db.users :
        /\ NotViewer(u) /\ given < MaxExternals /\ given' = given + 1
        /\ Begin(w, [kind |-> "next", user |-> u, fresh |-> given + 1])
  BY DEF BeginNext
<1> DEFINE r == [kind |-> "next", user |-> u, fresh |-> given + 1]
<1>2. r.kind = "next" /\ r.user = u /\ r.fresh = given + 1
  OBVIOUS
<1>3. given + 1 \in External
  BY <1>1, AccountsAssumption DEF Core, External
<1> HIDE DEF r
<1>4. Valid(db, r)
  BY <1>2, <1>3 DEF Valid, UserKinds, ShareKinds, Requests
<1>5. Relies(db, r, Relied(r))
  BY <1>2 DEF Relies, Relied, UserKinds
<1>6. r.kind \in Served \ {"put"}
  BY <1>2 DEF Served, Requests
<1>7. Begins(w, r)
  BY <1>1, <1>2, <1>4, <1>5, <1>6 DEF Begins, Begin, Receive, r
<1> QED BY <1>7

LEMMA BeginsAccountRequest ==
    ASSUME Core, NEW w \in Workers, BeginAccountRequest(w)
    PROVE  \E r : Begins(w, r)
<1>1. PICK u \in DOMAIN db.users : /\ NotViewer(u)
        /\ \/ \E e \in 1 .. given, i \in Identities :
                Begin(w, [kind |-> "post", user |-> u, external |-> e, role |-> i, pretty |-> SomeName])
           \/ \E a \in Live(db.accounts) :
                \/ \E n \in Names : Begin(w, [kind |-> "patch", user |-> u, account |-> a, pretty |-> n])
                \/ \E e \in 1 .. given, i \in Identities : Begin(w,
                    [kind |-> "subaccount", user |-> u, account |-> a, external |-> e, role |-> i])
                \/ Owns(db, u, a) /\ Begin(w, [kind |-> "delete", user |-> u, account |-> a])
  BY DEF BeginAccountRequest
<1>2. UNCHANGED given
  BY DEF BeginAccountRequest
<1>3. 1 .. given \subseteq External
  BY AccountsAssumption DEF Core, External
<1>4. ASSUME NEW e \in 1 .. given, NEW i \in Identities,
             NEW r, r = [kind |-> "post", user |-> u, external |-> e, role |-> i, pretty |-> SomeName],
             Begin(w, r)
      PROVE  Begins(w, r)
  <2>1. r.kind = "post" /\ r.user = u /\ r.external = e /\ r.role = i /\ r.pretty = SomeName
    BY <1>4
  <2>2. Valid(db, r)
    BY <1>3, <2>1, AccountsAssumption DEF Valid, UserKinds, ShareKinds, Requests, SomeName
  <2>3. Relies(db, r, Relied(r))
    BY <2>1 DEF Relies, Relied, UserKinds
  <2> QED BY <1>2, <1>4, <2>1, <2>2, <2>3 DEF Begins, Begin, Receive, Served, Requests
<1>5. ASSUME NEW a \in Live(db.accounts), NEW n \in Names,
             NEW r, r = [kind |-> "patch", user |-> u, account |-> a, pretty |-> n], Begin(w, r)
      PROVE  Begins(w, r)
  <2>1. r.kind = "patch" /\ r.user = u /\ r.account = a /\ r.pretty = n
    BY <1>5
  <2>2. Valid(db, r)
    BY <2>1 DEF Valid, UserKinds, ShareKinds, Requests
  <2>3. Relies(db, r, Relied(r))
    BY <2>1 DEF Relies, Relied, UserKinds
  <2> QED BY <1>2, <1>5, <2>1, <2>2, <2>3 DEF Begins, Begin, Receive, Served, Requests
<1>6. ASSUME NEW a \in Live(db.accounts), NEW e \in 1 .. given, NEW i \in Identities,
             NEW r, r = [kind |-> "subaccount", user |-> u, account |-> a, external |-> e, role |-> i],
             Begin(w, r)
      PROVE  Begins(w, r)
  <2>1. r.kind = "subaccount" /\ r.user = u /\ r.account = a /\ r.external = e /\ r.role = i
    BY <1>6
  <2>2. Valid(db, r)
    BY <1>3, <2>1 DEF Valid, UserKinds, ShareKinds, Requests
  <2>3. Relies(db, r, Relied(r))
    BY <2>1 DEF Relies, Relied, UserKinds
  <2> QED BY <1>2, <1>6, <2>1, <2>2, <2>3 DEF Begins, Begin, Receive, Served, Requests
<1>7. ASSUME NEW a \in Live(db.accounts), Owns(db, u, a),
             NEW r, r = [kind |-> "delete", user |-> u, account |-> a], Begin(w, r)
      PROVE  Begins(w, r)
  <2>1. r.kind = "delete" /\ r.user = u /\ r.account = a
    BY <1>7
  <2>2. Valid(db, r)
    BY <1>7, <2>1 DEF Valid, UserKinds, ShareKinds, Requests
  <2>3. Relies(db, r, Relied(r))
    BY <2>1 DEF Relies, Relied, UserKinds
  <2> QED BY <1>2, <1>7, <2>1, <2>2, <2>3 DEF Begins, Begin, Receive, Served, Requests
<1> QED BY <1>1, <1>4, <1>5, <1>6, <1>7

LEMMA BeginsTask ==
    ASSUME Core, NEW w \in Workers, BeginTask(w)
    PROVE  \E r : Begins(w, r)
<1>1. UNCHANGED given
  BY DEF BeginTask
<1>2. ASSUME NEW p \in Live(db.repos), NEW r,
             r = [kind |-> "ingest", account |-> db.repos[p].account, repo |-> p,
                  row |-> db.accounts[db.repos[p].account], user |-> 0],
             Begin(w, r)
      PROVE  Begins(w, r)
  <2> DEFINE a == db.repos[p].account
  <2>1. /\ r.kind = "ingest" /\ r.account = a /\ r.repo = p /\ r.row = db.accounts[a]
        /\ r = [kind |-> r.kind, account |-> r.account, repo |-> r.repo, row |-> r.row, user |-> r.user]
    BY <1>2
  <2>2. a \in Live(db.accounts) /\ p \in DOMAIN db.repos
    BY DEF Core, Linked, Live
  <2>3. db.accounts[a] \in Account /\ a \in DOMAIN db.accounts
    BY <2>2, TableTypes, LiveRows DEF Core
  <2>4. db.accounts[a].owner \in DOMAIN db.users
    BY <2>2 DEF Core, Linked
  <2> HIDE DEF a
  <2>5. Valid(db, r)
    BY <2>1, <2>2, <2>3, <2>4 DEF Valid, UserKinds, ShareKinds, Requests, a
  <2>6. Relies(db, r, Relied(r))
    BY <2>1 DEF Relies, Relied, UserKinds
  <2> QED BY <1>1, <1>2, <2>1, <2>5, <2>6 DEF Begins, Begin, Receive, Served, Requests
<1>3. ASSUME NEW r, r = [kind |-> "identity", user |-> 0], Begin(w, r)
      PROVE  Begins(w, r)
  <2>1. r.kind = "identity"
    BY <1>3
  <2>2. Valid(db, r)
    BY <2>1 DEF Valid, UserKinds, ShareKinds, Requests
  <2>3. Relies(db, r, Relied(r))
    BY <2>1 DEF Relies, Relied, UserKinds
  <2> QED BY <1>1, <1>3, <2>1, <2>2, <2>3 DEF Begins, Begin, Receive, Served, Requests
<1> QED BY <1>2, <1>3 DEF BeginTask

LEMMA BeginsUserRequest ==
    ASSUME Core, NEW w \in Workers, BeginUserRequest(w)
    PROVE  \E r : Begins(w, r)
<1>1. UNCHANGED given
  BY DEF BeginUserRequest
<1>2. ASSUME NEW u \in DOMAIN db.users, NEW e \in Emails, NEW p \in Passwords,
             NEW r, r = [kind |-> "profile", user |-> u, email |-> e, password |-> p], Begin(w, r)
      PROVE  Begins(w, r)
  <2>1. r.kind = "profile" /\ r.user = u /\ r.email = e /\ r.password = p
    BY <1>2
  <2>2. Valid(db, r)
    BY <2>1 DEF Valid, UserKinds, ShareKinds, Requests
  <2>3. Relies(db, r, Relied(r))
    BY <2>1 DEF Relies, Relied, UserKinds
  <2> QED BY <1>1, <1>2, <2>1, <2>2, <2>3 DEF Begins, Begin, Receive, Served, Requests
<1>3. ASSUME NEW u \in DOMAIN db.users, NEW e \in BOOLEAN,
             NEW r, r = [kind |-> "entitlement", user |-> u, entitled |-> e], Begin(w, r)
      PROVE  Begins(w, r)
  <2>1. r.kind = "entitlement" /\ r.user = u /\ r.entitled = e
    BY <1>3
  <2>2. Valid(db, r)
    BY <2>1 DEF Valid, UserKinds, ShareKinds, Requests
  <2>3. Relies(db, r, Relied(r))
    BY <2>1 DEF Relies, Relied, UserKinds
  <2> QED BY <1>1, <1>3, <2>1, <2>2, <2>3 DEF Begins, Begin, Receive, Served, Requests
<1>4. ASSUME NEW t \in Live(db.tokens), NEW p \in Passwords,
             NEW r, r = [kind |-> "reset", user |-> db.tokens[t].user, token |-> t, password |-> p],
             Begin(w, r)
      PROVE  Begins(w, r)
  <2>1. r.kind = "reset" /\ r.user = db.tokens[t].user /\ r.token = t /\ r.password = p
    BY <1>4
  <2>2. r.user \in DOMAIN db.users
    BY <2>1 DEF Core, Linked
  <2>3. Valid(db, r)
    BY <2>1, <2>2 DEF Valid, UserKinds, ShareKinds, Requests
  <2>4. Relies(db, r, Relied(r))
    BY <2>1 DEF Relies, Relied, UserKinds
  <2> QED BY <1>1, <1>4, <2>1, <2>3, <2>4 DEF Begins, Begin, Receive, Served, Requests
<1> QED BY <1>2, <1>3, <1>4 DEF BeginUserRequest

LEMMA BeginsShareRequest ==
    ASSUME Core, NEW w \in Workers, BeginShareRequest(w)
    PROVE  \E r : Begins(w, r)
<1>1. UNCHANGED given
  BY DEF BeginShareRequest
<1>2. PICK u \in {ActsAs(x) : x \in {y \in DOMAIN db.users : Entitled(y)}} :
        \/ \E a \in Live(db.accounts), e \in Emails, l \in Level :
            Begin(w, [kind |-> "invite", user |-> u, account |-> a, email |-> e, level |-> l])
        \/ \E s \in Live(db.shares) :
            \/ \E l \in Level : Begin(w, [kind |-> "level", user |-> u, share |-> s, level |-> l])
            \/ Begin(w, [kind |-> "unshare", user |-> u, share |-> s])
  BY DEF BeginShareRequest
<1>3. u \in DOMAIN db.users
  <2>1. PICK x \in DOMAIN db.users : u = ActsAs(x)
    OBVIOUS
  <2>2. db.users[x].parent \in DOMAIN db.users \cup {None}
    BY DEF Core, Linked
  <2> QED BY <2>1, <2>2 DEF ActsAs
<1>4. ASSUME NEW a \in Live(db.accounts), NEW e \in Emails, NEW l \in Level, NEW r,
             r = [kind |-> "invite", user |-> u, account |-> a, email |-> e, level |-> l], Begin(w, r)
      PROVE  Begins(w, r)
  <2>1. r.kind = "invite" /\ r.user = u /\ r.account = a /\ r.email = e /\ r.level = l
    BY <1>4
  <2>2. Valid(db, r)
    BY <1>3, <2>1 DEF Valid, UserKinds, ShareKinds, Requests
  <2>3. Relies(db, r, Relied(r))
    BY <2>1 DEF Relies, Relied, UserKinds
  <2> QED BY <1>1, <1>4, <2>1, <2>2, <2>3 DEF Begins, Begin, Receive, Served, Requests
<1>5. ASSUME NEW s \in Live(db.shares), NEW l \in Level, NEW r,
             r = [kind |-> "level", user |-> u, share |-> s, level |-> l], Begin(w, r)
      PROVE  Begins(w, r)
  <2>1. r.kind = "level" /\ r.user = u /\ r.share = s /\ r.level = l
    BY <1>5
  <2>2. Valid(db, r)
    BY <1>3, <2>1 DEF Valid, UserKinds, ShareKinds, Requests
  <2>3. Relies(db, r, Relied(r))
    BY <2>1 DEF Relies, Relied, UserKinds
  <2> QED BY <1>1, <1>5, <2>1, <2>2, <2>3 DEF Begins, Begin, Receive, Served, Requests
<1>6. ASSUME NEW s \in Live(db.shares), NEW r,
             r = [kind |-> "unshare", user |-> u, share |-> s], Begin(w, r)
      PROVE  Begins(w, r)
  <2>1. r.kind = "unshare" /\ r.user = u /\ r.share = s
    BY <1>6
  <2>2. Valid(db, r)
    BY <1>3, <2>1 DEF Valid, UserKinds, ShareKinds, Requests
  <2>3. Relies(db, r, Relied(r))
    BY <2>1 DEF Relies, Relied, UserKinds
  <2> QED BY <1>1, <1>6, <2>1, <2>2, <2>3 DEF Begins, Begin, Receive, Served, Requests
<1> QED BY <1>2, <1>4, <1>5, <1>6

\* A worker writes, or not, and has done.
Answers(w) ==
    /\ req[w] # Idle
    /\ Moves(req[w].b, db, db', req[w].r)
    /\ req[w].r.kind = "post" => \A a, c \in DOMAIN db'.accounts \ DOMAIN db.accounts : a = c
    /\ req' = [req EXCEPT ![w] = Idle]
    /\ UNCHANGED <<given, raced>>

\* A request of one step.
AtOnce(r, rel) ==
    /\ r.kind \in {"user", "viewer", "forgotten", "repository", "clean"}
    /\ Valid(db, r)
    /\ Moves(db, db, db', r)
    /\ Relies(db, r, rel)
    /\ raced' = raced \cup (rel \cap UNION {req[w].relies : w \in Busy})
    /\ UNCHANGED <<req, given>>

\* An ingestion goes on with the sub accounts.
Switches(w) ==
    /\ req[w] # Idle /\ req[w].r.kind = "ingest"
    /\ \E r :
        /\ r = [kind |-> "put", account |-> req[w].r.account, repo |-> req[w].r.repo,
                row |-> req[w].r.row, user |-> req[w].r.user]
        /\ Valid(db, r) /\ Relies(db, r, Relied(r))
        /\ req' = [req EXCEPT ![w] = [r |-> r, b |-> db, phase |-> "read", relies |-> Relied(r)]]
        /\ raced' = raced \cup (Relied(r) \cap UNION {req[x].relies : x \in Busy \ {w}})
    /\ UNCHANGED <<db, given>>

\* POST /aws adds one account.
LEMMA PostAddsOne ==
    ASSUME NEW b, NEW d, NEW r, Situation(b, d, r), r.kind = "post"
    PROVE  \A a, c \in DOMAIN PostAwsAccount(b, d, r).accounts \ DOMAIN d.accounts : a = c
<1> DEFINE row == [owner |-> r.user, pretty |-> r.pretty, role |-> r.role,
                   external |-> r.external, identity |-> r.role, parent |-> None]
           x == [d EXCEPT !.accounts = Append(@, row)]
           e == PostAwsAccount(b, d, r)
<1>1. d \in Tables /\ d.accounts \in Seq(Account \cup {Gone})
  BY TableTypes DEF Situation, Table
<1>2. x.accounts = Append(d.accounts, row) /\ "accounts" \in DOMAIN x
  BY <1>1 DEF Tables
<1>3. DOMAIN x.accounts = DOMAIN d.accounts \cup {Len(d.accounts) + 1}
  BY <1>1, <1>2
<1>4. e = d \/ e = WriteUser(x, r.user, [b.users[r.user] EXCEPT !.external = None])
  BY DEF PostAwsAccount, SpendExternal
<1> HIDE DEF x, e
<1>5. e = d \/ e.accounts = x.accounts
  BY <1>2, <1>4 DEF WriteUser
<1>6. \A a, c \in DOMAIN e.accounts \ DOMAIN d.accounts : a = c
  BY <1>3, <1>5
<1> QED BY <1>6 DEF e

LEMMA BusyServes ==
    ASSUME Core, NEW w \in Busy
    PROVE  /\ Serving(req[w], db, raced) /\ req[w] # Idle /\ w \in Workers
           /\ Situation(req[w].b, db, req[w].r) /\ req[w].r.kind \in Served
BY DEF Core, Busy, Working, Serving

LEMMA CommitAnswers ==
    ASSUME Core, NEW w \in Workers, Commit(w) \/ CommitDelete(w)
    PROVE  Answers(w)
<1>1. w \in Busy /\ db' = Handled(req[w].b, db, req[w].r) /\ req' = [req EXCEPT ![w] = Idle]
  BY DEF Commit, CommitDelete, Finish
<1>2. Situation(req[w].b, db, req[w].r) /\ req[w] # Idle
  BY <1>1, BusyServes
<1>3. req[w].r.kind \in Requests \ {"ingest"}
  BY <1>1, BusyServes DEF Serving, Served, Requests, Commit, CommitDelete
<1>4. Moves(req[w].b, db, db', req[w].r)
  BY <1>1, <1>2, <1>3, HandledMoves
<1>5. req[w].r.kind = "post" => \A a, c \in DOMAIN db'.accounts \ DOMAIN db.accounts : a = c
  BY <1>1, <1>2, PostAddsOne DEF Handled
<1>6. UNCHANGED <<given, raced>>
  BY DEF Commit, CommitDelete
<1> QED BY <1>1, <1>2, <1>4, <1>5, <1>6 DEF Answers

LEMMA FailureAnswers ==
    ASSUME Core, NEW w \in Workers, Rollback(w) \/ CommitFails(w)
    PROVE  Answers(w)
<1>1. w \in Busy /\ db' = db /\ req' = [req EXCEPT ![w] = Idle]
  BY DEF Rollback, CommitFails, Finish
<1>2. Moves(req[w].b, db, db', req[w].r)
  BY <1>1, NothingMoves DEF Core
<1>3. UNCHANGED <<given, raced>>
  BY DEF Rollback, CommitFails, history
<1> QED BY <1>1, <1>2, <1>3, BusyServes DEF Answers

LEMMA UpdateFailsAnswers ==
    ASSUME Core, NEW w \in Workers, UpdateFails(w)
    PROVE  Answers(w)
<1> DEFINE b == req[w].b
           r == req[w].r
<1>1. w \in Busy /\ req' = [req EXCEPT ![w] = Idle] /\ UNCHANGED <<given, raced>>
  BY DEF UpdateFails, Finish
<1>2. Situation(b, db, r) /\ req[w] # Idle /\ db \in Tables
  BY <1>1, BusyServes DEF Core
<1>3. \/ r.kind = "patch" /\ db' = db
      \/ r.kind = "subaccount" /\ MaySetRole(b, r) /\ db' = SpendExternal(b, db, r, db)
      \/ r.kind = "reset" /\ db' = [ResetPassword(b, db, r) EXCEPT !.tokens = db.tokens]
  BY DEF UpdateFails
<1> HIDE DEF b, r
<1>4. Moves(b, db, db', r)
  <2>1. CASE db' = db
    BY <1>2, <2>1, NothingMoves
  <2>2. CASE r.kind = "subaccount" /\ MaySetRole(b, r) /\ db' # db /\ db' = SpendExternal(b, db, r, db)
    <3> DEFINE e == WriteUser(db, r.user, [b.users[r.user] EXCEPT !.external = None])
    <3>1. db' = e
      BY <2>2 DEF SpendExternal
    <3>2. b.users[r.user].external = r.external
      BY <2>2 DEF MaySetRole
    <3> HIDE DEF e
    <3>3. e = WriteUser(db, r.user, [b.users[r.user] EXCEPT !.external = None])
      BY DEF e
    <3>4. /\ e \in Tables /\ UsersMove(b, db, e, r)
          /\ e.accounts = db.accounts /\ e.shares = db.shares
          /\ e.tokens = db.tokens /\ e.repos = db.repos
      BY <1>2, <2>2, <3>2, <3>3, SpendMoves
    <3>5. Live(db.accounts) \subseteq Live(e.accounts)
      BY <3>4
    <3>6. AccountsMove(b, db, e, r) /\ SharesMove(db, e, r) /\ ReposMove(db, e, r) /\ TokensMove(db, e, r)
      BY <3>4, <3>5, KeptAccounts, KeptRest
    <3>7. Moves(b, db, e, r)
      BY <3>4, <3>6 DEF Moves
    <3> QED BY <3>1, <3>7
  <2>3. CASE r.kind = "reset" /\ db' = [ResetPassword(b, db, r) EXCEPT !.tokens = db.tokens]
    <3> DEFINE d == ResetPassword(b, db, r)
               e == [d EXCEPT !.tokens = db.tokens]
    <3>1. Moves(b, db, d, r)
      BY <1>2, <2>3, ResetPasswordMoves
    <3> HIDE DEF d
    <3>2. /\ e.users = d.users /\ e.accounts = d.accounts /\ e.shares = d.shares
          /\ e.tokens = db.tokens /\ e.repos = d.repos /\ e \in Tables
      BY <1>2, <3>1 DEF Moves, Tables
    <3> HIDE DEF e
    <3>3. Moves(b, db, e, r)
      <4>1. UsersMove(b, db, e, r)
        BY <3>1, <3>2 DEF Moves, UsersMove
      <4>2. AccountsMove(b, db, e, r)
        BY <2>3, <3>1, <3>2 DEF Moves, AccountsMove, AccountWritten, AccountAdded, Touches
      <4>3. SharesMove(db, e, r)
        BY <2>3, <3>1, <3>2 DEF Moves, SharesMove, Live
      <4>4. ReposMove(db, e, r)
        BY <2>3, <3>1, <3>2 DEF Moves, ReposMove, Live
      <4>5. TokensMove(db, e, r)
        BY <3>2 DEF TokensMove
      <4> QED BY <3>2, <4>1, <4>2, <4>3, <4>4, <4>5 DEF Moves
    <3> QED BY <2>3, <3>3 DEF d, e
  <2> QED BY <1>3, <2>1, <2>2, <2>3
<1>5. Moves(req[w].b, db, db', req[w].r)
  BY <1>4 DEF b, r
<1>6. req[w].r.kind # "post" /\ req[w] # Idle
  BY <1>2, <1>3 DEF r
<1> QED BY <1>1, <1>5, <1>6 DEF Answers

LEMMA IngestedSteps ==
    ASSUME Core, NEW w \in Workers, Ingested(w)
    PROVE  Answers(w) \/ Switches(w)
<1> DEFINE q == req[w]
           r == [q.r EXCEPT !.kind = "put"]
<1>1. w \in Busy /\ q.r.kind = "ingest" /\ UNCHANGED <<db, given>>
  BY DEF Ingested
<1>2. Situation(q.b, db, q.r) /\ q # Idle
  BY <1>1, BusyServes
<1>3. CASE q.r.row.role = None \/ IdentityOf(q.r.row) = None
  <2>1. req' = [req EXCEPT ![w] = Idle] /\ UNCHANGED raced
    BY <1>3 DEF Ingested, Finish
  <2>2. Moves(q.b, db, db', q.r)
    BY <1>1, NothingMoves DEF Core
  <2> QED BY <1>1, <1>2, <2>1, <2>2 DEF Answers
<1>4. CASE ~(q.r.row.role = None \/ IdentityOf(q.r.row) = None)
  <2>1. /\ req' = [req EXCEPT ![w] = [r |-> r, b |-> db, phase |-> "read", relies |-> Relied(r)]]
        /\ raced' = raced \cup (Relied(r) \cap UNION {req[x].relies : x \in Busy \ {w}})
    BY <1>4 DEF Ingested
  <2>2. r = [kind |-> "put", account |-> q.r.account, repo |-> q.r.repo, row |-> q.r.row, user |-> q.r.user]
    BY <1>1, <1>2 DEF Situation, Valid
  <2> HIDE DEF r
  <2>3. /\ r.kind = "put" /\ r.account = q.r.account /\ r.repo = q.r.repo /\ r.row = q.r.row
    BY <2>2
  <2>4. Valid(db, r)
    <3>1. /\ q.r.row \in Account /\ q.r.row.owner \in DOMAIN db.users
          /\ q.r.account \in DOMAIN db.accounts /\ q.r.repo \in DOMAIN db.repos
      BY <1>1, <1>2 DEF Situation, Valid, Older
    <3> QED BY <1>4, <2>3, <3>1 DEF Valid, UserKinds, ShareKinds, Requests
  <2>5. Relies(db, r, Relied(r))
    BY <2>3 DEF Relies, Relied, UserKinds
  <2>6. Switches(w)
    BY <1>1, <1>2, <2>1, <2>2, <2>4, <2>5 DEF Switches
  <2> QED BY <2>6
<1> QED BY <1>3, <1>4

LEMMA RegisterAtOnce ==
    ASSUME Core, Register
    PROVE  \E r, rel : AtOnce(r, rel) /\ r.kind \in {"user", "viewer", "forgotten"}
                          /\ OneStep(r) /\ rel = Relied(r)
<1>1. ASSUME NEW r, Valid(db, r), r.kind \in {"user", "viewer", "forgotten"}, Relies(db, r, Relied(r)),
             OneStep(r)
      PROVE  AtOnce(r, Relied(r))
  <2>1. Situation(db, db, r)
    BY <1>1, OlderReflexive DEF Situation, Core
  <2>2. r.kind \in Requests \ {"ingest"}
    BY <1>1 DEF Requests
  <2>3. Moves(db, db, db', r)
    BY <1>1, <2>1, <2>2, HandledMoves DEF OneStep
  <2> QED BY <1>1, <2>3 DEF AtOnce, OneStep, Receive, Races
<1>2. ASSUME NEW e \in Emails, NEW p \in Passwords,
             NEW r, r = [kind |-> "user", email |-> e, password |-> p, user |-> 0], OneStep(r)
      PROVE  AtOnce(r, Relied(r)) /\ r.kind = "user"
  <2>1. r.kind = "user" /\ r.email = e /\ r.password = p
    BY <1>2
  <2>2. Valid(db, r) /\ Relies(db, r, Relied(r))
    BY <2>1 DEF Valid, Relies, Relied, UserKinds, ShareKinds, Requests
  <2> QED BY <1>1, <1>2, <2>1, <2>2
<1>3. ASSUME NEW e \in Emails, NEW p \in Passwords, NEW u \in DOMAIN db.users,
             NEW r, r = [kind |-> "viewer", email |-> e, password |-> p, user |-> u], OneStep(r)
      PROVE  AtOnce(r, Relied(r)) /\ r.kind = "viewer"
  <2>1. r.kind = "viewer" /\ r.email = e /\ r.password = p /\ r.user = u
    BY <1>3
  <2>2. Valid(db, r) /\ Relies(db, r, Relied(r))
    BY <2>1 DEF Valid, Relies, Relied, UserKinds, ShareKinds, Requests
  <2> QED BY <1>1, <1>3, <2>1, <2>2
<1>4. ASSUME NEW e \in Emails,
             NEW r, r = [kind |-> "forgotten", email |-> e, user |-> 0], OneStep(r)
      PROVE  AtOnce(r, Relied(r)) /\ r.kind = "forgotten"
  <2>1. r.kind = "forgotten" /\ r.email = e
    BY <1>4
  <2>2. Valid(db, r) /\ Relies(db, r, Relied(r))
    BY <2>1 DEF Valid, Relies, Relied, UserKinds, ShareKinds, Requests
  <2> QED BY <1>1, <1>4, <2>1, <2>2
<1> QED BY <1>2, <1>3, <1>4 DEF Register

LEMMA PostBillRepositoryAtOnce ==
    ASSUME Core, PostBillRepository
    PROVE  \E r, rel : AtOnce(r, rel) /\ r.kind = "repository"
<1>1. PICK a \in Live(db.accounts) :
        /\ Receive([kind |-> "repository", account |-> a, user |-> 0])
        /\ db' = [db EXCEPT !.repos = Append(@, [account |-> a])]
        /\ UNCHANGED <<req, given>>
  BY DEF PostBillRepository
<1> DEFINE r == [kind |-> "repository", account |-> a, user |-> 0]
           e == [db EXCEPT !.repos = Append(@, [account |-> a])]
<1>2. r.kind = "repository" /\ r.account = a /\ Receive(r)
  BY <1>1
<1> HIDE DEF r
<1>3. Valid(db, r) /\ Relies(db, r, Relied(r))
  BY <1>2 DEF Valid, Relies, Relied, UserKinds, ShareKinds, Requests
<1>4. Moves(db, db, e, r)
  <2>1. /\ e.users = db.users /\ e.accounts = db.accounts /\ e.shares = db.shares /\ e.tokens = db.tokens
        /\ e.repos = Append(db.repos, [account |-> a])
    BY DEF Core, Tables
  <2>3. a \in Nat
    BY TableTypes, LiveRows DEF Core
  <2>4. [account |-> a] \in Repo
    BY <2>3 DEF Repo
  <2>5. [account |-> a] # Gone
    BY <2>4, GoneAssumption
  <2>6. db.repos \in Seq(Repo \cup {Gone}) /\ [account |-> a] \in Repo \cup {Gone}
    BY <2>4, TableTypes DEF Core, Table
  <2>7. /\ e.repos \in Seq(Repo \cup {Gone})
        /\ DOMAIN e.repos = DOMAIN db.repos \cup {Len(db.repos) + 1}
        /\ Len(db.repos) + 1 \notin DOMAIN db.repos
        /\ e.repos[Len(db.repos) + 1] = [account |-> a]
        /\ \A j \in DOMAIN db.repos : e.repos[j] = db.repos[j]
    BY <2>1, <2>6, AddRow
  <2>8. e \in Tables
    BY <2>7 DEF Core, Tables, Table
  <2> HIDE DEF e
  <2>9. ReposMove(db, e, r)
    <3>1. Live(db.accounts) = Live(e.accounts)
      BY <2>1
    <3>2. [account |-> a].account = a
      OBVIOUS
    <3> QED BY <1>2, <2>1, <2>5, <2>7, <3>1, <3>2 DEF ReposMove
  <2>10. Live(db.accounts) \subseteq Live(e.accounts)
    BY <2>1
  <2> QED BY <2>1, <2>8, <2>9, <2>10, KeptUsers, KeptAccounts, KeptRest DEF Moves
<1>5. AtOnce(r, Relied(r))
  BY <1>1, <1>2, <1>3, <1>4 DEF AtOnce, Receive, Races
<1> QED BY <1>2, <1>5

LEMMA CleanExpiredTokensAtOnce ==
    ASSUME Core, CleanExpiredTokens
    PROVE  \E r, rel : AtOnce(r, rel) /\ r.kind = "clean" /\ r.tokens = expired
                          /\ rel = {<<"token", t>> : t \in expired}
<1> DEFINE r == [kind |-> "clean", tokens |-> expired]
           rel == {<<"token", t>> : t \in expired}
           F == [t \in DOMAIN db.tokens |-> IF t \in expired THEN Gone ELSE db.tokens[t]]
           e == [db EXCEPT !.tokens = F]
<1>1. /\ db' = e /\ UNCHANGED <<req, given>>
      /\ raced' = raced \cup (rel \cap UNION {req[w].relies : w \in Busy})
  BY DEF CleanExpiredTokens
<1>2. r.kind = "clean" /\ r.tokens = expired
  OBVIOUS
<1> HIDE DEF r
<1>3. Valid(db, r) /\ Relies(db, r, rel)
  BY <1>2 DEF Valid, Relies, UserKinds, ShareKinds, Requests
<1>4. Moves(db, db, e, r)
  <2>1. /\ e.users = db.users /\ e.accounts = db.accounts /\ e.shares = db.shares /\ e.repos = db.repos
        /\ e.tokens = F
    BY DEF Core, Tables
  <2>2. db.tokens \in Seq(Token \cup {Gone})
    BY TableTypes DEF Core, Table
  <2>3. F \in [DOMAIN db.tokens -> Token \cup {Gone}]
    BY <2>2
  <2>4. F \in Seq(Token \cup {Gone}) /\ DOMAIN F = DOMAIN db.tokens
    BY <2>2, <2>3, MapRows
  <2>5. e \in Tables
    BY <2>4 DEF Core, Tables, Table
  <2>6. \A t \in DOMAIN db.tokens : F[t] # db.tokens[t] => F[t] = Gone /\ t \in expired
    OBVIOUS
  <2> HIDE DEF e, F
  <2>7. TokensMove(db, e, r)
    BY <1>2, <2>1, <2>4, <2>6 DEF TokensMove
  <2>8. Live(db.accounts) \subseteq Live(e.accounts)
    BY <2>1
  <2> QED BY <2>1, <2>5, <2>7, <2>8, KeptUsers, KeptAccounts, KeptRest DEF Moves
<1>5. AtOnce(r, rel)
  BY <1>1, <1>2, <1>3, <1>4 DEF AtOnce
<1> QED BY <1>2, <1>5

\* Nothing is written.
Rests ==
    /\ UNCHANGED <<db, given, raced>>
    /\ \/ UNCHANGED req
       \/ \E w \in Workers : /\ req[w] # Idle /\ req[w].r.kind = "delete"
                             /\ req' = [req EXCEPT ![w].phase = "uncommitted"]

LEMMA RestsKeeps ==
    ASSUME Core, Rests
    PROVE  \A x \in Workers : req'[x] # Idle => req[x] # Idle /\ req'[x].r = req[x].r /\ req'[x].b = req[x].b
<1>1. Working(req, db, raced) /\ req = [w \in Workers |-> req[w]]
  BY DEF Core, Working
<1>2. CASE UNCHANGED req
  BY <1>2
<1>3. ASSUME NEW w \in Workers, req[w] # Idle, req' = [req EXCEPT ![w].phase = "uncommitted"]
      PROVE  \A x \in Workers : req'[x] # Idle => req[x] # Idle /\ req'[x].r = req[x].r /\ req'[x].b = req[x].b
  <2>1. Serving(req[w], db, raced)
    BY <1>1, <1>3 DEF Working
  <2>2. req[w] = [r |-> req[w].r, b |-> req[w].b, phase |-> req[w].phase, relies |-> req[w].relies]
    BY <2>1 DEF Serving
  <2>3. req'[w] = [req[w] EXCEPT !.phase = "uncommitted"] /\ \A x \in Workers \ {w} : req'[x] = req[x]
    BY <1>1, <1>3
  <2>4. req'[w].r = req[w].r /\ req'[w].b = req[w].b
    BY <2>2, <2>3
  <2> QED BY <1>3, <2>3, <2>4
<1> QED BY <1>2, <1>3 DEF Rests

LEMMA Steps ==
    ASSUME Core, [Next]_vars
    PROVE  \/ \E w \in Workers : (\E r : Begins(w, r)) \/ Answers(w) \/ Switches(w)
           \/ \E r, rel : AtOnce(r, rel)
           \/ Rests
<1>1. CASE UNCHANGED vars
  BY <1>1 DEF vars, history, Rests
<1>2. CASE Register \/ PostBillRepository \/ CleanExpiredTokens
  BY <1>2, RegisterAtOnce, PostBillRepositoryAtOnce, CleanExpiredTokensAtOnce
<1>3. CASE Clean \/ Expire
  BY <1>3 DEF Clean, Expire, history, Rests
<1>4. ASSUME NEW w \in Workers,
             BeginNext(w) \/ BeginAccountRequest(w) \/ BeginTask(w) \/ BeginUserRequest(w) \/ BeginShareRequest(w)
      PROVE  \E r : Begins(w, r)
  BY <1>4, BeginsNext, BeginsAccountRequest, BeginsTask, BeginsUserRequest, BeginsShareRequest
<1>5. ASSUME NEW w \in Workers, Commit(w) \/ CommitDelete(w) \/ Rollback(w) \/ CommitFails(w) \/ UpdateFails(w)
      PROVE  Answers(w)
  BY <1>5, CommitAnswers, FailureAnswers, UpdateFailsAnswers
<1>6. ASSUME NEW w \in Workers, DeleteStatement(w)
      PROVE  Rests
  BY <1>6 DEF DeleteStatement, Busy, history, Rests
<1> QED BY <1>1, <1>2, <1>3, <1>4, <1>5, <1>6, IngestedSteps DEF Next

\* What a request that ends relied on, no other one did, unless they raced.
LEMMA AnswersWritten ==
    ASSUME Core, NEW w \in Workers, Answers(w)
    PROVE  /\ Working(req', db', raced)
           /\ Situation(req[w].b, db, req[w].r)
           /\ raced = {} /\ req[w].r.kind \in UserKinds => db.users[req[w].r.user] = req[w].b.users[req[w].r.user]
<1> DEFINE q == req[w]
           P == [req EXCEPT ![w] = Idle]
<1>1. Working(req, db, raced) /\ q # Idle /\ req' = P /\ Moves(q.b, db, db', q.r)
  BY DEF Core, Answers
<1>2. Serving(q, db, raced)
  BY <1>1 DEF Working
<1>3. Situation(q.b, db, q.r) /\ Relies(q.b, q.r, q.relies)
  BY <1>2 DEF Serving
<1>4. raced = {} /\ q.r.kind \in UserKinds => db.users[q.r.user] = q.b.users[q.r.user]
  <2> SUFFICES ASSUME raced = {}, q.r.kind \in UserKinds
               PROVE  db.users[q.r.user] = q.b.users[q.r.user]
    OBVIOUS
  <2>1. q.r.user \in DOMAIN q.b.users /\ <<"user", q.r.user>> \in q.relies
    BY <1>3 DEF Situation, Valid, Relies
  <2>2. Same(q.b, db, <<"user", q.r.user>>)
    BY <1>2, <2>1 DEF Serving
  <2> QED BY <2>1, <2>2 DEF Same
<1>5. Working(P, db, raced)
  BY <1>1, Ended
<1>6. \A x \in Workers : P[x] # Idle => q.relies \cap P[x].relies \subseteq raced
  <2> SUFFICES ASSUME NEW x \in Workers, P[x] # Idle
               PROVE  q.relies \cap P[x].relies \subseteq raced
    OBVIOUS
  <2>1. x # w /\ P[x] = req[x]
    BY <1>1 DEF Working
  <2> QED BY <1>1, <2>1 DEF Working
<1> HIDE DEF P, q
<1>7. Working(P, db', raced)
  BY <1>1, <1>3, <1>4, <1>5, <1>6, Written
<1> QED BY <1>1, <1>3, <1>4, <1>7 DEF q

LEMMA CoreStep ==
    ASSUME Core, [Next]_vars
    PROVE  Core'
<1>1. /\ db \in Tables /\ Linked(db) /\ given \in 0 .. MaxExternals /\ Working(req, db, raced)
  BY DEF Core
<1>2. ASSUME NEW w \in Workers, NEW r, Begins(w, r)
      PROVE  Core'
  <2>1. \A x \in Workers : x # w /\ req[x] # Idle => Relied(r) \cap req[x].relies \subseteq raced'
    BY <1>2 DEF Begins, Races, Busy
  <2>2. Working([req EXCEPT ![w] = [r |-> r, b |-> db, phase |-> "read", relies |-> Relied(r)]], db, raced')
    <3>1. Valid(db, r) /\ r.kind \in Served /\ Relies(db, r, Relied(r)) /\ raced \subseteq raced'
      BY <1>2 DEF Begins
    <3> QED BY <1>1, <2>1, <3>1, Begun
  <2>3. db' = db /\ req' = [req EXCEPT ![w] = [r |-> r, b |-> db, phase |-> "read", relies |-> Relied(r)]]
    BY <1>2 DEF Begins
  <2>4. given' \in 0 .. MaxExternals
    BY <1>1, <1>2 DEF Begins, Valid, External
  <2> QED BY <1>1, <2>2, <2>3, <2>4 DEF Core
<1>3. ASSUME NEW w \in Workers, Answers(w)
      PROVE  Core'
  <2>1. Working(req', db', raced) /\ Situation(req[w].b, db, req[w].r)
    BY <1>3, AnswersWritten
  <2>2. Moves(req[w].b, db, db', req[w].r) /\ UNCHANGED <<given, raced>>
    BY <1>3 DEF Answers
  <2>3. Linked(db') /\ db' \in Tables
    BY <2>1, <2>2, MovesLinked DEF Moves
  <2> QED BY <1>1, <2>1, <2>2, <2>3 DEF Core
<1>4. ASSUME NEW w \in Workers, Switches(w)
      PROVE  Core'
  <2>1. PICK r :
        /\ r.kind = "put" /\ Valid(db, r) /\ Relies(db, r, Relied(r))
        /\ req' = [req EXCEPT ![w] = [r |-> r, b |-> db, phase |-> "read", relies |-> Relied(r)]]
        /\ raced' = raced \cup (Relied(r) \cap UNION {req[x].relies : x \in Busy \ {w}})
    BY <1>4 DEF Switches
  <2>2. \A x \in Workers : x # w /\ req[x] # Idle => Relied(r) \cap req[x].relies \subseteq raced'
    BY <2>1 DEF Busy
  <2>3. raced \subseteq raced' /\ r.kind \in Served
    BY <2>1 DEF Served, Requests
  <2>4. Working([req EXCEPT ![w] = [r |-> r, b |-> db, phase |-> "read", relies |-> Relied(r)]], db, raced')
    BY <1>1, <2>1, <2>2, <2>3, Begun
  <2>5. UNCHANGED <<db, given>>
    BY <1>4 DEF Switches
  <2> QED BY <1>1, <2>1, <2>4, <2>5 DEF Core
<1>5. ASSUME NEW r, NEW rel, AtOnce(r, rel)
      PROVE  Core'
  <2>1. /\ Valid(db, r) /\ Moves(db, db, db', r) /\ Relies(db, r, rel) /\ raced \subseteq raced'
        /\ UNCHANGED <<req, given>>
    BY <1>5 DEF AtOnce
  <2>2. Situation(db, db, r)
    BY <1>1, <2>1, OlderReflexive DEF Situation
  <2>3. \A x \in Workers : req[x] # Idle => rel \cap req[x].relies \subseteq raced'
    BY <1>5 DEF AtOnce, Busy
  <2>4. Working(req, db', raced')
    BY <1>1, <2>1, <2>2, <2>3, Written
  <2>5. Linked(db') /\ db' \in Tables
    BY <2>1, <2>2, MovesLinked DEF Moves
  <2> QED BY <1>1, <2>1, <2>4, <2>5 DEF Core
<1>6. CASE Rests
  <2>1. UNCHANGED <<db, given, raced>>
    BY <1>6 DEF Rests
  <2>2. CASE UNCHANGED req
    BY <1>1, <2>1, <2>2 DEF Core
  <2>3. ASSUME NEW w \in Workers, req[w] # Idle, req[w].r.kind = "delete",
               req' = [req EXCEPT ![w].phase = "uncommitted"]
        PROVE  Core'
    <3> DEFINE q == [req[w] EXCEPT !.phase = "uncommitted"]
               P == [req EXCEPT ![w] = q]
    <3>1. req' = P
      BY <2>3
    <3>2. Serving(req[w], db, raced)
      BY <1>1, <2>3 DEF Working
    <3>3. /\ q = [r |-> q.r, b |-> q.b, phase |-> q.phase, relies |-> q.relies]
          /\ q.r = req[w].r /\ q.b = req[w].b /\ q.relies = req[w].relies /\ q.phase = "uncommitted"
      BY <3>2 DEF Serving
    <3> HIDE DEF q
    <3>4. Serving(q, db, raced)
      BY <2>3, <3>2, <3>3 DEF Serving
    <3>5. /\ P = [x \in Workers |-> P[x]] /\ P[w] = q
          /\ \A x \in Workers \ {w} : P[x] = req[x]
      BY <1>1 DEF Working
    <3> HIDE DEF P
    <3>6. Working(P, db, raced)
      <4>1. \A x \in Workers : P[x] # Idle => Serving(P[x], db, raced)
        BY <1>1, <3>4, <3>5 DEF Working
      <4>2. ASSUME NEW x \in Workers, NEW y \in Workers, x # y, P[x] # Idle, P[y] # Idle
            PROVE  P[x].relies \cap P[y].relies \subseteq raced
        <5>1. P[x].relies = req[x].relies /\ P[y].relies = req[y].relies
          BY <3>3, <3>5
        <5>2. req[x] # Idle /\ req[y] # Idle
          BY <2>3, <3>5, <4>2
        <5> QED BY <1>1, <4>2, <5>1, <5>2 DEF Working
      <4> QED BY <3>5, <4>1, <4>2 DEF Working
    <3> QED BY <1>1, <2>1, <3>1, <3>6 DEF Core
  <2> QED BY <1>6, <2>2, <2>3 DEF Rests
<1> QED BY <1>2, <1>3, <1>4, <1>5, <1>6, Steps

LEMMA CoreInit ==
    ASSUME Init
    PROVE  Core
<1>1. db \in Tables /\ Linked(db)
  BY DatabasesAssumption DEF Init
<1>2. given \in 0 .. MaxExternals
  <2>1. MaxExternals \in Nat /\ IsFiniteSet(External) /\ Cardinality(External) = MaxExternals
    BY AccountsAssumption, FS_Interval DEF External
  <2>2. Externals(db) \subseteq External
    BY DEF Externals
  <2>3. /\ IsFiniteSet(Externals(db)) /\ Cardinality(Externals(db)) \in Nat
        /\ Cardinality(Externals(db)) <= Cardinality(External)
    BY <2>1, <2>2, FS_Subset, FS_CardinalityType
  <2> QED BY <2>1, <2>3 DEF Init
<1>3. Working(req, db, raced)
  BY DEF Init, Working
<1> QED BY <1>1, <1>2, <1>3 DEF Core

THEOREM CoreHolds == Spec => []Core
<1>1. Init => Core
  BY CoreInit
<1>2. Core /\ [Next]_vars => Core'
  BY CoreStep
<1> QED BY <1>1, <1>2, PTL DEF Spec

-----------------------------------------------------------------------------
(* A request whose objects are the same does what it would have done on its own *)

LEMMA SameRights ==
    ASSUME NEW b, NEW d, NEW a \in DOMAIN b.accounts, Same(b, d, <<"shares", a>>), NEW u
    PROVE  /\ Rights(b, u, a) = Rights(d, u, a)
           /\ {x \in SharesOf(b, u) : b.shares[x].account = a} = {x \in SharesOf(d, u) : d.shares[x].account = a}
           /\ \A x \in {y \in SharesOf(b, u) : b.shares[y].account = a} : d.shares[x] = b.shares[x]
<1> DEFINE X == {x \in SharesOf(b, u) : b.shares[x].account = a}
           Y == {x \in SharesOf(d, u) : d.shares[x].account = a}
<1>1. SharesOn(d, a) = SharesOn(b, a) /\ \A s \in SharesOn(b, a) : d.shares[s] = b.shares[s]
  BY DEF Same
<1>2. X = {x \in SharesOn(b, a) : b.shares[x].user = u}
  BY DEF SharesOn, SharesOf
<1>3. Y = {x \in SharesOn(d, a) : d.shares[x].user = u}
  BY DEF SharesOn, SharesOf
<1>4. X = Y
  BY <1>1, <1>2, <1>3
<1>5. \A x \in X : d.shares[x] = b.shares[x]
  BY <1>1, <1>2
<1>6. {b.shares[x].level : x \in X} = {d.shares[x].level : x \in Y}
  BY <1>4, <1>5
<1> QED BY <1>4, <1>5, <1>6 DEF Rights

LEMMA SameAccount ==
    ASSUME NEW b, NEW d, NEW u, NEW a \in Live(b.accounts), Same(b, d, <<"account", a>>), Older(b, d)
    PROVE  d.accounts[a] = b.accounts[a] /\ a \in Live(d.accounts) /\ (Owns(b, u, a) <=> Owns(d, u, a))
<1>1. a \in DOMAIN b.accounts /\ b.accounts[a] # Gone /\ a \in DOMAIN d.accounts
  BY DEF Live, Older
<1>2. d.accounts[a] = b.accounts[a]
  BY <1>1 DEF Same
<1> QED BY <1>1, <1>2 DEF Owns, AccountsOf, Live

LEMMA SameUserHandled ==
    ASSUME NEW b, NEW d, NEW r, Situation(b, d, r),
           r.kind \in {"next", "post", "profile", "entitlement"}, Same(b, d, <<"user", r.user>>)
    PROVE  Handled(b, d, r) = Handled(d, d, r)
<1>1. r.user \in DOMAIN b.users
  BY DEF Situation, Valid, UserKinds
<1>2. d.users[r.user] = b.users[r.user]
  BY <1>1 DEF Same
<1>3. r.kind = "next" => NextExternal(b, d, r) = NextExternal(d, d, r)
  BY <1>2 DEF NextExternal
<1>4. r.kind = "post" => PostAwsAccount(b, d, r) = PostAwsAccount(d, d, r)
  BY <1>2 DEF PostAwsAccount, SpendExternal
<1>5. PatchUser(b, d, r) = PatchUser(d, d, r)
  BY <1>2 DEF PatchUser
<1>6. UpdateEntitlement(b, d, r) = UpdateEntitlement(d, d, r)
  BY <1>2 DEF UpdateEntitlement
<1> QED BY <1>3, <1>4, <1>5, <1>6 DEF Handled

LEMMA SameResetHandled ==
    ASSUME NEW b, NEW d, NEW r, Situation(b, d, r), r.kind = "reset",
           Same(b, d, <<"user", r.user>>), Same(b, d, <<"token", r.token>>)
    PROVE  ResetPassword(b, d, r) = ResetPassword(d, d, r)
<1>1. r.user \in DOMAIN b.users /\ r.token \in Live(b.tokens)
  BY DEF Situation, Valid, UserKinds
<1>2. d.users[r.user] = b.users[r.user]
  BY <1>1 DEF Same
<1>3. d.tokens[r.token] = b.tokens[r.token] /\ r.token \in DOMAIN d.tokens
  BY <1>1 DEF Same, Situation, Older, Live
<1>4. r.token \in Live(d.tokens)
  BY <1>1, <1>3 DEF Live
<1> QED BY <1>1, <1>2, <1>4 DEF ResetPassword

LEMMA SameAccountHandled ==
    ASSUME NEW b, NEW d, NEW r, Situation(b, d, r),
           r.kind \in {"patch", "subaccount", "delete"}, Same(b, d, <<"account", r.account>>),
           r.kind = "subaccount" => Same(b, d, <<"user", r.user>>)
    PROVE  Handled(b, d, r) = Handled(d, d, r)
<1>1. /\ d.accounts[r.account] = b.accounts[r.account] /\ r.account \in Live(d.accounts)
      /\ Owns(b, r.user, r.account) <=> Owns(d, r.user, r.account)
  BY SameAccount DEF Situation, Valid
<1>2. r.kind = "patch" => PatchAwsAccount(b, d, r) = PatchAwsAccount(d, d, r)
  BY <1>1 DEF PatchAwsAccount
<1>3. r.kind = "delete" => DeleteAwsAccount(b, d, r) = DeleteAwsAccount(d, d, r)
  BY <1>1 DEF DeleteAwsAccount
<1>4. ASSUME r.kind = "subaccount" PROVE PatchAwsSubaccount(b, d, r) = PatchAwsSubaccount(d, d, r)
  <2>1. r.user \in DOMAIN b.users
    BY <1>4 DEF Situation, Valid, UserKinds
  <2>2. d.users[r.user] = b.users[r.user]
    BY <1>4, <2>1 DEF Same
  <2>3. MaySetRole(b, r) <=> MaySetRole(d, r)
    BY <1>1, <2>2 DEF MaySetRole
  <2> QED BY <1>1, <2>2, <2>3 DEF PatchAwsSubaccount, SpendExternal
<1> QED BY <1>2, <1>3, <1>4 DEF Handled

LEMMA SamePutHandled ==
    ASSUME NEW b, NEW d, NEW r, Situation(b, d, r), r.kind = "put",
           Same(b, d, <<"accounts", r.row.owner>>),
           \A a \in AccountsOf(b, r.row.owner) : Same(b, d, <<"account", a>>)
    PROVE  PutSubAccounts(b, d, r) = PutSubAccounts(d, d, r)
<1> DEFINE o == r.row.owner
           subs == Org[IdentityOf(r.row)]
           adopted(x) == {y \in AccountsOf(x, o) : /\ x.accounts[y].parent = None
                                                   /\ x.accounts[y].identity \in subs \ {IdentityOf(r.row)}}
           kept(x) == [y \in DOMAIN d.accounts |->
                        IF y \in adopted(x) /\ d.accounts[y] # Gone
                        THEN [x.accounts[y] EXCEPT !.parent = r.account] ELSE d.accounts[y]]
           added(x) == LET new == SetToSeq(subs \ Known(x, o)) IN
                       [i \in DOMAIN new |->
                          [owner |-> o, pretty |-> SomeName, role |-> None,
                           external |-> None, identity |-> new[i], parent |-> r.account]]
<1>1. o \in DOMAIN b.users
  BY DEF Situation, Valid
<1>2. AccountsOf(d, o) = AccountsOf(b, o)
  BY <1>1 DEF Same
<1>3. \A a \in AccountsOf(b, o) : d.accounts[a] = b.accounts[a]
  BY DEF Same, AccountsOf, Live
<1>4. Known(b, o) = Known(d, o)
  BY <1>2, <1>3 DEF Known
<1>5. adopted(b) = adopted(d)
  BY <1>2, <1>3
<1>6. \A y \in adopted(b) : d.accounts[y] = b.accounts[y]
  BY <1>3
<1>7. kept(b) = kept(d)
  BY <1>5, <1>6
<1>8. added(b) = added(d)
  BY <1>4
<1>9. PutSubAccounts(b, d, r) = [d EXCEPT !.accounts = kept(b) \o added(b)]
  BY DEF PutSubAccounts
<1>10. PutSubAccounts(d, d, r) = [d EXCEPT !.accounts = kept(d) \o added(d)]
  BY DEF PutSubAccounts
<1> QED BY <1>7, <1>8, <1>9, <1>10

LEMMA SameIdentityHandled ==
    ASSUME NEW b, NEW d, NEW r, Situation(b, d, r), r.kind = "identity",
           \A a \in Live(b.accounts) : Same(b, d, <<"account", a>>),
           Identified(d), \A a \in Live(d.accounts) \ DOMAIN b.accounts : d.accounts[a].external # FromConfig
    PROVE  UpdateAwsIdentity(b, d, r) = UpdateAwsIdentity(d, d, r)
<1> DEFINE F(x) == [a \in DOMAIN d.accounts |->
                      IF a \in Live(x.accounts) /\ d.accounts[a] # Gone
                      THEN [x.accounts[a] EXCEPT !.identity = IdentityOf(x.accounts[a])] ELSE d.accounts[a]]
<1>1. ASSUME NEW a \in DOMAIN d.accounts
      PROVE  F(b)[a] = F(d)[a]
  <2>1. CASE d.accounts[a] = Gone
    BY <2>1
  <2>2. CASE d.accounts[a] # Gone /\ a \in DOMAIN b.accounts
    <3>1. a \in Live(b.accounts) /\ a \in Live(d.accounts)
      BY <2>2 DEF Situation, Older, Live
    <3>2. d.accounts[a] = b.accounts[a]
      BY <3>1 DEF Same, Live
    <3> QED BY <2>2, <3>1, <3>2
  <2>3. CASE d.accounts[a] # Gone /\ a \notin DOMAIN b.accounts
    <3>1. a \in Live(d.accounts) /\ a \notin Live(b.accounts)
      BY <2>3 DEF Live
    <3>2. d.accounts[a].role \in {None, d.accounts[a].identity}
      BY <2>3, <3>1 DEF Identified
    <3>3. IdentityOf(d.accounts[a]) = d.accounts[a].identity
      BY <3>2 DEF IdentityOf
    <3>4. d.accounts[a] \in Account
      BY <3>1, TableTypes, LiveRows DEF Situation
    <3>5. [d.accounts[a] EXCEPT !.identity = d.accounts[a].identity] = d.accounts[a]
      BY <3>4 DEF Account
    <3> QED BY <2>3, <3>1, <3>3, <3>5
  <2> QED BY <2>1, <2>2, <2>3
<1>2. F(b) = F(d)
  BY <1>1
<1>3. UpdateAwsIdentity(b, d, r) = [d EXCEPT !.accounts = F(b)]
  BY DEF UpdateAwsIdentity
<1>4. UpdateAwsIdentity(d, d, r) = [d EXCEPT !.accounts = F(d)]
  BY DEF UpdateAwsIdentity
<1> QED BY <1>2, <1>3, <1>4

LEMMA SameInviteHandled ==
    ASSUME NEW b, NEW d, NEW r, Situation(b, d, r), r.kind = "invite",
           Same(b, d, <<"shares", r.account>>), SameEmails(b, d, <<"email", r.email>>)
    PROVE  InviteUser(b, d, r) = InviteUser(d, d, r)
<1>1. CASE r.account \notin Live(d.accounts)
  BY <1>1 DEF InviteUser
<1>2. CASE r.account \in Live(d.accounts)
  <2>1. r.account \in Live(b.accounts) /\ r.account \in DOMAIN b.accounts /\ r.email \in Emails
    BY DEF Situation, Valid, Live
  <2>2. d.accounts[r.account].owner = b.accounts[r.account].owner
    BY <1>2, <2>1 DEF Situation, Older
  <2>3. WithEmail(d, r.email) = WithEmail(b, r.email)
    BY <2>1 DEF SameEmails
  <2>4. \A u : Rights(b, u, r.account) = Rights(d, u, r.account)
    BY <2>1, SameRights
  <2>5. MayInvite(b, r.user, r.account, r.level) <=> MayInvite(d, r.user, r.account, r.level)
    BY <1>2, <2>1, <2>2, <2>4 DEF MayInvite
  <2>6. \A u : AlreadyShared(b, r.account, u) <=> AlreadyShared(d, r.account, u)
    BY <2>4 DEF AlreadyShared
  <2> QED BY <2>2, <2>3, <2>5, <2>6 DEF InviteUser
<1> QED BY <1>1, <1>2

LEMMA SameShare ==
    ASSUME NEW b, NEW d, NEW s \in Live(b.shares), Linked(b), Linked(d), Older(b, d),
           Same(b, d, <<"shares", b.shares[s].account>>)
    PROVE  /\ s \in Live(d.shares) /\ d.shares[s] = b.shares[s]
           /\ b.shares[s].account \in DOMAIN b.accounts
           /\ b.shares[s].account \in Live(d.accounts)
           /\ d.accounts[b.shares[s].account].owner = b.accounts[b.shares[s].account].owner
<1> DEFINE a == b.shares[s].account
<1>1. a \in Live(b.accounts) /\ a \in DOMAIN b.accounts
  BY DEF Linked, Live
<1>2. s \in SharesOn(b, a)
  BY DEF SharesOn
<1>3. s \in SharesOn(d, a) /\ d.shares[s] = b.shares[s]
  BY <1>1, <1>2 DEF Same
<1>4. s \in Live(d.shares)
  BY <1>3 DEF SharesOn
<1>5. a \in Live(d.accounts)
  BY <1>3, <1>4 DEF Linked
<1>6. d.accounts[a].owner = b.accounts[a].owner
  BY <1>1, <1>5 DEF Older
<1> QED BY <1>1, <1>3, <1>4, <1>5, <1>6

LEMMA SameShareHandled ==
    ASSUME NEW b, NEW d, NEW r, Situation(b, d, r), r.kind \in {"level", "unshare"},
           Same(b, d, <<"shares", b.shares[r.share].account>>)
    PROVE  Handled(b, d, r) = Handled(d, d, r)
<1> DEFINE s == r.share
           a == b.shares[s].account
<1>1. s \in Live(b.shares) /\ Linked(b) /\ Linked(d) /\ Older(b, d)
  BY DEF Situation, Valid
<1>2. /\ s \in Live(d.shares) /\ d.shares[s] = b.shares[s] /\ a \in DOMAIN b.accounts
      /\ d.accounts[a].owner = b.accounts[a].owner
  BY <1>1, SameShare
<1>3. /\ Rights(b, r.user, a) = Rights(d, r.user, a)
      /\ {x \in SharesOf(b, r.user) : b.shares[x].account = a} = {x \in SharesOf(d, r.user) : d.shares[x].account = a}
      /\ \A x \in {y \in SharesOf(b, r.user) : b.shares[y].account = a} : d.shares[x] = b.shares[x]
  BY <1>2, SameRights, SMTT(60)
<1> HIDE DEF s, a
<1>4. \A l : MayChange(b, r.user, s, l) <=> MayChange(d, r.user, s, l)
  <2> TAKE l
  <2> DEFINE X == {x \in SharesOf(b, r.user) : b.shares[x].account = a /\ CheckLevel(l, b.shares[x].level)}
             Y == {x \in SharesOf(d, r.user) : d.shares[x].account = a /\ CheckLevel(l, d.shares[x].level)}
  <2>1. X = Y
    BY <1>3
  <2>2. \A x \in X : d.shares[x] = b.shares[x]
    BY <1>3
  <2>3. a = b.shares[s].account /\ a = d.shares[s].account
    BY <1>2 DEF a, s
  <2>4. MayChange(b, r.user, s, l) <=>
            \/ b.accounts[a].owner = r.user
            \/ \E x \in X : /\ \A y \in X : x <= y
                            /\ ~(b.shares[x].level = Standard /\ b.shares[s].level = Admin)
    BY <1>1, <2>3 DEF MayChange, s
  <2>5. MayChange(d, r.user, s, l) <=>
            \/ d.accounts[a].owner = r.user
            \/ \E x \in Y : /\ \A y \in Y : x <= y
                            /\ ~(d.shares[x].level = Standard /\ d.shares[s].level = Admin)
    BY <1>2, <2>3 DEF MayChange
  <2> HIDE DEF X, Y
  <2> QED BY <1>2, <2>1, <2>2, <2>4, <2>5
<1>5. MayDelete(b, r.user, s) <=> MayDelete(d, r.user, s)
  BY <1>1, <1>2, <1>3 DEF MayDelete, a, s
<1>6. UpdateShare(b, d, r) = UpdateShare(d, d, r)
  BY <1>4 DEF UpdateShare, s
<1>7. DeleteShare(b, d, r) = DeleteShare(d, d, r)
  BY <1>5 DEF DeleteShare, s
<1> QED BY <1>6, <1>7 DEF Handled

LEMMA HandledSame ==
    ASSUME NEW b, NEW d, NEW r, Situation(b, d, r), r.kind \in Served \ {"ingest"},
           NEW rel, Relies(b, r, rel), \A o \in rel : Same(b, d, o) /\ SameEmails(b, d, o),
           r.kind = "identity" => /\ Identified(d)
                                  /\ \A a \in Live(d.accounts) \ DOMAIN b.accounts :
                                         d.accounts[a].external # FromConfig
    PROVE  Handled(b, d, r) = Handled(d, d, r)
<1>1. CASE r.kind \in {"next", "post", "profile", "entitlement"}
  BY <1>1, SameUserHandled DEF Relies, UserKinds
<1>2. CASE r.kind = "reset"
  BY <1>2, SameResetHandled DEF Relies, UserKinds, Handled
<1>3. CASE r.kind \in {"patch", "subaccount", "delete"}
  BY <1>3, SameAccountHandled DEF Relies, UserKinds
<1>4. CASE r.kind = "put"
  BY <1>4, SamePutHandled DEF Relies, Handled
<1>5. CASE r.kind = "identity"
  BY <1>5, SameIdentityHandled DEF Relies, Handled
<1>6. CASE r.kind = "invite"
  BY <1>6, SameInviteHandled DEF Relies, Handled
<1>7. CASE r.kind \in {"level", "unshare"}
  BY <1>7, SameShareHandled DEF Relies
<1> QED BY <1>1, <1>2, <1>3, <1>4, <1>5, <1>6, <1>7 DEF Served, Requests

-----------------------------------------------------------------------------
(* Types *)

\* The database only grows, and what is gone stays so.
LEMMA Grows ==
    ASSUME Core, [Next]_vars
    PROVE  Older(db, db')
<1>1. ASSUME NEW w \in Workers, Answers(w)
      PROVE  Older(db, db')
  <2>1. Situation(req[w].b, db, req[w].r)
    BY <1>1, AnswersWritten
  <2> QED BY <1>1, <2>1, MovesOlder DEF Answers
<1>2. ASSUME NEW r, NEW rel, AtOnce(r, rel)
      PROVE  Older(db, db')
  <2>1. Situation(db, db, r)
    BY <1>2, OlderReflexive DEF Situation, Core, AtOnce
  <2> QED BY <1>2, <2>1, MovesOlder DEF AtOnce
<1>3. CASE db' = db
  BY <1>3, OlderReflexive
<1> QED BY <1>1, <1>2, <1>3, Steps DEF Begins, Switches, Rests

\* The history and the documents are about rows there were.
Ids ==
    /\ docs \cup imported \cup UNION cleans \subseteq DOMAIN db.repos
    /\ resets \in Seq(Nat)
    /\ expired \cup ToSet(resets) \subseteq DOMAIN db.tokens
    /\ puts \subseteq DOMAIN db.accounts

LEMMA AppendToSet ==
    ASSUME NEW S, NEW s \in Seq(S), NEW x \in S
    PROVE  /\ Append(s, x) \in Seq(S)
           /\ ToSet(Append(s, x)) = ToSet(s) \cup {x}
<1>1. /\ Append(s, x) \in Seq(S) /\ DOMAIN Append(s, x) = DOMAIN s \cup {Len(s) + 1}
      /\ Append(s, x)[Len(s) + 1] = x /\ \A j \in DOMAIN s : Append(s, x)[j] = s[j]
  BY AddRow
<1>2. ToSet(s) = {s[i] : i \in DOMAIN s} /\ ToSet(Append(s, x)) = {Append(s, x)[i] : i \in DOMAIN Append(s, x)}
  BY DEF ToSet
<1> QED BY <1>1, <1>2

LEMMA ResetToken ==
    ASSUME Core, NEW w \in Busy, req[w].r.kind = "reset"
    PROVE  /\ req[w].r.token \in DOMAIN db.tokens /\ req[w].r.token \in DOMAIN req[w].b.tokens
           /\ req[w].r.token \in Nat
           /\ <<"token", req[w].r.token>> \in req[w].relies
<1>1. Situation(req[w].b, db, req[w].r) /\ Serving(req[w], db, raced)
  BY BusyServes
<1>2. req[w].r.token \in Live(req[w].b.tokens)
  BY <1>1 DEF Situation, Valid
<1>3. db.tokens \in Seq(Token \cup {Gone})
  BY TableTypes DEF Core, Table
<1>4. DOMAIN db.tokens \subseteq Nat
  <2>1. \A R, t : t \in Seq(R) => DOMAIN t \subseteq Nat
    OBVIOUS
  <2> QED BY <1>3, <2>1
<1> QED BY <1>1, <1>2, <1>4 DEF Situation, Older, Live, Serving, Relies

LEMMA IdsInit == ASSUME Init PROVE Ids
<1>1. ToSet(<<>>) = {}
  BY DEF ToSet
<1> QED BY <1>1 DEF Init, Ids, Live

LEMMA IdsStep ==
    ASSUME Core, Ids, [Next]_vars
    PROVE  Ids'
<1>1. Older(db, db')
  BY Grows
<1>2. /\ DOMAIN db.repos \subseteq DOMAIN db'.repos /\ DOMAIN db.tokens \subseteq DOMAIN db'.tokens
      /\ DOMAIN db.accounts \subseteq DOMAIN db'.accounts
  BY <1>1 DEF Older
<1>3. docs' \cup imported' \cup UNION cleans' \subseteq DOMAIN db'.repos
  <2>1. docs \cup imported \cup UNION cleans \subseteq DOMAIN db'.repos
    BY <1>2 DEF Ids
  <2>2. ASSUME NEW w \in Workers, Ingested(w) PROVE docs' \cup imported' \cup UNION cleans' \subseteq DOMAIN db'.repos
    <3>1. w \in Busy /\ req[w].r.kind = "ingest" /\ cleans' = cleans
          /\ docs' = docs \cup {req[w].r.repo} /\ imported' = imported \cup {req[w].r.repo}
      BY <2>2 DEF Ingested
    <3>2. req[w].r.repo \in DOMAIN db.repos
      BY <3>1, BusyServes DEF Situation, Valid, Older
    <3> QED BY <1>2, <2>1, <3>1, <3>2
  <2>3. ASSUME NEW w \in Workers, DeleteStatement(w) PROVE docs' \cup imported' \cup UNION cleans' \subseteq DOMAIN db'.repos
    <3>1. w \in Busy /\ cleans' = cleans \cup {ReposOf(req[w].b, req[w].r.account)}
          /\ docs' = docs /\ imported' = imported
      BY <2>3 DEF DeleteStatement, history
    <3>2. ReposOf(req[w].b, req[w].r.account) \subseteq DOMAIN db.repos
      BY <3>1, BusyServes DEF Situation, Older, ReposOf, Live
    <3> QED BY <1>2, <2>1, <3>1, <3>2
  <2>4. CASE Clean
    BY <2>1, <2>4 DEF Clean, history
  <2>5. CASE UNCHANGED <<docs, imported, cleans>>
    BY <2>1, <2>5
  <2>6. CASE UNCHANGED vars
    BY <2>5, <2>6 DEF vars, history
  <2>7. CASE Register \/ PostBillRepository \/ Expire \/ CleanExpiredTokens
    BY <2>5, <2>7 DEF Register, OneStep, PostBillRepository, Expire, CleanExpiredTokens, history
  <2>8. ASSUME NEW w \in Workers,
               \/ BeginNext(w) \/ BeginAccountRequest(w) \/ BeginTask(w)
               \/ BeginUserRequest(w) \/ BeginShareRequest(w)
        PROVE  UNCHANGED <<docs, imported, cleans>>
    BY <2>8, BeginsNext, BeginsAccountRequest, BeginsTask, BeginsUserRequest, BeginsShareRequest DEF Begins
  <2>9. ASSUME NEW w \in Workers, Commit(w) \/ CommitDelete(w) \/ Rollback(w) \/ CommitFails(w) \/ UpdateFails(w)
        PROVE  UNCHANGED <<docs, imported, cleans>>
    BY <2>9 DEF Commit, CommitDelete, Rollback, CommitFails, UpdateFails, history
  <2> QED BY <2>2, <2>3, <2>4, <2>5, <2>6, <2>7, <2>8, <2>9 DEF Next
<1>4. /\ resets' \in Seq(Nat)
      /\ expired' \cup ToSet(resets') \subseteq DOMAIN db'.tokens
  <2>1. expired \cup ToSet(resets) \subseteq DOMAIN db'.tokens /\ resets \in Seq(Nat)
    BY <1>2 DEF Ids
  <2>2. ASSUME NEW w \in Workers, Commit(w) \/ UpdateFails(w), req[w].r.kind = "reset",
               resets' = Append(resets, req[w].r.token)
        PROVE  resets' \in Seq(Nat) /\ expired' \cup ToSet(resets') \subseteq DOMAIN db'.tokens
    <3>1. w \in Busy /\ expired' = expired
      BY <2>2 DEF Commit, UpdateFails
    <3>2. req[w].r.token \in DOMAIN db.tokens /\ req[w].r.token \in Nat
      BY <2>2, <3>1, ResetToken
    <3>3. resets' \in Seq(Nat) /\ ToSet(resets') = ToSet(resets) \cup {req[w].r.token}
      BY <2>1, <2>2, <3>2, AppendToSet
    <3> QED BY <1>2, <2>1, <3>1, <3>2, <3>3
  <2>3. CASE Expire
    BY <1>2, <2>1, <2>3 DEF Expire, history, Live
  <2>4. CASE UNCHANGED <<expired, resets>>
    BY <2>1, <2>4
  <2>5. ASSUME NEW w \in Workers, Commit(w) \/ UpdateFails(w)
        PROVE  \/ UNCHANGED <<expired, resets>>
               \/ req[w].r.kind = "reset" /\ resets' = Append(resets, req[w].r.token)
    BY <2>5 DEF Commit, UpdateFails
  <2>6. CASE UNCHANGED vars
    BY <2>4, <2>6 DEF vars, history
  <2>7. CASE Register \/ PostBillRepository \/ Clean \/ CleanExpiredTokens
    BY <2>4, <2>7 DEF Register, OneStep, PostBillRepository, Clean, CleanExpiredTokens, history
  <2>8. ASSUME NEW w \in Workers,
               \/ BeginNext(w) \/ BeginAccountRequest(w) \/ BeginTask(w)
               \/ BeginUserRequest(w) \/ BeginShareRequest(w)
        PROVE  UNCHANGED <<expired, resets>>
    BY <2>8, BeginsNext, BeginsAccountRequest, BeginsTask, BeginsUserRequest, BeginsShareRequest DEF Begins
  <2>9. ASSUME NEW w \in Workers, DeleteStatement(w) \/ Ingested(w) \/ CommitDelete(w) \/ Rollback(w) \/ CommitFails(w)
        PROVE  UNCHANGED <<expired, resets>>
    BY <2>9 DEF DeleteStatement, Ingested, CommitDelete, Rollback, CommitFails, history
  <2> QED BY <2>2, <2>3, <2>4, <2>5, <2>6, <2>7, <2>8, <2>9 DEF Next
<1>5. puts' \subseteq DOMAIN db'.accounts
  <2>1. puts \subseteq DOMAIN db'.accounts
    BY <1>2 DEF Ids
  <2>2. ASSUME NEW w \in Workers, Commit(w) PROVE puts' \subseteq DOMAIN db'.accounts
    BY <2>1, <2>2 DEF Commit
  <2>3. CASE UNCHANGED puts
    BY <2>1, <2>3
  <2>4. CASE UNCHANGED vars
    BY <2>3, <2>4 DEF vars, history
  <2>5. CASE Register \/ PostBillRepository \/ Clean \/ Expire \/ CleanExpiredTokens
    BY <2>3, <2>5 DEF Register, OneStep, PostBillRepository, Clean, Expire, CleanExpiredTokens, history
  <2>6. ASSUME NEW w \in Workers,
               \/ BeginNext(w) \/ BeginAccountRequest(w) \/ BeginTask(w)
               \/ BeginUserRequest(w) \/ BeginShareRequest(w)
        PROVE  UNCHANGED puts
    BY <2>6, BeginsNext, BeginsAccountRequest, BeginsTask, BeginsUserRequest, BeginsShareRequest DEF Begins
  <2>7. ASSUME NEW w \in Workers, DeleteStatement(w) \/ Ingested(w) \/ CommitDelete(w) \/ Rollback(w)
                                    \/ CommitFails(w) \/ UpdateFails(w)
        PROVE  UNCHANGED puts
    BY <2>7 DEF DeleteStatement, Ingested, CommitDelete, Rollback, CommitFails, UpdateFails, history
  <2> QED BY <2>2, <2>3, <2>4, <2>5, <2>6, <2>7 DEF Next
<1> QED BY <1>3, <1>4, <1>5 DEF Ids

-----------------------------------------------------------------------------
(* Without races and failures, the tables are those of requests that run one by one *)

\* Roles were identified, unless the accounts come from the configuration.
LEMMA MovesIdentified ==
    ASSUME NEW b, NEW d, NEW e, NEW r, Situation(b, d, r), Moves(b, d, e, r),
           NEW rel, Relies(b, r, rel), \A o \in rel : Same(b, d, o), Identified(d)
    PROVE  /\ Identified(e)
           /\ \A a \in Live(e.accounts) : e.accounts[a].external = FromConfig =>
                 r.kind = "user" \/ (a \in Live(d.accounts) /\ d.accounts[a].external = FromConfig)
<1> SUFFICES ASSUME NEW a \in Live(e.accounts)
             PROVE  /\ IdentifiedRow(e.accounts[a])
                    /\ e.accounts[a].external = FromConfig =>
                        r.kind = "user" \/ (a \in Live(d.accounts) /\ d.accounts[a].external = FromConfig)
  BY DEF Identified, IdentifiedRow
<1>1. a \in DOMAIN e.accounts /\ e.accounts[a] # Gone
  BY DEF Live
<1>2. Older(b, d) /\ Older(d, e) /\ Valid(b, r)
  BY MovesOlder DEF Situation
<1>3. r.kind \in {"post", "subaccount"} => r.external # FromConfig
  BY <1>2, AccountsAssumption DEF Valid, External, FromConfig
<1>4. None # FromConfig
  BY AccountsAssumption DEF FromConfig
<1>5. CASE a \notin DOMAIN d.accounts
  <2>1. AccountAdded(b, d, e, r, a)
    BY <1>1, <1>5 DEF Moves, AccountsMove
  <2> QED BY <1>3, <1>4, <2>1 DEF AccountAdded
<1>6. CASE a \in DOMAIN d.accounts /\ e.accounts[a] = d.accounts[a]
  BY <1>1, <1>6 DEF Identified, IdentifiedRow, Live
<1>7. CASE a \in DOMAIN d.accounts /\ e.accounts[a] # d.accounts[a]
  <2>1. a \in Live(d.accounts) /\ AccountWritten(b, d, e, r, a)
    BY <1>1, <1>7 DEF Moves, AccountsMove
  <2>2. a \in Live(b.accounts) /\ Touches(b, r, a)
    BY <2>1 DEF AccountWritten
  <2>3. <<"account", a>> \in rel
    BY <2>2 DEF Touches, Relies
  <2>4. d.accounts[a] = b.accounts[a]
    BY <2>2, <2>3 DEF Same, Live
  <2>5. IdentifiedRow(b.accounts[a])
    BY <2>1, <2>4 DEF Identified, IdentifiedRow
  <2> QED BY <1>3, <2>1, <2>4, <2>5 DEF AccountWritten, Spent
<1> QED BY <1>5, <1>6, <1>7

\* The accounts of the configuration that the task of the identities has not seen.
Unseen(Q, d) == \A w \in Workers :
    Q[w] # Idle /\ Q[w].r.kind = "identity" =>
        \A a \in Live(d.accounts) \ DOMAIN Q[w].b.accounts : d.accounts[a].external # FromConfig

SerialInv ==
    /\ meant = db
    /\ raced = {} => Identified(db) /\ Unseen(req, db)

LEMMA SerialInit == ASSUME Init PROVE SerialInv
BY DatabasesAssumption DEF Init, SerialInv, Unseen

\* The roles.
LEMMA RolesStep ==
    ASSUME Core, SerialInv, [Next]_vars, raced' = {}
    PROVE  Identified(db') /\ Unseen(req', db')
<1>1. /\ db \in Tables /\ Linked(db) /\ Working(req, db, raced) /\ req = [w \in Workers |-> req[w]]
  BY DEF Core, Working
<1>2. raced = {} => Identified(db) /\ Unseen(req, db)
  BY DEF SerialInv
<1>3. ASSUME NEW w \in Workers, NEW r, Begins(w, r)
      PROVE  Identified(db') /\ Unseen(req', db')
  <2>1. raced = {} /\ db' = db /\ req' = [req EXCEPT ![w] = [r |-> r, b |-> db, phase |-> "read", relies |-> Relied(r)]]
    BY <1>3 DEF Begins
  <2>2. req'[w].b = db /\ \A x \in Workers \ {w} : req'[x] = req[x]
    BY <1>1, <2>1
  <2> QED BY <1>2, <2>1, <2>2 DEF Unseen, Live
<1>4. ASSUME NEW w \in Workers, Switches(w)
      PROVE  Identified(db') /\ Unseen(req', db')
  <2>1. PICK r : req' = [req EXCEPT ![w] = [r |-> r, b |-> db, phase |-> "read", relies |-> Relied(r)]]
    BY <1>4 DEF Switches
  <2>2. raced = {} /\ db' = db
    BY <1>4 DEF Switches
  <2>3. req'[w].b = db /\ \A x \in Workers \ {w} : req'[x] = req[x]
    BY <1>1, <2>1
  <2> QED BY <1>2, <2>2, <2>3 DEF Unseen, Live
<1>5. ASSUME NEW w \in Workers, Answers(w)
      PROVE  Identified(db') /\ Unseen(req', db')
  <2> DEFINE q == req[w]
  <2>1. /\ q # Idle /\ Moves(q.b, db, db', q.r) /\ raced = {}
        /\ req' = [req EXCEPT ![w] = Idle]
    BY <1>5 DEF Answers
  <2>2. Serving(q, db, raced)
    BY <1>1, <2>1 DEF Working
  <2>3. /\ Situation(q.b, db, q.r) /\ Relies(q.b, q.r, q.relies) /\ \A o \in q.relies : Same(q.b, db, o)
        /\ q.r.kind # "user"
    BY <2>1, <2>2 DEF Serving, Served
  <2>4. req'[w] = Idle /\ \A x \in Workers \ {w} : req'[x] = req[x]
    BY <1>1, <2>1
  <2> HIDE DEF q
  <2>5. /\ Identified(db')
        /\ \A a \in Live(db'.accounts) : db'.accounts[a].external = FromConfig =>
              a \in Live(db.accounts) /\ db.accounts[a].external = FromConfig
    BY <1>2, <2>1, <2>3, MovesIdentified
  <2>6. Unseen(req', db')
    BY <1>2, <2>1, <2>4, <2>5 DEF Unseen
  <2> QED BY <2>5, <2>6
<1>6. ASSUME NEW r, NEW rel, AtOnce(r, rel)
      PROVE  Identified(db') /\ Unseen(req', db')
  <2>1. /\ Valid(db, r) /\ Moves(db, db, db', r) /\ Relies(db, r, rel) /\ raced = {} /\ req' = req
    BY <1>6 DEF AtOnce
  <2>2. Situation(db, db, r) /\ \A o \in rel : Same(db, db, o)
    BY <1>1, <2>1, OlderReflexive, SameReflexive DEF Situation
  <2>3. /\ Identified(db')
        /\ \A a \in Live(db'.accounts) : db'.accounts[a].external = FromConfig =>
              r.kind = "user" \/ (a \in Live(db.accounts) /\ db.accounts[a].external = FromConfig)
    BY <1>2, <2>1, <2>2, MovesIdentified
  <2>4. ASSUME NEW x \in Workers, req[x] # Idle, req[x].r.kind = "identity"
        PROVE  r.kind # "user"
    <3>1. Relies(req[x].b, req[x].r, req[x].relies)
      BY <1>1, <2>4 DEF Working, Serving
    <3>2. <<"default role", 0>> \in req[x].relies
      BY <2>4, <3>1 DEF Relies
    <3>3. r.kind = "user" => <<"default role", 0>> \in rel
      BY <2>1 DEF Relies
    <3>4. x \in Busy
      BY <2>4 DEF Busy
    <3>5. rel \cap UNION {req[y].relies : y \in Busy} = {}
      BY <1>6 DEF AtOnce
    <3> QED BY <3>2, <3>3, <3>4, <3>5
  <2>5. Unseen(req', db')
    BY <1>2, <2>1, <2>3, <2>4 DEF Unseen
  <2> QED BY <2>3, <2>5
<1>7. CASE Rests
  <2>1. db' = db /\ raced = {}
    BY <1>7 DEF Rests
  <2>2. \A x \in Workers : req'[x] # Idle => req[x] # Idle /\ req'[x].r = req[x].r /\ req'[x].b = req[x].b
    BY <1>7, RestsKeeps
  <2>3. Unseen(req', db')
    BY <1>2, <2>1, <2>2 DEF Unseen
  <2> QED BY <1>2, <2>1, <2>3
<1> QED BY <1>3, <1>4, <1>5, <1>6, <1>7, Steps

\* What is written.
LEMMA MeantStep ==
    ASSUME Core, SerialInv, [Next]_vars
    PROVE  meant' = db'
<1>1. meant = db
  BY DEF SerialInv
<1>2. CASE UNCHANGED <<db, meant>>
  BY <1>1, <1>2
<1>3. ASSUME NEW w \in Workers, Commit(w) \/ CommitDelete(w) PROVE meant' = db'
  <2> DEFINE q == req[w]
  <2>1. w \in Busy /\ db' = Handled(q.b, db, q.r) /\ Mean(Handled(db, db, q.r))
    BY <1>1, <1>3 DEF Commit, CommitDelete
  <2>2. q.r.kind # "ingest"
    BY <1>3, <2>1, BusyServes DEF Commit, CommitDelete, Serving
  <2>3. CASE raced \cup failed # {}
    BY <2>1, <2>3 DEF Mean
  <2>4. CASE raced \cup failed = {}
    <3>1. Serving(q, db, raced) /\ q # Idle
      BY <2>1, BusyServes
    <3>2. /\ Situation(q.b, db, q.r) /\ q.r.kind \in Served \ {"ingest"} /\ Relies(q.b, q.r, q.relies)
          /\ \A o \in q.relies : Same(q.b, db, o) /\ SameEmails(q.b, db, o)
      BY <2>2, <2>4, <3>1 DEF Serving
    <3>3. q.r.kind = "identity" => /\ Identified(db)
                                   /\ \A a \in Live(db.accounts) \ DOMAIN q.b.accounts :
                                          db.accounts[a].external # FromConfig
      BY <2>1, <2>4, <3>1 DEF SerialInv, Unseen, Busy
    <3> HIDE DEF q
    <3>4. Handled(q.b, db, q.r) = Handled(db, db, q.r)
      BY <3>2, <3>3, HandledSame
    <3> QED BY <2>1, <2>4, <3>4 DEF Mean
  <2> QED BY <2>3, <2>4
<1>4. ASSUME NEW w \in Workers, Rollback(w) \/ CommitFails(w) \/ UpdateFails(w) PROVE meant' = db'
  BY <1>1, <1>4 DEF Rollback, CommitFails, UpdateFails, history
<1>5. ASSUME NEW m, db' = m, Mean(m) PROVE meant' = db'
  BY <1>5 DEF Mean
<1>6. CASE Register \/ PostBillRepository \/ CleanExpiredTokens
  <2>1. CASE Register
    <3>1. PICK r : OneStep(r)
      BY <2>1, RegisterAtOnce
    <3>2. db' = Handled(db, db, r) /\ Mean(Handled(db, db, r))
      BY <1>1, <3>1 DEF OneStep
    <3> QED BY <1>5, <3>2
  <2>2. CASE PostBillRepository
    <3>1. PICK a : /\ db' = [db EXCEPT !.repos = Append(@, [account |-> a])]
                   /\ Mean([meant EXCEPT !.repos = Append(@, [account |-> a])])
      BY <2>2 DEF PostBillRepository
    <3> QED BY <1>1, <1>5, <3>1
  <2>3. CASE CleanExpiredTokens
    <3> DEFINE Cleaned(d) == [d EXCEPT !.tokens = [t \in DOMAIN @ |-> IF t \in expired THEN Gone ELSE @[t]]]
    <3>1. db' = Cleaned(db) /\ Mean(Cleaned(meant))
      BY <2>3 DEF CleanExpiredTokens
    <3> HIDE DEF Cleaned
    <3> QED BY <1>1, <1>5, <3>1
  <2> QED BY <1>6, <2>1, <2>2, <2>3
<1>7. CASE Clean \/ Expire
  BY <1>1, <1>7 DEF Clean, Expire, history
<1>8. ASSUME NEW w \in Workers,
             \/ BeginNext(w) \/ BeginAccountRequest(w) \/ BeginTask(w)
             \/ BeginUserRequest(w) \/ BeginShareRequest(w)
      PROVE  UNCHANGED <<db, meant>>
  BY <1>8, BeginsNext, BeginsAccountRequest, BeginsTask, BeginsUserRequest, BeginsShareRequest DEF Begins
<1>9. ASSUME NEW w \in Workers, DeleteStatement(w) \/ Ingested(w) PROVE UNCHANGED <<db, meant>>
  BY <1>9 DEF DeleteStatement, Ingested, history
<1>10. CASE UNCHANGED vars
  BY <1>2, <1>10 DEF vars, history
<1> QED BY <1>2, <1>3, <1>4, <1>5, <1>6, <1>7, <1>8, <1>9, <1>10 DEF Next

LEMMA SerialStep ==
    ASSUME Core, SerialInv, [Next]_vars
    PROVE  SerialInv'
BY RolesStep, MeantStep DEF SerialInv, Unseen, Identified

\* The tables have their types, every request that is served has read a database that
\* was there, and while nothing raced and no statement failed they are the tables that
\* the same requests leave if each runs alone when it commits.
THEOREM TablesAreSerialHolds == Spec => []TablesAreSerial
<1>1. Init => Core /\ Ids /\ SerialInv
  BY CoreInit, IdsInit, SerialInit
<1>2. Core /\ Ids /\ SerialInv /\ [Next]_vars => (Core /\ Ids /\ SerialInv)'
  BY CoreStep, IdsStep, SerialStep
<1>3. Core /\ Ids /\ SerialInv => TablesAreSerial
  <2> SUFFICES ASSUME Core, Ids, SerialInv
               PROVE  TablesAreSerial
    OBVIOUS
  <2>1. \A w \in Busy : /\ req[w].b \in Tables
                        /\ req[w].r.kind \in Requests
                        /\ req[w].phase \in {"read", "uncommitted"}
                        /\ req[w].phase = "uncommitted" => req[w].r.kind = "delete"
    BY BusyServes DEF Serving, Situation, Served
  <2>2. {db, meant} \subseteq Tables /\ given \in 0 .. MaxExternals
    BY DEF Core, SerialInv
  <2> QED BY <2>1, <2>2 DEF TablesAreSerial, TypeOK, SerialUnlessRaced, Ids, SerialInv
<1> QED BY <1>1, <1>2, <1>3, PTL DEF Spec

-----------------------------------------------------------------------------
(* Tokens *)

\* What was excused remains so; how the history of the resets and of the sub accounts grows.
LEMMA HistorySteps ==
    ASSUME Core, [Next]_vars
    PROVE  /\ raced \subseteq raced' /\ failed \subseteq failed'
           /\ \/ UNCHANGED resets
              \/ \E w \in Busy : /\ Commit(w) \/ UpdateFails(w)
                                 /\ req[w].r.kind = "reset" /\ resets' = Append(resets, req[w].r.token)
           /\ \/ UNCHANGED puts
              \/ \E w \in Busy : /\ Commit(w) /\ req[w].r.kind = "put"
                                 /\ puts' = puts \cup (DOMAIN db'.accounts \ DOMAIN db.accounts)
<1>1. CASE UNCHANGED vars
  BY <1>1 DEF vars, history
<1>2. CASE Register \/ PostBillRepository \/ Clean \/ Expire \/ CleanExpiredTokens
  BY <1>2 DEF Register, OneStep, PostBillRepository, Clean, Expire, CleanExpiredTokens, Receive, history
<1>3. ASSUME NEW w \in Workers,
             \/ BeginNext(w) \/ BeginAccountRequest(w) \/ BeginTask(w)
             \/ BeginUserRequest(w) \/ BeginShareRequest(w)
      PROVE  raced \subseteq raced' /\ failed \subseteq failed' /\ UNCHANGED <<resets, puts>>
  BY <1>3, BeginsNext, BeginsAccountRequest, BeginsTask, BeginsUserRequest, BeginsShareRequest DEF Begins
<1>4. ASSUME NEW w \in Workers, DeleteStatement(w) \/ Ingested(w) \/ CommitDelete(w) \/ Rollback(w) \/ CommitFails(w)
      PROVE  raced \subseteq raced' /\ failed \subseteq failed' /\ UNCHANGED <<resets, puts>>
  BY <1>4 DEF DeleteStatement, Ingested, CommitDelete, Rollback, CommitFails, history
<1>5. ASSUME NEW w \in Workers, UpdateFails(w)
      PROVE  /\ raced \subseteq raced' /\ failed \subseteq failed' /\ UNCHANGED puts /\ w \in Busy
             /\ \/ UNCHANGED resets
                \/ req[w].r.kind = "reset" /\ resets' = Append(resets, req[w].r.token)
  BY <1>5 DEF UpdateFails
<1>6. ASSUME NEW w \in Workers, Commit(w)
      PROVE  /\ UNCHANGED <<raced, failed>> /\ w \in Busy
             /\ \/ UNCHANGED resets
                \/ req[w].r.kind = "reset" /\ resets' = Append(resets, req[w].r.token)
             /\ \/ UNCHANGED puts
                \/ req[w].r.kind = "put" /\ puts' = puts \cup (DOMAIN db'.accounts \ DOMAIN db.accounts)
  BY <1>6 DEF Commit
<1> QED BY <1>1, <1>2, <1>3, <1>4, <1>5, <1>6 DEF Next

\* A token that has changed a password is gone.
Used == \A t \in ToSet(resets) : t \notin Live(db.tokens) \/ Excused(<<"token", t>>)

LEMMA TokensInit == ASSUME Init PROVE Used /\ TokenOnce
<1>1. resets = <<>> /\ ToSet(<<>>) = {} /\ DOMAIN <<>> = {}
  BY DEF Init, ToSet
<1> QED BY <1>1 DEF Used, TokenOnce

\* A reset whose token was used before has raced with the other one.
LEMMA ResetAgain ==
    ASSUME Core, Ids, Used, NEW w \in Busy, req[w].r.kind = "reset", req[w].r.token \in ToSet(resets)
    PROVE  Excused(<<"token", req[w].r.token>>)
<1> DEFINE q == req[w]
           t == q.r.token
<1> SUFFICES ASSUME ~Excused(<<"token", t>>)
             PROVE  FALSE
  OBVIOUS
<1>1. t \notin Live(db.tokens)
  BY DEF Used
<1>2. Serving(q, db, raced) /\ Situation(q.b, db, q.r)
  BY BusyServes
<1>3. <<"token", t>> \in q.relies /\ t \in DOMAIN q.b.tokens /\ t \in DOMAIN db.tokens
  BY ResetToken
<1>4. Same(q.b, db, <<"token", t>>)
  BY <1>2, <1>3 DEF Serving, Excused
<1>5. db.tokens[t] = q.b.tokens[t]
  BY <1>3, <1>4 DEF Same
<1>6. t \in Live(q.b.tokens)
  BY <1>2 DEF Situation, Valid
<1> QED BY <1>1, <1>3, <1>5, <1>6 DEF Live

LEMMA TokensStep ==
    ASSUME Core, Ids, Used, TokenOnce, [Next]_vars
    PROVE  Used' /\ TokenOnce'
<1>1. raced \cup failed \subseteq raced' \cup failed'
  BY HistorySteps
<1>2. \A t \in ToSet(resets) : t \notin Live(db'.tokens) \/ Excused(<<"token", t>>)
  <2>1. Older(db, db') /\ ToSet(resets) \subseteq DOMAIN db.tokens
    BY Grows DEF Ids
  <2> QED BY <2>1 DEF Used, Older
<1>3. CASE UNCHANGED resets
  BY <1>1, <1>2, <1>3 DEF Used, TokenOnce, Excused
<1>4. ASSUME NEW w \in Busy, Commit(w) \/ UpdateFails(w),
             req[w].r.kind = "reset", resets' = Append(resets, req[w].r.token)
      PROVE  Used' /\ TokenOnce'
  <2> DEFINE t == req[w].r.token
  <2>1. t \in DOMAIN db.tokens /\ t \in Nat /\ <<"token", t>> \in req[w].relies
    BY <1>4, ResetToken
  <2>2. resets \in Seq(Nat)
    BY DEF Ids
  <2>3. /\ DOMAIN resets' = DOMAIN resets \cup {Len(resets) + 1} /\ Len(resets) + 1 \notin DOMAIN resets
        /\ resets'[Len(resets) + 1] = t /\ \A j \in DOMAIN resets : resets'[j] = resets[j]
    BY <1>4, <2>1, <2>2, AddRow
  <2>4. ToSet(resets') = ToSet(resets) \cup {t}
    BY <1>4, <2>1, <2>2, AppendToSet, SMTT(60)
  <2>5. t \notin Live(db'.tokens) \/ <<"token", t>> \in raced' \cup failed'
    <3>1. CASE UpdateFails(w)
      BY <2>1, <3>1 DEF UpdateFails
    <3>2. CASE Commit(w) /\ db' # db
      <4>1. db' = ResetPassword(req[w].b, db, req[w].r) /\ db' # db
        BY <1>4, <3>2 DEF Commit, Handled
      <4> DEFINE b == req[w].b
                 r == req[w].r
                 e == WriteUser(db, r.user, [b.users[r.user] EXCEPT !.auth = r.password])
      <4>2. db' = [e EXCEPT !.tokens[t] = Gone]
        BY <4>1 DEF ResetPassword
      <4>3. e.tokens = db.tokens /\ e = [db EXCEPT !.users[r.user] = [b.users[r.user] EXCEPT !.auth = r.password]]
        BY DEF WriteUser, Core, Tables
      <4>4. "tokens" \in DOMAIN e
        BY <4>3 DEF Core, Tables
      <4> HIDE DEF e
      <4>5. db'.tokens = [db.tokens EXCEPT ![t] = Gone]
        BY <4>2, <4>3, <4>4
      <4> QED BY <2>1, <4>5 DEF Live
    <3>3. CASE Commit(w) /\ db' = db
      BY <1>4, <2>2, <2>3, <3>3 DEF Commit
    <3> QED BY <1>4, <3>1, <3>2, <3>3
  <2>6. Used'
    BY <1>1, <1>2, <2>4, <2>5 DEF Used, Excused
  <2>7. t \in ToSet(resets) => Excused(<<"token", t>>)
    BY <1>4, ResetAgain
  <2>8. TokenOnce'
    <3> SUFFICES ASSUME NEW i \in DOMAIN resets', NEW j \in DOMAIN resets', i # j, resets'[i] = resets'[j]
                 PROVE  <<"token", resets'[i]>> \in raced' \cup failed'
      BY DEF TokenOnce, Excused
    <3>1. CASE i \in DOMAIN resets /\ j \in DOMAIN resets
      BY <1>1, <2>3, <3>1 DEF TokenOnce, Excused
    <3>2. CASE i \notin DOMAIN resets \/ j \notin DOMAIN resets
      <4>1. resets'[i] = t /\ t \in {resets[k] : k \in DOMAIN resets}
        BY <2>3, <3>2
      <4>2. t \in ToSet(resets)
        BY <4>1 DEF ToSet
      <4> QED BY <1>1, <2>7, <4>1, <4>2 DEF Excused
    <3> QED BY <3>1, <3>2
  <2> QED BY <2>6, <2>8
<1> QED BY <1>3, <1>4, HistorySteps

\* A token changes a password once, unless two requests use it at the same time, or its
\* DELETE or the COMMIT fails and nobody notices.
THEOREM TokenOnceHolds == Spec => []TokenOnce
<1>1. Init => Core /\ Ids /\ Used /\ TokenOnce
  BY CoreInit, IdsInit, TokensInit
<1>2. Core /\ Ids /\ Used /\ TokenOnce /\ [Next]_vars => (Core /\ Ids /\ Used /\ TokenOnce)'
  BY CoreStep, IdsStep, TokensStep
<1> QED BY <1>1, <1>2, PTL DEF Spec

-----------------------------------------------------------------------------
(* Shares *)

\* The tables change in a commit, in an UPDATE that fails or in a request of one step.
LEMMA Writers ==
    ASSUME Core, [Next]_vars, db' # db
    PROVE  \/ \E w \in Busy : /\ Commit(w) \/ CommitDelete(w)
                              /\ db' = Handled(req[w].b, db, req[w].r) /\ req' = [req EXCEPT ![w] = Idle]
           \/ \E w \in Busy : /\ UpdateFails(w) /\ req[w].r.kind \in {"subaccount", "reset"}
                              /\ Moves(req[w].b, db, db', req[w].r) /\ req' = [req EXCEPT ![w] = Idle]
           \/ \E r, rel : AtOnce(r, rel)
<1>1. ASSUME NEW w \in Workers, Commit(w) \/ CommitDelete(w)
      PROVE  w \in Busy /\ db' = Handled(req[w].b, db, req[w].r) /\ req' = [req EXCEPT ![w] = Idle]
  BY <1>1 DEF Commit, CommitDelete, Finish
<1>2. ASSUME NEW w \in Workers, UpdateFails(w)
      PROVE  /\ w \in Busy /\ req[w].r.kind \in {"subaccount", "reset"} /\ Moves(req[w].b, db, db', req[w].r)
             /\ req' = [req EXCEPT ![w] = Idle]
  BY <1>2, UpdateFailsAnswers DEF UpdateFails, Answers
<1>3. ASSUME NEW w \in Workers, Rollback(w) \/ CommitFails(w) \/ DeleteStatement(w) \/ Ingested(w)
      PROVE  db' = db
  BY <1>3 DEF Rollback, CommitFails, DeleteStatement, Ingested
<1>4. ASSUME NEW w \in Workers,
             \/ BeginNext(w) \/ BeginAccountRequest(w) \/ BeginTask(w)
             \/ BeginUserRequest(w) \/ BeginShareRequest(w)
      PROVE  db' = db
  BY <1>4, BeginsNext, BeginsAccountRequest, BeginsTask, BeginsUserRequest, BeginsShareRequest DEF Begins
<1>5. CASE Register \/ PostBillRepository \/ CleanExpiredTokens
  BY <1>5, RegisterAtOnce, PostBillRepositoryAtOnce, CleanExpiredTokensAtOnce
<1>6. ~(Clean \/ Expire \/ UNCHANGED vars)
  BY DEF Clean, Expire, vars
<1> QED BY <1>1, <1>2, <1>3, <1>4, <1>5, <1>6 DEF Next

\* Only an invitation adds a share.
LEMMA NewShares ==
    ASSUME Core, [Next]_vars, NEW s \in DOMAIN db'.shares, s \notin DOMAIN db.shares
    PROVE  \E w \in Busy : /\ req[w].r.kind = "invite" /\ Commit(w)
                           /\ db' = InviteUser(req[w].b, db, req[w].r)
<1>1. db' # db
  OBVIOUS
<1>2. ASSUME NEW b, NEW r, Moves(b, db, db', r)
      PROVE  r.kind = "invite"
  BY <1>2 DEF Moves, SharesMove
<1>3. ASSUME NEW w \in Busy, Commit(w) \/ CommitDelete(w), db' = Handled(req[w].b, db, req[w].r)
      PROVE  req[w].r.kind = "invite" /\ Commit(w) /\ db' = InviteUser(req[w].b, db, req[w].r)
  <2>1. w \in Workers
    BY DEF Busy
  <2>2. Moves(req[w].b, db, db', req[w].r)
    BY <1>3, <2>1, CommitAnswers DEF Answers
  <2>3. req[w].r.kind = "invite"
    BY <1>2, <2>2
  <2>4. Serving(req[w], db, raced)
    BY BusyServes
  <2> QED BY <1>3, <2>3, <2>4 DEF Handled, Serving, CommitDelete
<1>4. ASSUME NEW r, NEW rel, AtOnce(r, rel)
      PROVE  FALSE
  BY <1>2, <1>4 DEF AtOnce
<1> QED BY <1>1, <1>2, <1>3, <1>4, Writers

\* A guest is invited if there is no share in the snapshot.
LEMMA InviteShares ==
    ASSUME NEW b, NEW d, NEW r, Situation(b, d, r), r.kind = "invite"
    PROVE  \/ InviteUser(b, d, r).shares = d.shares
           \/ \E u \in Nat :
                /\ InviteUser(b, d, r).shares =
                      Append(d.shares, [account |-> r.account, user |-> u, level |-> r.level])
                /\ Rights(b, u, r.account) = {} \/ u \notin DOMAIN d.users
<1> DEFINE e == InviteUser(b, d, r)
           guests == WithEmail(b, r.email)
           guest  == CHOOSE u \in guests : TRUE
           new    == Len(d.users) + 1
           row(u) == [account |-> r.account, user |-> u, level |-> r.level]
<1>1. d \in Tables /\ b \in Tables
  BY DEF Situation
<1>2. d.users \in Seq(User) /\ b.users \in Seq(User)
  BY <1>1, TableTypes
<1>3. new \in Nat /\ new \notin DOMAIN d.users
  BY <1>2
<1>4. \A u : /\ ShareWith(d, r.account, u, r.level).shares = Append(d.shares, row(u))
             /\ ShareWith(d, r.account, u, r.level) = [d EXCEPT !.shares = Append(d.shares, row(u))]
  BY <1>1 DEF ShareWith, Tables
<1>5. CASE ~MayInvite(b, r.user, r.account, r.level) \/ r.account \notin Live(d.accounts)
  BY <1>5 DEF InviteUser
<1>6. CASE MayInvite(b, r.user, r.account, r.level) /\ r.account \in Live(d.accounts) /\ guests # {}
  <2>1. guest \in guests
    BY <1>6
  <2>2. guest \in Nat
    <3>1. guest \in DOMAIN b.users
      BY <2>1 DEF WithEmail
    <3>2. \A R, t : t \in Seq(R) => DOMAIN t \subseteq Nat
      OBVIOUS
    <3> QED BY <1>2, <3>1, <3>2
  <2>3. e = d \/ (~AlreadyShared(b, r.account, guest) /\ e = ShareWith(d, r.account, guest, r.level))
    BY <1>6 DEF InviteUser
  <2>4. ~AlreadyShared(b, r.account, guest) => Rights(b, guest, r.account) = {}
    BY DEF AlreadyShared
  <2> HIDE DEF guest, e
  <2> QED BY <1>4, <2>2, <2>3, <2>4 DEF e
<1>7. CASE MayInvite(b, r.user, r.account, r.level) /\ r.account \in Live(d.accounts) /\ guests = {}
  <2> DEFINE x == ShareWith(d, r.account, new, r.level)
  <2>1. e = d \/ e = [x EXCEPT !.users  = Append(@, NewUser(r.email, CHOOSE p \in Passwords : TRUE, None)),
                               !.tokens = Append(@, [user |-> new])]
    BY <1>7 DEF InviteUser
  <2>2. x.shares = Append(d.shares, row(new))
    BY <1>4
  <2>3. x = [d EXCEPT !.shares = Append(d.shares, row(new))]
    BY <1>4
  <2>4. "shares" \in DOMAIN x
    BY <1>1, <2>3 DEF Tables
  <2> HIDE DEF x, e, new
  <2>5. e = d \/ e.shares = Append(d.shares, row(new))
    BY <2>1, <2>2, <2>4
  <2> QED BY <1>3, <2>5 DEF e
<1> QED BY <1>5, <1>6, <1>7

LEMMA ShareOnceStep ==
    ASSUME Core, ShareOnce, [Next]_vars
    PROVE  ShareOnce'
<1>1. raced \cup failed \subseteq raced' \cup failed' /\ Older(db, db')
  BY HistorySteps, Grows
<1>2. \A s \in DOMAIN db.shares \cap Live(db'.shares) :
        /\ s \in Live(db.shares) /\ db'.shares[s].account = db.shares[s].account
        /\ db'.shares[s].user = db.shares[s].user
  BY <1>1 DEF Older
<1>3. \A s, t \in DOMAIN db.shares \cap Live(db'.shares) :
        s # t /\ db'.shares[s].account = db'.shares[t].account /\ db'.shares[s].user = db'.shares[t].user
        => Excused(<<"shares", db'.shares[s].account>>)
  BY <1>2 DEF ShareOnce
<1>4. CASE \E s \in DOMAIN db'.shares : s \notin DOMAIN db.shares
  <2>1. PICK w \in Busy : /\ req[w].r.kind = "invite" /\ Commit(w)
                          /\ db' = InviteUser(req[w].b, db, req[w].r)
    BY <1>4, NewShares
  <2> DEFINE q == req[w]
             a == q.r.account
  <2>2. Serving(q, db, raced) /\ Situation(q.b, db, q.r)
    BY BusyServes
  <2>3. <<"shares", a>> \in q.relies /\ a \in DOMAIN q.b.accounts
    BY <2>1, <2>2 DEF Serving, Relies, Situation, Valid, Live
  <2>4. PICK u \in Nat : /\ db'.shares = Append(db.shares, [account |-> a, user |-> u, level |-> q.r.level])
                         /\ Rights(q.b, u, a) = {} \/ u \notin DOMAIN db.users
    <3>1. db'.shares # db.shares
      BY <1>4
    <3> QED BY <2>1, <2>2, <3>1, InviteShares
  <2> DEFINE row == [account |-> a, user |-> u, level |-> q.r.level]
             n == Len(db.shares) + 1
  <2>5. db.shares \in Seq(Share \cup {Gone}) /\ db'.shares \in Seq(Share \cup {Gone})
    BY CoreStep, TableTypes DEF Core, Table
  <2>6. row.account = a /\ row.user = u
    OBVIOUS
  <2> HIDE DEF row, a, q
  <2>7. /\ DOMAIN db'.shares = DOMAIN db.shares \cup {n} /\ n \notin DOMAIN db.shares
        /\ db'.shares[n] = row
    BY <2>4, <2>5 DEF row
  <2>8. ASSUME NEW s \in DOMAIN db.shares, s \in Live(db'.shares),
               db'.shares[s].account = a, db'.shares[s].user = u
        PROVE  Excused(<<"shares", a>>)
    <3> SUFFICES ASSUME ~Excused(<<"shares", a>>)
                 PROVE  FALSE
      OBVIOUS
    <3>1. s \in Live(db.shares) /\ db.shares[s].account = a /\ db.shares[s].user = u
      BY <1>2, <2>8
    <3>2. u \in DOMAIN db.users
      BY <3>1 DEF Core, Linked
    <3>3. Same(q.b, db, <<"shares", a>>)
      BY <2>2, <2>3 DEF Serving, Excused
    <3>4. Rights(db, u, a) = {}
      BY <2>3, <2>4, <3>2, <3>3, SameRights
    <3>5. s \in {x \in SharesOf(db, u) : db.shares[x].account = a}
      BY <3>1 DEF SharesOf
    <3> QED BY <3>4, <3>5 DEF Rights
  <2>9. ShareOnce'
    <3> SUFFICES ASSUME NEW s \in Live(db'.shares), NEW t \in Live(db'.shares), s # t,
                        db'.shares[s].account = db'.shares[t].account, db'.shares[s].user = db'.shares[t].user
                 PROVE  Excused(<<"shares", db'.shares[s].account>>)
      BY <1>1 DEF ShareOnce, Excused
    <3>1. s \in DOMAIN db'.shares /\ t \in DOMAIN db'.shares
      BY DEF Live
    <3>2. CASE s \in DOMAIN db.shares /\ t \in DOMAIN db.shares
      BY <1>3, <3>2
    <3>3. CASE s = n
      BY <2>6, <2>7, <2>8, <3>1, <3>3
    <3>4. CASE t = n
      BY <2>6, <2>7, <2>8, <3>1, <3>4
    <3> QED BY <2>7, <3>1, <3>2, <3>3, <3>4
  <2> QED BY <2>9
<1>5. CASE ~\E s \in DOMAIN db'.shares : s \notin DOMAIN db.shares
  <2>1. Live(db'.shares) \subseteq DOMAIN db.shares \cap Live(db'.shares)
    BY <1>5 DEF Live
  <2> QED BY <1>1, <1>3, <2>1 DEF ShareOnce, Excused
<1> QED BY <1>4, <1>5

\* An account is shared with a guest once, unless two requests change its shares at the
\* same time, or a failure is ignored.
THEOREM ShareOnceHolds == Spec => []ShareOnce
<1>1. Init => Core /\ ShareOnce
  BY CoreInit, DatabasesAssumption DEF Init, SharedOnce, ShareOnce
<1>2. Core /\ ShareOnce /\ [Next]_vars => (Core /\ ShareOnce)'
  BY CoreStep, ShareOnceStep
<1> QED BY <1>1, <1>2, PTL DEF Spec

-----------------------------------------------------------------------------
(* External ids *)

\* In the databases V, of which d is the current one, an external id is the next one of one
\* user or that of one account, unless the user is excused by X.
Placed(V, d, X) == \A x, y \in V :
    /\ \A u \in DOMAIN x.users : x.users[u].external \in External =>
        /\ \A v \in DOMAIN y.users : y.users[v].external = x.users[u].external => u = v
        /\ \A a \in Live(y.accounts) : y.accounts[a].external = x.users[u].external =>
                y.accounts[a].owner = u /\ (x = d => <<"user", u>> \in X)
    /\ \A a \in Live(x.accounts), c \in Live(y.accounts) :
        a # c /\ x.accounts[a].external = y.accounts[c].external /\ x.accounts[a].external \in External
        => <<"user", x.accounts[a].owner>> \in X

LEMMA PlacedLess ==
    ASSUME NEW V, NEW V2, NEW d, NEW X, NEW X2, V2 \subseteq V, X \subseteq X2, Placed(V, d, X)
    PROVE  Placed(V2, d, X2)
BY DEF Placed

\* Where the next external id of a user comes from: the database as it was, a snapshot that
\* is stale, or generateExternal.
LEMMA UserSource ==
    ASSUME NEW b, NEW d, NEW e, NEW r, NEW X, Situation(b, d, r), Moves(b, d, e, r),
           r.kind \in UserKinds => d.users[r.user] = b.users[r.user] \/ <<"user", r.user>> \in X,
           NEW u \in DOMAIN e.users, e.users[u].external \in External
    PROVE  \/ u \in DOMAIN d.users /\ d.users[u].external = e.users[u].external
           \/ /\ u \in DOMAIN b.users /\ b.users[u].external = e.users[u].external
              /\ <<"user", u>> \in X
           \/ r.kind = "next" /\ u = r.user /\ e.users[u].external = r.fresh
<1>1. None \notin External
  BY AccountsAssumption DEF External
<1>2. UsersMove(b, d, e, r)
  BY DEF Moves
<1>3. u \in DOMAIN d.users
  BY <1>1, <1>2 DEF UsersMove
<1>4. CASE e.users[u] = d.users[u]
  BY <1>3, <1>4
<1>5. CASE e.users[u] # d.users[u]
  <2>1. /\ r.kind \in UserKinds /\ u = r.user
        /\ \/ e.users[u].external \in {b.users[u].external, None}
           \/ r.kind = "next" /\ e.users[u].external = r.fresh
    BY <1>2, <1>3, <1>5 DEF UsersMove
  <2>2. u \in DOMAIN b.users
    BY <2>1 DEF Situation, Valid
  <2> QED BY <1>1, <1>3, <2>1, <2>2
<1> QED BY <1>4, <1>5

\* Where the external id of an account comes from: the database, a snapshot, or the next one
\* of the user, which is spent.
LEMMA AccountSource ==
    ASSUME NEW b, NEW d, NEW e, NEW r, Situation(b, d, r), Moves(b, d, e, r),
           NEW a \in Live(e.accounts), e.accounts[a].external \in External
    PROVE  \/ \E s \in {b, d} : /\ a \in Live(s.accounts)
                                /\ s.accounts[a].external = e.accounts[a].external
                                /\ s.accounts[a].owner = e.accounts[a].owner
           \/ /\ Spent(b, e, r) /\ e.accounts[a].external = r.external /\ e.accounts[a].owner = r.user
              /\ \/ r.kind = "subaccount" /\ a = r.account
                 \/ r.kind = "post" /\ a \notin DOMAIN d.accounts
<1>1. None \notin External /\ FromConfig \notin External
  BY AccountsAssumption DEF External, FromConfig
<1>2. a \in DOMAIN e.accounts /\ e.accounts[a] # Gone /\ AccountsMove(b, d, e, r)
  BY DEF Moves, Live
<1>3. CASE a \notin DOMAIN d.accounts
  <2>1. AccountAdded(b, d, e, r, a)
    BY <1>2, <1>3 DEF AccountsMove
  <2> QED BY <1>1, <1>3, <2>1 DEF AccountAdded
<1>4. CASE a \in DOMAIN d.accounts /\ e.accounts[a] = d.accounts[a]
  <2>1. a \in Live(d.accounts)
    BY <1>2, <1>4 DEF Live
  <2> QED BY <1>4, <2>1
<1>5. CASE a \in DOMAIN d.accounts /\ e.accounts[a] # d.accounts[a]
  <2>1. AccountWritten(b, d, e, r, a)
    BY <1>2, <1>5 DEF AccountsMove
  <2>2. a \in Live(b.accounts) /\ Touches(b, r, a) /\ e.accounts[a].owner = b.accounts[a].owner
    BY <2>1 DEF AccountWritten
  <2>3. CASE e.accounts[a].external = b.accounts[a].external
    BY <2>2, <2>3
  <2>4. CASE r.kind = "subaccount" /\ Spent(b, e, r) /\ e.accounts[a].external = r.external
    <3>1. a = r.account /\ Owns(b, r.user, a)
      BY <2>2, <2>4 DEF Touches
    <3> QED BY <2>2, <2>4, <3>1 DEF Owns, AccountsOf
  <2> QED BY <2>1, <2>3, <2>4 DEF AccountWritten
<1> QED BY <1>3, <1>4, <1>5

LEMMA ExternalsMove ==
    ASSUME NEW b, NEW d, NEW e, NEW r, Situation(b, d, r), Moves(b, d, e, r)
    PROVE  \A i \in Externals(e) :
              i \in Externals(b) \/ i \in Externals(d) \/ (r.kind = "next" /\ i = r.fresh)
<1> SUFFICES ASSUME NEW i \in Externals(e)
             PROVE  i \in Externals(b) \/ i \in Externals(d) \/ (r.kind = "next" /\ i = r.fresh)
  OBVIOUS
<1>1. i \in External
  BY DEF Externals
<1>2. CASE \E u \in DOMAIN e.users : i = e.users[u].external
  <2>1. PICK u \in DOMAIN e.users : i = e.users[u].external
    BY <1>2
  <2> DEFINE X == {<<"user", r.user>>}
  <2>2. \/ u \in DOMAIN d.users /\ d.users[u].external = e.users[u].external
        \/ u \in DOMAIN b.users /\ b.users[u].external = e.users[u].external
        \/ r.kind = "next" /\ e.users[u].external = r.fresh
    <3>1. r.kind \in UserKinds => d.users[r.user] = b.users[r.user] \/ <<"user", r.user>> \in X
      OBVIOUS
    <3>2. e.users[u].external \in External
      BY <1>1, <2>1
    <3> HIDE DEF X
    <3>3. \/ u \in DOMAIN d.users /\ d.users[u].external = e.users[u].external
          \/ /\ u \in DOMAIN b.users /\ b.users[u].external = e.users[u].external
             /\ <<"user", u>> \in X
          \/ r.kind = "next" /\ u = r.user /\ e.users[u].external = r.fresh
      BY <3>1, <3>2, UserSource
    <3> QED BY <3>3
  <2> QED BY <1>1, <2>1, <2>2 DEF Externals
<1>3. CASE \E a \in Live(e.accounts) : i = e.accounts[a].external
  <2>1. PICK a \in Live(e.accounts) : i = e.accounts[a].external
    BY <1>3
  <2>2. CASE \E s \in {b, d} : a \in Live(s.accounts) /\ s.accounts[a].external = e.accounts[a].external
    BY <1>1, <2>1, <2>2 DEF Externals
  <2>3. CASE Spent(b, e, r) /\ e.accounts[a].external = r.external
    <3>1. r.user \in DOMAIN b.users /\ b.users[r.user].external = i
      BY <2>1, <2>3 DEF Spent, Situation, Valid, UserKinds
    <3> QED BY <1>1, <3>1 DEF Externals
  <2> QED BY <1>1, <2>1, <2>2, <2>3, AccountSource
<1> QED BY <1>2, <1>3 DEF Externals

\* A request that ends leaves the external ids in their places.
LEMMA PlacedMoves ==
    ASSUME NEW V, NEW X, NEW b \in V, NEW d \in V, NEW e, NEW r,
           Situation(b, d, r), Moves(b, d, e, r), Placed(V, d, X),
           r.kind \in UserKinds => d.users[r.user] = b.users[r.user] \/ <<"user", r.user>> \in X,
           r.kind = "next" => \A x \in V : r.fresh \notin Externals(x),
           r.kind = "post" => \A a, c \in DOMAIN e.accounts \ DOMAIN d.accounts : a = c
    PROVE  Placed(V \cup {e}, e, X)
<1> DEFINE FreshUser(x, u) == x = e /\ r.kind = "next" /\ u = r.user /\ x.users[u].external = r.fresh
           SpentAccount(x, a) ==
               /\ x = e /\ Spent(b, e, r) /\ x.accounts[a].external = r.external /\ x.accounts[a].owner = r.user
               /\ \/ r.kind = "subaccount" /\ a = r.account
                  \/ r.kind = "post" /\ a \notin DOMAIN d.accounts
           UserIn(x, u, s) ==
               /\ u \in DOMAIN s.users /\ s.users[u].external = x.users[u].external
               /\ x = e => s = d \/ <<"user", u>> \in X
           AccountIn(x, a, s) ==
               /\ a \in Live(s.accounts) /\ s.accounts[a].external = x.accounts[a].external
               /\ s.accounts[a].owner = x.accounts[a].owner
<1>1. ASSUME NEW x \in V \cup {e}, NEW u \in DOMAIN x.users, x.users[u].external \in External
      PROVE  FreshUser(x, u) \/ \E s \in V : UserIn(x, u, s)
  <2>1. CASE x = e
    <3>1. \/ u \in DOMAIN d.users /\ d.users[u].external = e.users[u].external
          \/ /\ u \in DOMAIN b.users /\ b.users[u].external = e.users[u].external
             /\ <<"user", u>> \in X
          \/ r.kind = "next" /\ u = r.user /\ e.users[u].external = r.fresh
      BY <1>1, <2>1, UserSource
    <3> QED BY <2>1, <3>1
  <2>2. CASE x # e
    BY <2>2
  <2> QED BY <2>1, <2>2
<1>2. ASSUME NEW x \in V \cup {e}, NEW a \in Live(x.accounts), x.accounts[a].external \in External
      PROVE  SpentAccount(x, a) \/ \E s \in V : AccountIn(x, a, s)
  <2>1. CASE x = e
    <3>1. \/ \E s \in {b, d} : /\ a \in Live(s.accounts)
                               /\ s.accounts[a].external = e.accounts[a].external
                               /\ s.accounts[a].owner = e.accounts[a].owner
          \/ /\ Spent(b, e, r) /\ e.accounts[a].external = r.external /\ e.accounts[a].owner = r.user
             /\ \/ r.kind = "subaccount" /\ a = r.account
                \/ r.kind = "post" /\ a \notin DOMAIN d.accounts
      BY <1>2, <2>1, AccountSource
    <3> QED BY <2>1, <3>1
  <2>2. CASE x # e
    BY <2>2
  <2> QED BY <2>1, <2>2
<1>3. ASSUME Spent(b, e, r)
      PROVE  /\ r.kind \in {"post", "subaccount"} /\ r.kind \in UserKinds
             /\ r.user \in DOMAIN b.users /\ b.users[r.user].external = r.external
             /\ r.external \in External /\ e.users[r.user].external = None
  BY <1>3 DEF Spent, Situation, Valid, UserKinds
<1>4. None \notin External
  BY AccountsAssumption DEF External
<1>5. ASSUME r.kind = "next", NEW s \in V
      PROVE  /\ r.fresh \in External
             /\ \A u \in DOMAIN s.users : s.users[u].external # r.fresh
             /\ \A a \in Live(s.accounts) : s.accounts[a].external # r.fresh
  <2>1. r.fresh \in External /\ r.fresh \notin Externals(s)
    BY <1>5 DEF Situation, Valid
  <2> QED BY <2>1 DEF Externals
<1>6. ASSUME Spent(b, e, r), NEW s \in V, NEW a \in Live(s.accounts), s.accounts[a].external = r.external
      PROVE  s.accounts[a].owner = r.user /\ <<"user", r.user>> \in X
  <2>1. s.accounts[a].owner = r.user
    BY <1>3, <1>6 DEF Placed
  <2>2. CASE d.users[r.user] = b.users[r.user]
    <3>1. r.user \in DOMAIN d.users
      BY <1>3, <1>6 DEF Situation, Older
    <3> QED BY <1>3, <1>6, <2>1, <2>2, <3>1 DEF Placed
  <2> QED BY <1>3, <1>6, <2>1, <2>2
<1> SUFFICES ASSUME NEW x \in V \cup {e}, NEW y \in V \cup {e}
             PROVE  /\ \A u \in DOMAIN x.users : x.users[u].external \in External =>
                        /\ \A v \in DOMAIN y.users : y.users[v].external = x.users[u].external => u = v
                        /\ \A a \in Live(y.accounts) : y.accounts[a].external = x.users[u].external =>
                                y.accounts[a].owner = u /\ (x = e => <<"user", u>> \in X)
                    /\ \A a \in Live(x.accounts), c \in Live(y.accounts) :
                        a # c /\ x.accounts[a].external = y.accounts[c].external /\ x.accounts[a].external \in External
                        => <<"user", x.accounts[a].owner>> \in X
  BY DEF Placed
<1>7. ASSUME NEW u \in DOMAIN x.users, x.users[u].external \in External,
             NEW v \in DOMAIN y.users, y.users[v].external = x.users[u].external
      PROVE  u = v
  <2>1. FreshUser(x, u) \/ \E s \in V : UserIn(x, u, s)
    BY <1>1, <1>7
  <2>2. FreshUser(y, v) \/ \E s \in V : UserIn(y, v, s)
    BY <1>1, <1>7
  <2>3. CASE FreshUser(x, u) /\ FreshUser(y, v)
    BY <2>3
  <2>4. CASE FreshUser(x, u) /\ ~FreshUser(y, v)
    BY <1>5, <1>7, <2>2, <2>4
  <2>5. CASE ~FreshUser(x, u) /\ FreshUser(y, v)
    BY <1>5, <1>7, <2>1, <2>5
  <2>6. CASE ~FreshUser(x, u) /\ ~FreshUser(y, v)
    <3>1. PICK s1 \in V : UserIn(x, u, s1)
      BY <2>1, <2>6
    <3>2. PICK s2 \in V : UserIn(y, v, s2)
      BY <2>2, <2>6
    <3> QED BY <1>7, <3>1, <3>2 DEF Placed
  <2> QED BY <2>3, <2>4, <2>5, <2>6
<1>8. ASSUME NEW u \in DOMAIN x.users, x.users[u].external \in External,
             NEW a \in Live(y.accounts), y.accounts[a].external = x.users[u].external
      PROVE  y.accounts[a].owner = u /\ (x = e => <<"user", u>> \in X)
  <2>1. FreshUser(x, u) \/ \E s \in V : UserIn(x, u, s)
    BY <1>1, <1>8
  <2>2. SpentAccount(y, a) \/ \E s \in V : AccountIn(y, a, s)
    BY <1>2, <1>8
  <2>3. CASE FreshUser(x, u) /\ SpentAccount(y, a)
    BY <1>3, <2>3
  <2>4. CASE FreshUser(x, u) /\ ~SpentAccount(y, a)
    <3>1. PICK s \in V : AccountIn(y, a, s)
      BY <2>2, <2>4
    <3> QED BY <1>5, <1>8, <2>4, <3>1
  <2>5. CASE ~FreshUser(x, u) /\ SpentAccount(y, a)
    <3>1. PICK s \in V : UserIn(x, u, s)
      BY <2>1, <2>5
    <3>2. u = r.user
      BY <1>3, <1>8, <2>5, <3>1 DEF Placed
    <3>3. x # e
      BY <1>3, <1>4, <1>8, <2>5, <3>2
    <3> QED BY <2>5, <3>2, <3>3
  <2>6. CASE ~FreshUser(x, u) /\ ~SpentAccount(y, a)
    <3>1. PICK s1 \in V : UserIn(x, u, s1)
      BY <2>1, <2>6
    <3>2. PICK s2 \in V : AccountIn(y, a, s2)
      BY <2>2, <2>6
    <3>3. s2.accounts[a].owner = u /\ (s1 = d => <<"user", u>> \in X)
      BY <1>8, <3>1, <3>2 DEF Placed
    <3> QED BY <3>1, <3>2, <3>3
  <2> QED BY <2>3, <2>4, <2>5, <2>6
<1>9. ASSUME NEW a \in Live(x.accounts), NEW c \in Live(y.accounts), a # c,
             x.accounts[a].external = y.accounts[c].external, x.accounts[a].external \in External
      PROVE  <<"user", x.accounts[a].owner>> \in X
  <2>1. SpentAccount(x, a) \/ \E s \in V : AccountIn(x, a, s)
    BY <1>2, <1>9
  <2>2. SpentAccount(y, c) \/ \E s \in V : AccountIn(y, c, s)
    BY <1>2, <1>9
  <2>3. CASE SpentAccount(x, a) /\ SpentAccount(y, c)
    <3>1. a \in DOMAIN e.accounts /\ c \in DOMAIN e.accounts
      BY <2>3 DEF Live
    <3> QED BY <1>9, <2>3, <3>1
  <2>4. CASE SpentAccount(x, a) /\ ~SpentAccount(y, c)
    <3>1. PICK s \in V : AccountIn(y, c, s)
      BY <2>2, <2>4
    <3> QED BY <1>6, <1>9, <2>4, <3>1
  <2>5. CASE ~SpentAccount(x, a) /\ SpentAccount(y, c)
    <3>1. PICK s \in V : AccountIn(x, a, s)
      BY <2>1, <2>5
    <3> QED BY <1>6, <1>9, <2>5, <3>1
  <2>6. CASE ~SpentAccount(x, a) /\ ~SpentAccount(y, c)
    <3>1. PICK s1 \in V : AccountIn(x, a, s1)
      BY <2>1, <2>6
    <3>2. PICK s2 \in V : AccountIn(y, c, s2)
      BY <2>2, <2>6
    <3>3. s1.accounts[a].external = s2.accounts[c].external /\ s1.accounts[a].external \in External
      BY <1>9, <3>1, <3>2
    <3>4. <<"user", s1.accounts[a].owner>> \in X
      BY <1>9, <3>1, <3>2, <3>3 DEF Placed
    <3> QED BY <3>1, <3>4
  <2> QED BY <2>3, <2>4, <2>5, <2>6
<1> QED BY <1>7, <1>8, <1>9

\* The database, and the snapshots of the requests that are being served.
Versions == {db} \cup {req[w].b : w \in Busy}

\* The external ids that were given, and those that are about to be.
ExternalsInv ==
    /\ Placed(Versions, db, raced \cup failed)
    /\ \A d \in Versions : Externals(d) \subseteq 1 .. given
    /\ \A w \in Busy : req[w].r.kind = "next" =>
        /\ req[w].r.fresh \in 1 .. given
        /\ \A d \in Versions : req[w].r.fresh \notin Externals(d)
        /\ \A x \in Busy : x # w /\ req[x].r.kind = "next" => req[x].r.fresh # req[w].r.fresh

LEMMA ExternalsInit == ASSUME Init PROVE ExternalsInv
<1>1. db \in Databases /\ Busy = {} /\ given = Cardinality(Externals(db))
  BY DEF Init, Busy
<1>2. GivenOnce(db) /\ Versions = {db}
  BY <1>1, DatabasesAssumption DEF Versions
<1>3. Externals(db) \subseteq 1 .. given
  BY <1>1, <1>2 DEF GivenOnce
<1>4. Placed(Versions, db, raced \cup failed)
  <2> SUFFICES Placed({db}, db, raced \cup failed)
    BY <1>2
  <2>1. \A u \in DOMAIN db.users : db.users[u].external \in External =>
            /\ \A v \in DOMAIN db.users : db.users[u].external = db.users[v].external => u = v
            /\ \A a \in Live(db.accounts) : db.users[u].external # db.accounts[a].external
    BY <1>2 DEF GivenOnce
  <2>2. \A a, c \in Live(db.accounts) :
            db.accounts[a].external = db.accounts[c].external /\ db.accounts[a].external \in External => a = c
    BY <1>2 DEF GivenOnce
  <2> QED BY <2>1, <2>2 DEF Placed
<1> QED BY <1>1, <1>2, <1>3, <1>4 DEF ExternalsInv

\* Nothing is written: the worker w may take the database as its snapshot.
LEMMA ExternalsRest ==
    ASSUME Core, ExternalsInv, db' = db, raced \cup failed \subseteq raced' \cup failed', given' \in Nat,
           given <= given', NEW w,
           \A x \in Busy' : \/ x \in Busy /\ req'[x].b = req[x].b /\ req'[x].r = req[x].r
                            \/ /\ x = w /\ req'[x].b = db
                               /\ req'[x].r.kind = "next" => req'[x].r.fresh = given + 1 /\ given' = given + 1
    PROVE  ExternalsInv'
<1>1. given \in Nat
  BY DEF Core
<1>2. Versions' \subseteq Versions
  BY DEF Versions
<1>3. Placed(Versions, db, raced \cup failed)
  BY DEF ExternalsInv
<1>4. Placed(Versions', db', raced' \cup failed')
  BY <1>2, <1>3, PlacedLess
<1>5. \A d \in Versions' : Externals(d) \subseteq 1 .. given'
  BY <1>1, <1>2 DEF ExternalsInv
<1>6. ASSUME NEW x \in Busy', req'[x].r.kind = "next"
      PROVE  /\ req'[x].r.fresh \in 1 .. given'
             /\ \A d \in Versions' : req'[x].r.fresh \notin Externals(d)
             /\ \A y \in Busy' : y # x /\ req'[y].r.kind = "next" => req'[y].r.fresh # req'[x].r.fresh
  <2> DEFINE Old(y) == y \in Busy /\ req'[y].b = req[y].b /\ req'[y].r = req[y].r
             New(y) == y = w /\ req'[y].r.fresh = given + 1 /\ given' = given + 1
  <2>1. \A y \in Busy' : req'[y].r.kind = "next" => Old(y) \/ New(y)
    OBVIOUS
  <2>2. \A y \in Busy : req[y].r.kind = "next" => req[y].r.fresh \in 1 .. given
    BY DEF ExternalsInv
  <2>3. \A d \in Versions' : given + 1 \notin Externals(d)
    BY <1>1, <1>2 DEF ExternalsInv
  <2>4. CASE Old(x)
    <3>1. req[x].r.kind = "next" /\ req'[x].r.fresh = req[x].r.fresh
      BY <1>6, <2>4
    <3>2. req'[x].r.fresh \in 1 .. given'
      BY <1>1, <2>2, <2>4, <3>1
    <3>3. \A d \in Versions' : req'[x].r.fresh \notin Externals(d)
      BY <1>2, <2>4, <3>1 DEF ExternalsInv
    <3>4. ASSUME NEW y \in Busy', y # x, req'[y].r.kind = "next"
          PROVE  req'[y].r.fresh # req'[x].r.fresh
      <4>1. CASE Old(y)
        BY <2>4, <3>1, <3>4, <4>1 DEF ExternalsInv
      <4>2. CASE New(y)
        BY <1>1, <2>2, <2>4, <3>1, <4>2
      <4> QED BY <2>1, <3>4, <4>1, <4>2
    <3> QED BY <3>2, <3>3, <3>4
  <2>5. CASE New(x)
    <3>1. ASSUME NEW y \in Busy', y # x, req'[y].r.kind = "next"
          PROVE  req'[y].r.fresh # req'[x].r.fresh
      <4>1. Old(y)
        BY <2>1, <2>5, <3>1
      <4>2. req'[y].r.fresh \in 1 .. given
        BY <2>2, <3>1, <4>1
      <4> QED BY <1>1, <2>5, <4>2
    <3>2. req'[x].r.fresh \in 1 .. given'
      BY <1>1, <2>5
    <3> QED BY <2>3, <2>5, <3>1, <3>2
  <2> QED BY <1>6, <2>1, <2>4, <2>5
<1> QED BY <1>4, <1>5, <1>6 DEF ExternalsInv

\* Something is written: the requests that go on have not changed.
LEMMA ExternalsWritten ==
    ASSUME Core, ExternalsInv, raced \cup failed \subseteq raced' \cup failed', given' = given,
           NEW b \in Versions, NEW r, Situation(b, db, r), Moves(b, db, db', r),
           r.kind \in UserKinds => db.users[r.user] = b.users[r.user] \/ <<"user", r.user>> \in raced \cup failed,
           r.kind = "post" => \A a, c \in DOMAIN db'.accounts \ DOMAIN db.accounts : a = c,
           r.kind = "next" => \E w \in Busy : w \notin Busy' /\ req[w].r = r,
           \A x \in Busy' : x \in Busy /\ req'[x] = req[x]
    PROVE  ExternalsInv'
<1>1. Versions' \subseteq Versions \cup {db'} /\ db \in Versions
  BY DEF Versions
<1>2. r.kind = "next" => /\ r.fresh \in 1 .. given
                         /\ \A d \in Versions : r.fresh \notin Externals(d)
                         /\ \A x \in Busy' : req[x].r.kind = "next" => req[x].r.fresh # r.fresh
  BY DEF ExternalsInv
<1>3. Placed(Versions, db, raced \cup failed)
  BY DEF ExternalsInv
<1> DEFINE X == raced \cup failed
           V == Versions
           e == db'
<1>4. Placed(V \cup {e}, e, X)
  <2>1. /\ b \in V /\ db \in V /\ Placed(V, db, X)
        /\ r.kind \in UserKinds => db.users[r.user] = b.users[r.user] \/ <<"user", r.user>> \in X
        /\ r.kind = "next" => \A x \in V : r.fresh \notin Externals(x)
        /\ r.kind = "post" => \A a, c \in DOMAIN e.accounts \ DOMAIN db.accounts : a = c
        /\ Moves(b, db, e, r)
    BY <1>1, <1>2, <1>3
  <2> HIDE DEF X, V, e
  <2> QED BY <2>1, PlacedMoves
<1>5. Placed(Versions', db', raced' \cup failed')
  BY <1>1, <1>4, PlacedLess
<1>6. \A i \in Externals(db') : i \in Externals(b) \/ i \in Externals(db) \/ (r.kind = "next" /\ i = r.fresh)
  BY ExternalsMove
<1>7. \A d \in Versions' : Externals(d) \subseteq 1 .. given'
  BY <1>1, <1>2, <1>6 DEF ExternalsInv
<1>8. ASSUME NEW x \in Busy', req'[x].r.kind = "next"
      PROVE  /\ req'[x].r.fresh \in 1 .. given'
             /\ \A d \in Versions' : req'[x].r.fresh \notin Externals(d)
             /\ \A y \in Busy' : y # x /\ req'[y].r.kind = "next" => req'[y].r.fresh # req'[x].r.fresh
  <2>1. x \in Busy /\ req'[x] = req[x] /\ req[x].r.kind = "next"
    BY <1>8
  <2>2. req[x].r.fresh \in 1 .. given /\ \A d \in Versions : req[x].r.fresh \notin Externals(d)
    BY <2>1 DEF ExternalsInv
  <2>3. req[x].r.fresh \notin Externals(db')
    BY <1>1, <1>2, <1>6, <1>8, <2>1, <2>2
  <2>4. \A y \in Busy' : y # x /\ req'[y].r.kind = "next" => req'[y].r.fresh # req'[x].r.fresh
    BY <2>1 DEF ExternalsInv
  <2> QED BY <1>1, <2>1, <2>2, <2>3, <2>4
<1> QED BY <1>5, <1>7, <1>8 DEF ExternalsInv

LEMMA ExternalsStep ==
    ASSUME Core, ExternalsInv, [Next]_vars
    PROVE  ExternalsInv'
<1>1. raced \cup failed \subseteq raced' \cup failed'
  BY HistorySteps
<1>2. req = [w \in Workers |-> req[w]] /\ given \in Nat /\ db \in Tables /\ Linked(db) /\ Working(req, db, raced)
  BY DEF Core, Working
<1>3. ASSUME NEW w \in Workers, NEW r, Begins(w, r)
      PROVE  ExternalsInv'
  <2>1. /\ db' = db /\ req' = [req EXCEPT ![w] = [r |-> r, b |-> db, phase |-> "read", relies |-> Relied(r)]]
        /\ IF r.kind = "next" THEN r.fresh = given + 1 /\ given' = given + 1 ELSE given' = given
    BY <1>3 DEF Begins
  <2>2. req'[w].b = db /\ req'[w].r = r /\ \A x \in Workers \ {w} : req'[x] = req[x]
    BY <1>2, <2>1
  <2>3. \A x \in Busy' : \/ x \in Busy /\ req'[x].b = req[x].b /\ req'[x].r = req[x].r
                         \/ /\ x = w /\ req'[x].b = db
                            /\ req'[x].r.kind = "next" => req'[x].r.fresh = given + 1 /\ given' = given + 1
    BY <2>1, <2>2 DEF Busy
  <2>4. given' \in Nat /\ given <= given'
    BY <1>2, <2>1
  <2> QED BY <1>1, <2>1, <2>3, <2>4, ExternalsRest
<1>4. ASSUME NEW w \in Workers, Switches(w)
      PROVE  ExternalsInv'
  <2>1. PICK r : /\ r.kind = "put"
                 /\ req' = [req EXCEPT ![w] = [r |-> r, b |-> db, phase |-> "read", relies |-> Relied(r)]]
    BY <1>4 DEF Switches
  <2>2. req'[w].b = db /\ req'[w].r = r /\ \A x \in Workers \ {w} : req'[x] = req[x]
    BY <1>2, <2>1
  <2>3. \A x \in Busy' : \/ x \in Busy /\ req'[x].b = req[x].b /\ req'[x].r = req[x].r
                         \/ /\ x = w /\ req'[x].b = db
                            /\ req'[x].r.kind = "next" => req'[x].r.fresh = given + 1 /\ given' = given + 1
    BY <2>1, <2>2 DEF Busy
  <2>4. db' = db /\ given' \in Nat /\ given <= given'
    BY <1>2, <1>4 DEF Switches
  <2> QED BY <1>1, <2>3, <2>4, ExternalsRest
<1>5. ASSUME NEW w \in Workers, Answers(w)
      PROVE  ExternalsInv'
  <2> DEFINE q == req[w]
  <2>1. /\ q # Idle /\ Moves(q.b, db, db', q.r) /\ given' = given
        /\ q.r.kind = "post" => \A a, c \in DOMAIN db'.accounts \ DOMAIN db.accounts : a = c
        /\ req' = [req EXCEPT ![w] = Idle]
    BY <1>5 DEF Answers
  <2>2. w \in Busy /\ q.b \in Versions
    BY <2>1 DEF Busy, Versions
  <2>3. Serving(q, db, raced) /\ Situation(q.b, db, q.r)
    BY <2>2, BusyServes
  <2>4. q.r.kind \in UserKinds => db.users[q.r.user] = q.b.users[q.r.user] \/ <<"user", q.r.user>> \in raced \cup failed
    <3> SUFFICES ASSUME q.r.kind \in UserKinds, <<"user", q.r.user>> \notin raced
                 PROVE  db.users[q.r.user] = q.b.users[q.r.user]
      OBVIOUS
    <3>1. q.r.user \in DOMAIN q.b.users /\ <<"user", q.r.user>> \in q.relies
      BY <2>3 DEF Serving, Situation, Valid, Relies
    <3>2. Same(q.b, db, <<"user", q.r.user>>)
      BY <2>3, <3>1 DEF Serving
    <3> QED BY <3>1, <3>2 DEF Same
  <2>5. \A x \in Busy' : x \in Busy /\ req'[x] = req[x]
    BY <1>2, <2>1 DEF Busy
  <2>6. w \notin Busy' /\ req[w].r = q.r
    BY <1>2, <2>1 DEF Busy
  <2>7. q.r.kind = "next" => \E x \in Busy : x \notin Busy' /\ req[x].r = q.r
    BY <2>2, <2>6
  <2> HIDE DEF q
  <2> QED BY <1>1, <2>1, <2>2, <2>3, <2>4, <2>5, <2>7, ExternalsWritten
<1>6. ASSUME NEW r, NEW rel, AtOnce(r, rel)
      PROVE  ExternalsInv'
  <2>1. /\ r.kind \in {"user", "viewer", "forgotten", "repository", "clean"} /\ Valid(db, r)
        /\ Moves(db, db, db', r) /\ req' = req /\ given' = given
    BY <1>6 DEF AtOnce
  <2>2. Situation(db, db, r) /\ db \in Versions
    BY <1>2, <2>1, OlderReflexive DEF Situation, Versions
  <2>3. \A x \in Busy' : x \in Busy /\ req'[x] = req[x]
    BY <2>1 DEF Busy
  <2>4. r.kind # "post" /\ r.kind # "next"
    BY <2>1
  <2> QED BY <1>1, <2>1, <2>2, <2>3, <2>4, ExternalsWritten
<1>7. CASE Rests
  <2>1. db' = db /\ given' = given
    BY <1>7 DEF Rests
  <2>2. \A x \in Busy' : x \in Busy /\ req'[x].b = req[x].b /\ req'[x].r = req[x].r
    BY <1>7, RestsKeeps DEF Busy
  <2>3. given' \in Nat /\ given <= given'
    BY <1>2, <2>1
  <2> QED BY <1>1, <2>1, <2>2, <2>3, ExternalsRest
<1> QED BY <1>3, <1>4, <1>5, <1>6, <1>7, Steps

\* An external id serves one account, unless the user that owns the account sent two requests
\* that write the row of the user at the same time, or a failure was ignored.
THEOREM ExternalOnceHolds == Spec => []ExternalOnce
<1>1. Init => Core /\ ExternalsInv
  BY CoreInit, ExternalsInit
<1>2. Core /\ ExternalsInv /\ [Next]_vars => (Core /\ ExternalsInv)'
  BY CoreStep, ExternalsStep
<1>3. ExternalsInv => ExternalOnce
  BY DEF ExternalsInv, Placed, Versions, ExternalOnce, Excused
<1> QED BY <1>1, <1>2, <1>3, PTL DEF Spec

-----------------------------------------------------------------------------
(* Documents *)

\* The repositories whose account is deleted by a statement that is not committed yet.
Uncommitted == {w \in Busy : req[w].phase = "uncommitted"}
Deleting    == UNION {ReposOf(req[w].b, req[w].r.account) : w \in Uncommitted}

NoBills == \A a \in DOMAIN db.accounts : ~Excused(<<"bills", a>>)

\* As far as the bills of no account have raced: documents are missing only in repositories
\* of deletions that are not committed, and are left over only in those to clean.
DocsInv == NoBills =>
    /\ \A p \in imported : p \in Live(db.repos) => p \in docs \/ p \in Deleting
    /\ \A p \in imported : p \in docs => p \in Live(db.repos) \/ p \in UNION cleans
    /\ \A p \in UNION cleans : p \in Live(db.repos) => p \in Deleting
    /\ \A p \in Deleting : p \in docs => p \in UNION cleans

LEMMA DocsInit == ASSUME Init PROVE DocsInv
<1>1. Busy = {} /\ imported = docs /\ docs = Live(db.repos) /\ cleans = {}
  BY DEF Init, Busy
<1> QED BY <1>1 DEF DocsInv, Deleting, Uncommitted

LEMMA NoBillsBefore ==
    ASSUME Core, [Next]_vars, NoBills'
    PROVE  NoBills
<1>1. raced \cup failed \subseteq raced' \cup failed' /\ DOMAIN db.accounts \subseteq DOMAIN db'.accounts
  BY HistorySteps, Grows DEF Older
<1> QED BY <1>1 DEF NoBills, Excused

\* Neither documents nor repositories change.
LEMMA DocsRest ==
    ASSUME Core, Ids, DocsInv, [Next]_vars, UNCHANGED <<docs, imported, cleans>>, Deleting' = Deleting,
           \A p \in DOMAIN db.repos : p \in Live(db'.repos) <=> p \in Live(db.repos)
    PROVE  DocsInv'
<1> SUFFICES ASSUME NoBills'
             PROVE  /\ \A p \in imported : p \in Live(db'.repos) => p \in docs \/ p \in Deleting
                    /\ \A p \in imported : p \in docs => p \in Live(db'.repos) \/ p \in UNION cleans
                    /\ \A p \in UNION cleans : p \in Live(db'.repos) => p \in Deleting
                    /\ \A p \in Deleting : p \in docs => p \in UNION cleans
  BY DEF DocsInv
<1>1. NoBills
  BY NoBillsBefore
<1>2. imported \cup UNION cleans \subseteq DOMAIN db.repos
  BY DEF Ids
<1> QED BY <1>1, <1>2 DEF DocsInv

\* A worker that is not between the DELETE and the COMMIT does something else.
LEMMA DeletingKept ==
    ASSUME Core, NEW w \in Workers, \A x \in Workers \ {w} : req'[x] = req[x],
           req[w] # Idle => req[w].phase = "read", req'[w] # Idle => req'[w].phase = "read"
    PROVE  Deleting' = Deleting
<1>1. Uncommitted' = Uncommitted /\ w \notin Uncommitted /\ Uncommitted \subseteq Workers
  BY DEF Uncommitted, Busy
<1>2. \A x \in Uncommitted : req'[x] = req[x]
  BY <1>1
<1> QED BY <1>1, <1>2 DEF Deleting

\* The repositories that go away belong to the account that is deleted, all of them.
LEMMA DeletedRepos ==
    ASSUME NEW b, NEW d, NEW r, Situation(b, d, r), r.kind = "delete",
           Same(b, d, <<"bills", r.account>>)
    PROVE  \A p \in DOMAIN d.repos :
              p \in Live(DeleteAwsAccount(b, d, r).repos) <=> p \in Live(d.repos) /\ p \notin ReposOf(b, r.account)
<1> DEFINE a == r.account
           e == DeleteAwsAccount(b, d, r)
           F == [p \in DOMAIN d.repos |-> IF d.repos[p] # Gone /\ d.repos[p].account = a THEN Gone ELSE d.repos[p]]
<1>1. a \in Live(b.accounts) /\ a \in DOMAIN b.accounts /\ Owns(b, r.user, a) /\ b.accounts[a].owner = r.user
  BY DEF Situation, Valid, Live, Owns, AccountsOf
<1>2. ReposOf(d, a) = ReposOf(b, a)
  BY <1>1 DEF Same
<1>3. CASE Owns(d, r.user, a)
  <2>1. e = DropAccount(d, a)
    BY <1>1, <1>3 DEF DeleteAwsAccount
  <2>2. e.repos = F
    BY <2>1 DEF DropAccount, Situation, Tables
  <2>3. DOMAIN e.repos = DOMAIN d.repos
    BY <2>2
  <2>4. \A p \in DOMAIN d.repos : e.repos[p] # Gone <=> d.repos[p] # Gone /\ d.repos[p].account # a
    BY <2>2
  <2> HIDE DEF e
  <2>5. \A p \in DOMAIN d.repos : p \in Live(e.repos) <=> p \in Live(d.repos) /\ p \notin ReposOf(d, a)
    BY <2>3, <2>4 DEF ReposOf, Live
  <2> QED BY <1>2, <2>5 DEF e
<1>4. CASE ~Owns(d, r.user, a)
  <2>1. a \notin Live(d.accounts)
    BY <1>1, <1>4 DEF Situation, Older, Owns, AccountsOf
  <2>2. ReposOf(d, a) = {}
    BY <2>1 DEF Situation, Linked, ReposOf
  <2>3. e = d
    BY <1>4 DEF DeleteAwsAccount
  <2> QED BY <1>2, <2>2, <2>3
<1> QED BY <1>3, <1>4

\* A deletion is committed.
LEMMA DocsCommitDelete ==
    ASSUME Core, Ids, DocsInv, [Next]_vars, NEW w \in Workers, CommitDelete(w)
    PROVE  DocsInv'
<1> DEFINE q == req[w]
           mine == ReposOf(q.b, q.r.account)
<1>1. /\ w \in Busy /\ q.phase = "uncommitted" /\ db' = Handled(q.b, db, q.r) /\ req' = [req EXCEPT ![w] = Idle]
      /\ UNCHANGED <<docs, imported, cleans>>
  BY DEF CommitDelete, Finish
<1>2. Serving(q, db, raced) /\ Situation(q.b, db, q.r)
  BY <1>1, BusyServes
<1>3. q.r.kind = "delete" /\ <<"bills", q.r.account>> \in q.relies /\ q.r.account \in DOMAIN q.b.accounts
  BY <1>1, <1>2 DEF Serving, Relies, Situation, Valid, Live
<1>4. db' = DeleteAwsAccount(q.b, db, q.r)
  BY <1>1, <1>3 DEF Handled
<1>5. req = [x \in Workers |-> req[x]]
  BY DEF Core, Working
<1>6. Deleting' \subseteq Deleting /\ Deleting \subseteq Deleting' \cup mine /\ mine \subseteq Deleting
  <2>1. /\ req'[w] = Idle /\ \A x \in Workers \ {w} : req'[x] = req[x]
    BY <1>1, <1>5
  <2>2. w \in Uncommitted /\ Uncommitted' = Uncommitted \ {w}
    BY <1>1, <2>1 DEF Uncommitted, Busy
  <2>3. \A x \in Uncommitted \ {w} : req'[x] = req[x]
    BY <2>1 DEF Uncommitted, Busy
  <2> QED BY <2>2, <2>3 DEF Deleting
<1>7. ASSUME NoBills'
      PROVE  /\ \A p \in imported : p \in Live(db'.repos) => p \in docs \/ p \in Deleting'
             /\ \A p \in imported : p \in docs => p \in Live(db'.repos) \/ p \in UNION cleans
             /\ \A p \in UNION cleans : p \in Live(db'.repos) => p \in Deleting'
             /\ \A p \in Deleting' : p \in docs => p \in UNION cleans
  <2>1. NoBills
    BY <1>7, NoBillsBefore
  <2>2. Same(q.b, db, <<"bills", q.r.account>>)
    <3>1. q.r.account \in DOMAIN db.accounts
      BY <1>2, <1>3 DEF Situation, Older
    <3> QED BY <1>2, <1>3, <2>1, <3>1 DEF Serving, NoBills, Excused
  <2>3. \A p \in DOMAIN db.repos : p \in Live(db'.repos) <=> p \in Live(db.repos) /\ p \notin mine
    BY <1>2, <1>3, <1>4, <2>2, DeletedRepos
  <2>4. imported \cup UNION cleans \subseteq DOMAIN db.repos
    BY DEF Ids
  <2>5. /\ \A p \in imported : p \in Live(db.repos) => p \in docs \/ p \in Deleting
        /\ \A p \in imported : p \in docs => p \in Live(db.repos) \/ p \in UNION cleans
        /\ \A p \in UNION cleans : p \in Live(db.repos) => p \in Deleting
        /\ \A p \in Deleting : p \in docs => p \in UNION cleans
    BY <2>1 DEF DocsInv
  <2> HIDE DEF mine
  <2> QED BY <1>6, <2>3, <2>4, <2>5
<1> QED BY <1>1, <1>7 DEF DocsInv

\* The DELETE: the goroutine has the repositories of the snapshot.
LEMMA DocsDeleteStatement ==
    ASSUME Core, Ids, DocsInv, [Next]_vars, NEW w \in Workers, DeleteStatement(w)
    PROVE  DocsInv'
<1> DEFINE q == req[w]
           mine == ReposOf(q.b, q.r.account)
<1>1. /\ w \in Busy /\ q.phase = "read" /\ req' = [req EXCEPT ![w].phase = "uncommitted"]
      /\ cleans' = cleans \cup {mine} /\ UNCHANGED <<db, docs, imported>>
  BY DEF DeleteStatement, history
<1>2. Serving(q, db, raced) /\ req = [x \in Workers |-> req[x]]
  BY <1>1, BusyServes DEF Core, Working
<1>3. Deleting' = Deleting \cup mine
  <2>1. req'[w] = [q EXCEPT !.phase = "uncommitted"] /\ \A x \in Workers \ {w} : req'[x] = req[x]
    BY <1>1, <1>2
  <2>2. q = [r |-> q.r, b |-> q.b, phase |-> q.phase, relies |-> q.relies]
    BY <1>2 DEF Serving
  <2>3. req'[w].phase = "uncommitted" /\ req'[w].r = q.r /\ req'[w].b = q.b
    BY <2>1, <2>2
  <2>4. req'[w] # Idle
    <3>1. "r" \in DOMAIN req'[w]
      BY <2>1, <2>2
    <3>2. "r" \notin DOMAIN Idle
      BY DEF Idle
    <3> QED BY <3>1, <3>2
  <2>5. Uncommitted' = Uncommitted \cup {w} /\ w \notin Uncommitted
    BY <1>1, <2>1, <2>3, <2>4 DEF Uncommitted, Busy
  <2>6. \A x \in Uncommitted : req'[x] = req[x]
    BY <2>1, <2>5 DEF Uncommitted, Busy
  <2> QED BY <2>3, <2>5, <2>6 DEF Deleting
<1>4. ASSUME NoBills'
      PROVE  /\ \A p \in imported : p \in Live(db.repos) => p \in docs \/ p \in Deleting'
             /\ \A p \in imported : p \in docs => p \in Live(db.repos) \/ p \in UNION cleans'
             /\ \A p \in UNION cleans' : p \in Live(db.repos) => p \in Deleting'
             /\ \A p \in Deleting' : p \in docs => p \in UNION cleans'
  <2>1. NoBills
    BY <1>4, NoBillsBefore
  <2>2. UNION (cleans') = (UNION cleans) \cup mine
    BY <1>1
  <2> QED BY <1>3, <2>1, <2>2 DEF DocsInv
<1> QED BY <1>1, <1>4 DEF DocsInv

\* The goroutine cleans.
LEMMA DocsClean ==
    ASSUME Core, Ids, DocsInv, [Next]_vars, Clean
    PROVE  DocsInv'
<1>1. PICK c \in cleans : /\ docs' = docs \ c /\ cleans' = cleans \ {c}
                          /\ UNCHANGED <<db, req, imported>>
  BY DEF Clean, history
<1>2. Deleting' = Deleting
  BY <1>1 DEF Deleting, Uncommitted, Busy
<1>3. \A p \in UNION cleans : p \in c \/ p \in UNION cleans'
  BY <1>1
<1>4. UNION cleans' \subseteq UNION cleans /\ c \subseteq UNION cleans
  BY <1>1
<1>5. ASSUME NoBills'
      PROVE  /\ \A p \in imported : p \in Live(db.repos) => p \in docs' \/ p \in Deleting
             /\ \A p \in imported : p \in docs' => p \in Live(db.repos) \/ p \in UNION cleans'
             /\ \A p \in UNION cleans' : p \in Live(db.repos) => p \in Deleting
             /\ \A p \in Deleting : p \in docs' => p \in UNION cleans'
  <2>1. NoBills
    BY <1>5, NoBillsBefore
  <2> QED BY <1>1, <1>3, <1>4, <2>1 DEF DocsInv
<1> QED BY <1>1, <1>2, <1>5 DEF DocsInv

\* Bills are imported into a repository that is there and will not be deleted.
LEMMA DocsIngested ==
    ASSUME Core, Ids, DocsInv, [Next]_vars, NEW w \in Workers, Ingested(w)
    PROVE  DocsInv'
<1> DEFINE q == req[w]
           n == q.r.repo
           a == q.r.account
<1>1. /\ w \in Busy /\ q.r.kind = "ingest" /\ docs' = docs \cup {n} /\ imported' = imported \cup {n}
      /\ UNCHANGED <<db, cleans>>
  BY DEF Ingested
<1>2. Serving(q, db, raced) /\ Situation(q.b, db, q.r) /\ req = [x \in Workers |-> req[x]]
  BY <1>1, BusyServes DEF Core, Working
<1>3. /\ <<"bills", a>> \in q.relies /\ n \in Live(q.b.repos) /\ a = q.b.repos[n].account
      /\ a \in DOMAIN q.b.accounts /\ a \in DOMAIN db.accounts /\ q.phase = "read"
  BY <1>1, <1>2 DEF Serving, Situation, Valid, Relies, Older
<1>4. Deleting' = Deleting
  <2>1. \A x \in Workers \ {w} : req'[x] = req[x]
    BY <1>2 DEF Ingested, Finish
  <2>2. req'[w] # Idle => req'[w].phase = "read"
    BY <1>2 DEF Ingested, Finish
  <2> QED BY <1>1, <1>3, <2>1, <2>2, DeletingKept DEF Busy
<1>5. ASSUME NoBills'
      PROVE  /\ \A p \in imported' : p \in Live(db.repos) => p \in docs' \/ p \in Deleting
             /\ \A p \in imported' : p \in docs' => p \in Live(db.repos) \/ p \in UNION cleans
             /\ \A p \in UNION cleans : p \in Live(db.repos) => p \in Deleting
             /\ \A p \in Deleting : p \in docs' => p \in UNION cleans
  <2>1. NoBills /\ <<"bills", a>> \notin raced
    BY <1>3, <1>5, NoBillsBefore DEF NoBills, Excused
  <2>2. n \in ReposOf(q.b, a)
    BY <1>3 DEF ReposOf
  <2>3. ReposOf(db, a) = ReposOf(q.b, a)
    BY <1>2, <1>3, <2>1 DEF Serving, Same
  <2>4. n \in Live(db.repos) /\ db.repos[n].account = a /\ n \in DOMAIN db.repos
    BY <2>2, <2>3 DEF ReposOf, Live
  <2>5. n \notin Deleting
    <3> SUFFICES ASSUME NEW x \in Uncommitted, n \in ReposOf(req[x].b, req[x].r.account)
                 PROVE  FALSE
      BY DEF Deleting
    <3>1. x \in Busy /\ req[x].phase = "uncommitted" /\ x # w
      BY <1>3 DEF Uncommitted
    <3>2. Serving(req[x], db, raced)
      BY <3>1, BusyServes
    <3>3. n \in Live(req[x].b.repos) /\ req[x].b.repos[n].account = req[x].r.account
      BY DEF ReposOf
    <3>4. db.repos[n] = req[x].b.repos[n]
      BY <2>4, <3>2, <3>3 DEF Serving, Situation, Older, Live
    <3>5. req[x].r.account = a
      BY <2>4, <3>3, <3>4
    <3>6. <<"bills", a>> \in req[x].relies
      BY <3>1, <3>2, <3>5 DEF Serving, Relies
    <3>7. w \in Workers /\ x \in Workers /\ req[w] # Idle /\ req[x] # Idle
      BY <1>1, <3>1 DEF Busy
    <3>8. req[w].relies \cap req[x].relies \subseteq raced
      BY <3>1, <3>7 DEF Core, Working
    <3> QED BY <1>3, <2>1, <3>6, <3>8
  <2> QED BY <1>1, <2>1, <2>4, <2>5 DEF DocsInv
<1> QED BY <1>1, <1>4, <1>5 DEF DocsInv

LEMMA ReposKept ==
    ASSUME NEW b, NEW r, Moves(b, db, db', r), r.kind # "delete"
    PROVE  \A p \in DOMAIN db.repos : p \in Live(db'.repos) <=> p \in Live(db.repos)
<1>1. ReposMove(db, db', r)
  BY DEF Moves
<1> QED BY <1>1 DEF ReposMove, Live

LEMMA DocsStep ==
    ASSUME Core, Ids, DocsInv, [Next]_vars
    PROVE  DocsInv'
<1>1. req = [x \in Workers |-> req[x]]
  BY DEF Core, Working
<1>2. ASSUME NEW w \in Workers, NEW r, Begins(w, r)
      PROVE  DocsInv'
  <2>1. /\ req[w] = Idle /\ UNCHANGED <<db, docs, cleans, imported>>
        /\ req' = [req EXCEPT ![w] = [r |-> r, b |-> db, phase |-> "read", relies |-> Relied(r)]]
    BY <1>2 DEF Begins
  <2>2. req'[w].phase = "read" /\ \A x \in Workers \ {w} : req'[x] = req[x]
    BY <1>1, <2>1
  <2>3. Deleting' = Deleting
    BY <2>1, <2>2, DeletingKept
  <2> QED BY <2>1, <2>3, DocsRest
<1>3. ASSUME NEW w \in Workers, Answers(w), req[w].phase = "read", UNCHANGED <<docs, cleans, imported>>,
             req[w].r.kind # "delete" \/ db' = db
      PROVE  DocsInv'
  <2>1. req'[w] = Idle /\ \A x \in Workers \ {w} : req'[x] = req[x]
    BY <1>1, <1>3 DEF Answers
  <2>2. Deleting' = Deleting
    BY <1>3, <2>1, DeletingKept
  <2>3. \A p \in DOMAIN db.repos : p \in Live(db'.repos) <=> p \in Live(db.repos)
    BY <1>3, ReposKept DEF Answers
  <2> QED BY <1>3, <2>2, <2>3, DocsRest
<1>4. ASSUME NEW w \in Workers, Commit(w) \/ Rollback(w) \/ UpdateFails(w)
      PROVE  DocsInv'
  <2>1. w \in Busy /\ UNCHANGED <<docs, cleans, imported>>
    BY <1>4 DEF Commit, Rollback, UpdateFails, history
  <2>2. Serving(req[w], db, raced)
    BY <2>1, BusyServes
  <2>3. req[w].phase = "read" /\ (req[w].r.kind # "delete" \/ db' = db)
    BY <1>4, <2>2 DEF Commit, Rollback, UpdateFails, Serving
  <2>4. Answers(w)
    BY <1>4, CommitAnswers, FailureAnswers, UpdateFailsAnswers
  <2> QED BY <1>3, <2>1, <2>3, <2>4
<1>5. ASSUME NEW w \in Workers, CommitFails(w)
      PROVE  DocsInv'
  <2>1. /\ w \in Busy /\ UNCHANGED <<db, docs, cleans, imported>> /\ failed' = failed \cup req[w].relies
    BY <1>5 DEF CommitFails
  <2>2. Serving(req[w], db, raced)
    BY <2>1, BusyServes
  <2>3. CASE req[w].phase = "read"
    BY <1>3, <1>5, <2>1, <2>3, FailureAnswers
  <2>4. CASE req[w].phase = "uncommitted"
    <3>1. <<"bills", req[w].r.account>> \in req[w].relies
      BY <2>2, <2>4 DEF Serving, Relies
    <3>2. req[w].r.account \in DOMAIN db.accounts
      BY <2>2, <2>4 DEF Serving, Situation, Valid, Older, Live
    <3>3. ~NoBills'
      BY <2>1, <3>1, <3>2 DEF NoBills, Excused
    <3> QED BY <3>3 DEF DocsInv
  <2> QED BY <2>2, <2>3, <2>4 DEF Serving
<1>6. ASSUME NEW r, NEW rel, AtOnce(r, rel), UNCHANGED <<docs, cleans, imported>>
      PROVE  DocsInv'
  <2>1. r.kind # "delete" /\ Moves(db, db, db', r) /\ req' = req
    BY <1>6 DEF AtOnce
  <2>2. Deleting' = Deleting
    BY <2>1 DEF Deleting, Uncommitted, Busy
  <2>3. \A p \in DOMAIN db.repos : p \in Live(db'.repos) <=> p \in Live(db.repos)
    BY <2>1, ReposKept
  <2> QED BY <1>6, <2>2, <2>3, DocsRest
<1>7. CASE Register \/ PostBillRepository \/ CleanExpiredTokens
  <2>1. UNCHANGED <<docs, cleans, imported>>
    BY <1>7 DEF Register, OneStep, PostBillRepository, CleanExpiredTokens
  <2> QED BY <1>6, <1>7, <2>1, RegisterAtOnce, PostBillRepositoryAtOnce, CleanExpiredTokensAtOnce
<1>8. CASE Expire \/ UNCHANGED vars
  <2>1. UNCHANGED <<db, req, docs, cleans, imported>>
    BY <1>8 DEF Expire, vars, history
  <2>2. Deleting' = Deleting
    BY <2>1 DEF Deleting, Uncommitted, Busy
  <2> QED BY <2>1, <2>2, DocsRest
<1>9. ASSUME NEW w \in Workers,
             \/ BeginNext(w) \/ BeginAccountRequest(w) \/ BeginTask(w)
             \/ BeginUserRequest(w) \/ BeginShareRequest(w)
      PROVE  DocsInv'
  BY <1>2, <1>9, BeginsNext, BeginsAccountRequest, BeginsTask, BeginsUserRequest, BeginsShareRequest
<1> QED BY <1>4, <1>5, <1>7, <1>8, <1>9, DocsCommitDelete, DocsDeleteStatement, DocsClean, DocsIngested DEF Next

\* When all has been cleaned and no deletion waits for its commit, the documents are those of
\* the repositories that are left, unless the bills of an account have raced.
THEOREM DocsFollowRowsHolds == Spec => []DocsFollowRows
<1>1. Init => Core /\ Ids /\ DocsInv
  BY CoreInit, IdsInit, DocsInit
<1>2. Core /\ Ids /\ DocsInv /\ [Next]_vars => (Core /\ Ids /\ DocsInv)'
  BY CoreStep, IdsStep, DocsStep
<1>3. DocsInv => DocsFollowRows
  <2> SUFFICES ASSUME DocsInv, NEW p \in imported, p \notin UNION cleans,
                      \A w \in Busy : req[w].phase # "uncommitted",
                      (p \in docs) # (p \in Live(db.repos)), NoBills
               PROVE  FALSE
    BY DEF DocsFollowRows, NoBills
  <2>1. Deleting = {}
    BY DEF Deleting, Uncommitted
  <2>2. p \in Live(db.repos) => p \in docs
    BY <2>1 DEF DocsInv
  <2>3. p \in docs => p \in Live(db.repos)
    BY DEF DocsInv
  <2> QED BY <2>2, <2>3
<1> QED BY <1>1, <1>2, <1>3, PTL DEF Spec

-----------------------------------------------------------------------------
(* Authority over shares *)

LEMMA RightsLevels ==
    ASSUME NEW b \in Tables, NEW u, NEW a
    PROVE  Rights(b, u, a) \subseteq Level
<1>1. ASSUME NEW s \in Live(b.shares) PROVE b.shares[s].level \in Level
  <2>1. b.shares[s] \in Share
    BY TableTypes, LiveRows
  <2> QED BY <2>1 DEF Share
<1> QED BY <1>1 DEF Rights, SharesOf

LEMMA InviteAuthority ==
    ASSUME Core, NEW w \in Busy, req[w].r.kind = "invite", InviteUser(req[w].b, db, req[w].r) # db
    PROVE  Authority(req[w].r)
<1> DEFINE b == req[w].b
           r == req[w].r
           a == r.account
<1>1. Serving(req[w], db, raced) /\ Situation(b, db, r)
  BY BusyServes
<1>2. /\ <<"shares", a>> \in req[w].relies /\ a \in Live(b.accounts) /\ a \in DOMAIN b.accounts
      /\ r.level \in Level
  BY <1>1 DEF Serving, Relies, Situation, Valid, Live
<1>3. MayInvite(b, r.user, a, r.level) /\ a \in Live(db.accounts)
  BY DEF InviteUser
<1>4. db.accounts[a].owner = b.accounts[a].owner
  BY <1>1, <1>2, <1>3 DEF Situation, Older
<1>5. CASE b.accounts[a].owner = r.user \/ Excused(<<"shares", a>>)
  BY <1>4, <1>5 DEF Authority
<1>6. CASE \E l \in Rights(b, r.user, a) : CheckLevel(r.level, l) /\ ~Excused(<<"shares", a>>)
  <2>1. PICK l \in Rights(b, r.user, a) : CheckLevel(r.level, l) /\ ~Excused(<<"shares", a>>)
    BY <1>6
  <2>2. Same(b, db, <<"shares", a>>)
    BY <1>1, <1>2, <2>1 DEF Serving, Excused
  <2>3. l \in Rights(db, r.user, a)
    BY <1>2, <2>2, SameRights
  <2>4. l \in Level /\ l # 2 /\ l <= 2 /\ l <= r.level
    BY <1>1, <1>2, <2>1, RightsLevels DEF CheckLevel, Level, Admin, Standard, Situation
  <2> QED BY <2>3, <2>4 DEF Authority
<1> QED BY <1>3, <1>5, <1>6 DEF MayInvite

LEMMA ShareAuthority ==
    ASSUME Core, NEW w \in Busy, req[w].r.kind \in {"level", "unshare"},
           req[w].r.share \in Live(db.shares),
           req[w].r.kind = "level" => MayChange(req[w].b, req[w].r.user, req[w].r.share, req[w].r.level),
           req[w].r.kind = "unshare" => MayDelete(req[w].b, req[w].r.user, req[w].r.share)
    PROVE  Authority(req[w].r)
<1> DEFINE b == req[w].b
           r == req[w].r
           s == r.share
           a == b.shares[s].account
           old == b.shares[s].level
           new == IF r.kind = "unshare" THEN 2 ELSE r.level
<1>1. Serving(req[w], db, raced) /\ Situation(b, db, r)
  BY BusyServes
<1>2. /\ <<"shares", a>> \in req[w].relies /\ s \in Live(b.shares) /\ s \in DOMAIN b.shares
      /\ Linked(b) /\ Linked(db) /\ Older(b, db) /\ b \in Tables
      /\ r.kind = "level" => r.level \in Level
  BY <1>1 DEF Serving, Relies, Situation, Valid, Live
<1>3. db.shares[s].account = a
  BY <1>2 DEF Older
<1>4. CASE Excused(<<"shares", a>>)
  BY <1>3, <1>4 DEF Authority
<1>5. CASE ~Excused(<<"shares", a>>)
  <2>1. Same(b, db, <<"shares", a>>)
    BY <1>1, <1>2, <1>5 DEF Serving, Excused
  <2>2. /\ db.shares[s] = b.shares[s] /\ a \in DOMAIN b.accounts
        /\ db.accounts[a].owner = b.accounts[a].owner
    <3>1. /\ s \in Live(b.shares) /\ Linked(b) /\ Linked(db) /\ Older(b, db)
          /\ Same(b, db, <<"shares", b.shares[s].account>>)
      BY <1>2, <2>1
    <3> HIDE DEF s, b, a
    <3>2. /\ s \in Live(db.shares) /\ db.shares[s] = b.shares[s]
          /\ b.shares[s].account \in DOMAIN b.accounts
          /\ b.shares[s].account \in Live(db.accounts)
          /\ db.accounts[b.shares[s].account].owner = b.accounts[b.shares[s].account].owner
      BY <3>1, SameShare
    <3> QED BY <3>2 DEF a
  <2>3. Rights(b, r.user, a) = Rights(db, r.user, a) /\ Rights(b, r.user, a) \subseteq Level
    <3>1. b \in Tables /\ Same(b, db, <<"shares", a>>) /\ a \in DOMAIN b.accounts
      BY <1>2, <2>1, <2>2
    <3> HIDE DEF b, a
    <3>2. Rights(b, r.user, a) = Rights(db, r.user, a)
      BY <3>1, SameRights
    <3> QED BY <3>1, <3>2, RightsLevels
  <2>4. old \in Level
    <3>1. b.shares[s] \in Share
      BY <1>2, TableTypes, LiveRows
    <3> QED BY <3>1 DEF Share
  <2>5. b.accounts[a].owner = r.user \/ \E l \in Rights(b, r.user, a) : l # 2 /\ l <= old /\ l <= new
    <3>1. CASE r.kind = "level"
      <4>1. \/ b.accounts[a].owner = r.user
            \/ \E x \in SharesOf(b, r.user) :
                  /\ b.shares[x].account = a /\ CheckLevel(r.level, b.shares[x].level)
                  /\ ~(b.shares[x].level = Standard /\ old = Admin)
        BY <3>1 DEF MayChange
      <4>2. ASSUME NEW x \in SharesOf(b, r.user), b.shares[x].account = a, CheckLevel(r.level, b.shares[x].level),
                   ~(b.shares[x].level = Standard /\ old = Admin)
            PROVE  \E l \in Rights(b, r.user, a) : l # 2 /\ l <= old /\ l <= new
        <5>1. b.shares[x].level \in Rights(b, r.user, a)
          BY <4>2 DEF Rights
        <5> DEFINE l == b.shares[x].level
        <5>2. l \in Level /\ r.level \in Level /\ new = r.level
          BY <1>2, <2>3, <3>1, <5>1
        <5>3. CheckLevel(r.level, l) /\ ~(l = Standard /\ old = Admin) /\ l \in Rights(b, r.user, a)
          BY <4>2, <5>1
        <5> HIDE DEF l, old, new
        <5>4. l # 2 /\ l <= old /\ l <= new
          BY <2>4, <5>2, <5>3 DEF CheckLevel, Level, Admin, Standard
        <5> QED BY <5>3, <5>4
      <4> QED BY <4>1, <4>2
    <3>2. CASE r.kind = "unshare"
      <4>1. \/ b.accounts[a].owner = r.user
            \/ \E l \in Rights(b, r.user, a) : CheckLevel(old, l)
        BY <3>2 DEF MayDelete
      <4>2. new = 2
        BY <3>2
      <4>3. ASSUME NEW l \in Rights(b, r.user, a), CheckLevel(old, l)
            PROVE  l # 2 /\ l <= old /\ l <= 2
        <5>1. l \in Level
          BY <2>3
        <5> HIDE DEF old
        <5> QED BY <2>4, <4>3, <5>1 DEF CheckLevel, Level, Admin, Standard
      <4> HIDE DEF old, new
      <4> QED BY <4>1, <4>2, <4>3
    <3> QED BY <3>1, <3>2
  <2>6. db.accounts[a].owner = r.user \/ \E l \in Rights(db, r.user, a) \ {2} : l <= db.shares[s].level /\ l <= new
    BY <2>2, <2>3, <2>5
  <2> QED BY <1>3, <2>6 DEF Authority
<1> QED BY <1>4, <1>5

LEMMA AuthorityStep ==
    ASSUME Core, [Next]_vars, NEW w \in Busy, req[w].r.kind \in {"invite", "level", "unshare"},
           req'[w] = Idle, db'.shares # db.shares
    PROVE  Authority(req[w].r)
<1>1. req = [x \in Workers |-> req[x]] /\ w \in Workers /\ req[w] # Idle /\ db' # db
  BY DEF Core, Working, Busy
<1>2. ASSUME NEW x \in Busy, req' = [req EXCEPT ![x] = Idle]
      PROVE  x = w
  BY <1>1, <1>2 DEF Busy
<1>3. ASSUME NEW r, NEW rel, AtOnce(r, rel)
      PROVE  FALSE
  BY <1>1, <1>3 DEF AtOnce
<1>4. (Commit(w) \/ CommitDelete(w)) /\ db' = Handled(req[w].b, db, req[w].r)
  BY <1>1, <1>2, <1>3, Writers
<1>5. CASE req[w].r.kind = "invite"
  <2>1. db' = InviteUser(req[w].b, db, req[w].r)
    BY <1>4, <1>5 DEF Handled
  <2> QED BY <1>1, <1>5, <2>1, InviteAuthority
<1>6. CASE req[w].r.kind = "level"
  <2>1. db' = UpdateShare(req[w].b, db, req[w].r)
    BY <1>4, <1>6 DEF Handled
  <2>2. MayChange(req[w].b, req[w].r.user, req[w].r.share, req[w].r.level) /\ req[w].r.share \in Live(db.shares)
    BY <1>1, <2>1 DEF UpdateShare
  <2> QED BY <1>6, <2>2, ShareAuthority
<1>7. CASE req[w].r.kind = "unshare"
  <2>1. db' = DeleteShare(req[w].b, db, req[w].r)
    BY <1>4, <1>7 DEF Handled
  <2>2. MayDelete(req[w].b, req[w].r.user, req[w].r.share) /\ req[w].r.share \in Live(db.shares)
    BY <1>1, <2>1 DEF DeleteShare
  <2> QED BY <1>7, <2>2, ShareAuthority
<1> QED BY <1>5, <1>6, <1>7

\* Who writes a share owns the account, or has a share as strong at that very moment, unless
\* the shares of the account have raced: the check, in another transaction, is enough.
THEOREM AuthorityHolds == Spec => AuthorityAtWrite
<1>1. Core /\ [Next]_vars => [\A w \in Busy :
        req[w].r.kind \in {"invite", "level", "unshare"} /\ req'[w] = Idle /\ db'.shares # db.shares
        => Authority(req[w].r)]_vars
  BY AuthorityStep
<1>2. Spec => []Core
  BY CoreHolds
<1> QED BY <1>1, <1>2, PTL DEF Spec, AuthorityAtWrite

-----------------------------------------------------------------------------
(* Sub accounts *)

\* A new row is unlike every account that its owner had when the accounts were read, and
\* unlike the other new rows; the accounts are those that were read if nothing has raced.
LEMMA SubAccountsStep ==
    ASSUME Core, [Next]_vars, NEW a \in Live(db'.accounts), NEW c \in puts' \ puts,
           a # c, db'.accounts[a].owner = db'.accounts[c].owner,
           db'.accounts[a].identity = db'.accounts[c].identity
    PROVE  Excused(<<"accounts", db'.accounts[c].owner>>) \/ Excused(<<"account", a>>)
<1>1. PICK w \in Busy : /\ Commit(w) /\ req[w].r.kind = "put"
                        /\ puts' = puts \cup (DOMAIN db'.accounts \ DOMAIN db.accounts)
  BY HistorySteps
<1> DEFINE q == req[w]
           b == q.b
           r == q.r
           u == r.row.owner
<1>2. Serving(q, db, raced) /\ Situation(b, db, r) /\ r.kind = "put" /\ Relies(b, r, q.relies)
  BY <1>1, BusyServes DEF Serving
<1>3. db' = PutSubAccounts(b, db, r)
  BY <1>1 DEF Commit, Handled
<1> HIDE DEF b, r
<1>4. /\ \A x \in DOMAIN db.accounts :
            \/ db'.accounts[x] = db.accounts[x]
            \/ /\ x \in AccountsOf(b, u) /\ db'.accounts[x] = [b.accounts[x] EXCEPT !.parent = r.account]
      /\ \A x \in DOMAIN db'.accounts \ DOMAIN db.accounts :
            db'.accounts[x].owner = u /\ db'.accounts[x].identity \notin Known(b, u)
      /\ \A x, y \in DOMAIN db'.accounts \ DOMAIN db.accounts :
            db'.accounts[x].identity = db'.accounts[y].identity => x = y
  BY <1>2, <1>3, PutSubAccountsTables
<1>5. c \in DOMAIN db'.accounts \ DOMAIN db.accounts /\ a \in DOMAIN db'.accounts
  BY <1>1 DEF Live
<1>6. a \in DOMAIN db.accounts /\ db'.accounts[a].owner = u /\ db'.accounts[c].owner = u
  BY <1>4, <1>5
<1>7. db'.accounts[a].identity \notin Known(b, u)
  BY <1>4, <1>5
<1> SUFFICES ASSUME <<"accounts", u>> \notin raced, <<"account", a>> \notin raced
             PROVE  FALSE
  BY <1>6 DEF Excused
<1>8. b \in Tables /\ u \in DOMAIN b.users
  BY <1>2 DEF Situation, Valid
<1>9. CASE a \in AccountsOf(b, u) /\ db'.accounts[a] = [b.accounts[a] EXCEPT !.parent = r.account]
  <2>1. b.accounts[a] \in Account
    BY <1>8, <1>9, TableTypes, LiveRows DEF AccountsOf
  <2>2. db'.accounts[a].identity = b.accounts[a].identity
    BY <1>9, <2>1 DEF Account
  <2> QED BY <1>7, <1>9, <2>2 DEF Known
<1>10. CASE db'.accounts[a] = db.accounts[a]
  <2>1. a \in AccountsOf(db, u)
    BY <1>6, <1>10 DEF AccountsOf, Live
  <2>2. <<"accounts", u>> \in q.relies /\ \A x \in AccountsOf(b, u) : <<"account", x>> \in q.relies
    BY <1>2 DEF Relies
  <2>3. \A o \in q.relies \ raced : Same(b, db, o)
    BY <1>2 DEF Serving, b
  <2>4. AccountsOf(db, u) = AccountsOf(b, u)
    <3>1. Same(b, db, <<"accounts", u>>)
      BY <2>2, <2>3
    <3> QED BY <1>8, <3>1 DEF Same
  <2>5. db.accounts[a] = b.accounts[a]
    <3>1. Same(b, db, <<"account", a>>)
      BY <2>1, <2>2, <2>3, <2>4
    <3>2. a \in DOMAIN b.accounts
      BY <2>1, <2>4 DEF AccountsOf, Live
    <3> QED BY <3>1, <3>2 DEF Same
  <2> QED BY <1>7, <1>10, <2>1, <2>4, <2>5 DEF Known
<1> QED BY <1>4, <1>6, <1>9, <1>10

\* PutSubAccounts inserts no account that its owner has, unless the accounts of the owner or
\* that account have raced: a list that is read before is enough.
THEOREM SubAccountsOnceHolds == Spec => SubAccountsOnce
<1>1. Core /\ [Next]_vars => [\A a \in Live(db'.accounts), c \in puts' \ puts :
        /\ a # c
        /\ db'.accounts[a].owner = db'.accounts[c].owner
        /\ db'.accounts[a].identity = db'.accounts[c].identity
        => Excused(<<"accounts", db'.accounts[c].owner>>) \/ Excused(<<"account", a>>)]_vars
  BY SubAccountsStep
<1>2. Spec => []Core
  BY CoreHolds
<1> QED BY <1>1, <1>2, PTL DEF Spec, SubAccountsOnce
=============================================================================
