------------------------------ MODULE Accounts ------------------------------
(***************************************************************************)
(* Users, AWS accounts and their sharing (users/, users/shared_account/,   *)
(* aws/, aws/routes/): the tables of MySQL and the requests and tasks that *)
(* read rows of them, decide, and later write whole rows back.             *)
(*                                                                         *)
(* A request reads in the snapshot of its transaction (REPEATABLE READ)    *)
(* and writes over what is there when it writes.  So each handler is an    *)
(* operator Handler(b, d, r): the database after request r that read b and *)
(* writes to d; it is d itself when the handler refuses, or a statement    *)
(* fails and all is rolled back.  A write and the commit after it are one  *)
(* step, as the row is locked in between; only the deletion of an account, *)
(* whose goroutine starts before the commit, has a step for each.          *)
(***************************************************************************)
EXTENDS Integers, Sequences, SequencesExt, FiniteSets

CONSTANTS
    Databases,   \* the databases to begin with
    Workers,     \* goroutines that serve requests, and processes of tasks
    Emails, Passwords, Names,
    Identities,  \* AWS account ids
    Org,         \* what ListAccounts answers for the role of each identity
    DefaultRole, \* whether config.DefaultRole... are set
    None, Gone,
    MaxExternals, MaxRequests, MaxFaults  \* bounds

ASSUME AccountsAssumption ==
    /\ {MaxExternals, MaxRequests, MaxFaults} \subseteq Nat
    /\ Org \in [Identities -> SUBSET Identities]
    /\ DefaultRole \in BOOLEAN
    /\ None \notin Identities \cup Nat
    /\ {} \notin {Names, Passwords, Identities}
    /\ IsFiniteSet(Identities)

VARIABLES
    db,       \* the tables
    meant,    \* the tables if every request had been one step, as far as no
              \* two of them race and none fails (history)
    req,      \* what each worker is doing: a request and the snapshot it reads
    given,    \* how many external ids generateExternal has made
    expired,  \* the tokens that are more than an hour old
    docs,     \* the bill repositories with documents in ElasticSearch
    cleans,   \* the goroutines of deletions: the repositories to clean
    raced,    \* what two overlapping requests both rely on (history)
    failed,   \* what an ignored failure was about (history)
    resets,   \* the tokens that have changed a password, in order (history)
    puts,     \* the accounts inserted by PutSubAccounts (history)
    imported, \* the bill repositories whose bills were imported (history)
    served, faults

history == <<meant, raced, failed, resets, puts, imported>>
vars == <<db, req, given, expired, docs, cleans, served, faults, history>>

-----------------------------------------------------------------------------
(* Rows *)

Level     == 0 .. 2
Admin     == 0
Standard  == 1
External  == 1 .. MaxExternals
FromConfig == 0   \* config.DefaultRoleExternal
SomeName   == CHOOSE n \in Names : TRUE

User    == [email : Emails, auth : Passwords, external : External \cup {None},
            parent : Nat \cup {None}, entitled : BOOLEAN]
Account == [owner : Nat, pretty : Names, role : Identities \cup {None},
            external : External \cup {FromConfig, None},
            identity : Identities \cup {None}, parent : Nat \cup {None}]
Share   == [account : Nat, user : Nat, level : Level]
Token   == [user : Nat]
Repo    == [account : Nat]

\* Rows are never moved: an id is an index, and a deleted row is Gone.
Table(R) == Seq(R \cup {Gone})
Tables == [users : Seq(User), accounts : Table(Account), shares : Table(Share),
           tokens : Table(Token), repos : Table(Repo)]

Live(t)       == {i \in DOMAIN t : t[i] # Gone}
AccountsOf(d, u) == {a \in Live(d.accounts) : d.accounts[a].owner = u}
SharesOf(d, u)   == {s \in Live(d.shares) : d.shares[s].user = u}
ReposOf(d, a)    == {p \in Live(d.repos) : d.repos[p].account = a}
Externals(d)     == ({d.users[u].external : u \in DOMAIN d.users}
                        \cup {d.accounts[a].external : a \in Live(d.accounts)}) \cap External
WithEmail(d, e)  == {u \in DOMAIN d.users : d.users[u].email = e}

\* NULL is no row.
ASSUME GoneAssumption == Gone \notin Account \cup Share \cup Token \cup Repo

\* The foreign keys of the tables.
Linked(d) ==
    /\ \A u \in DOMAIN d.users : d.users[u].parent \in DOMAIN d.users \cup {None}
    /\ \A a \in Live(d.accounts) : d.accounts[a].owner \in DOMAIN d.users
    /\ \A s \in Live(d.shares) : /\ d.shares[s].account \in Live(d.accounts)
                                 /\ d.shares[s].user \in DOMAIN d.users
    /\ \A t \in Live(d.tokens) : d.tokens[t].user \in DOMAIN d.users
    /\ \A p \in Live(d.repos) : d.repos[p].account \in Live(d.accounts)

\* The identity of an account is that of its role, but for those made by createUser.
Identified(d) == \A a \in Live(d.accounts) :
    d.accounts[a].external # FromConfig => d.accounts[a].role \in {None, d.accounts[a].identity}

\* The external ids that were given are the first ones, and each has one place.
GivenOnce(d) ==
    /\ Externals(d) = 1 .. Cardinality(Externals(d))
    /\ \A u \in DOMAIN d.users : d.users[u].external \in External =>
            /\ \A v \in DOMAIN d.users : d.users[u].external = d.users[v].external => u = v
            /\ \A a \in Live(d.accounts) : d.users[u].external # d.accounts[a].external
    /\ \A a, c \in Live(d.accounts) :
            d.accounts[a].external = d.accounts[c].external /\ d.accounts[a].external \in External => a = c

SharedOnce(d) == \A s, t \in Live(d.shares) :
    d.shares[s].account = d.shares[t].account /\ d.shares[s].user = d.shares[t].user => s = t

\* What requests one after the other leave, if none fails.
ASSUME DatabasesAssumption == \A d \in Databases :
    d \in Tables /\ Linked(d) /\ Identified(d) /\ GivenOnce(d) /\ SharedOnce(d)

-----------------------------------------------------------------------------
(* Statements *)

\* INSERT and UPDATE of a user: the email is a unique key.
EmailFree(d, e, u) == WithEmail(d, e) \subseteq {u}
WriteUser(d, u, row) == [d EXCEPT !.users[u] = row]

\* models.AwsAccount.Update: all columns, of the row if it is still there.
WriteAccount(d, a, row) ==
    IF a \in Live(d.accounts) THEN [d EXCEPT !.accounts[a] = row] ELSE d

\* DELETE FROM aws_account, with the foreign keys that cascade.
DropAccount(d, a) ==
    [d EXCEPT !.accounts[a] = Gone,
              !.shares = [s \in DOMAIN @ |->
                  IF @[s] # Gone /\ @[s].account = a THEN Gone ELSE @[s]],
              !.repos  = [p \in DOMAIN @ |->
                  IF @[p] # Gone /\ @[p].account = a THEN Gone ELSE @[p]]]

\* GetAwsAccountWithIdFromUser.
Owns(b, u, a) == a \in AccountsOf(b, u)

\* GetAwsAccountIdentity.
IdentityOf(row) == IF row.role = None THEN row.identity ELSE row.role

-----------------------------------------------------------------------------
(* AWS accounts *)

NextExternal(b, d, r) ==
    IF b.users[r.user].external = None /\ EmailFree(d, b.users[r.user].email, r.user)
    THEN WriteUser(d, r.user, [b.users[r.user] EXCEPT !.external = r.fresh])
    ELSE d

\* UpdateNextExternal after the account was written.
SpendExternal(b, d, r, written) ==
    IF EmailFree(d, b.users[r.user].email, r.user)
    THEN WriteUser(written, r.user, [b.users[r.user] EXCEPT !.external = None])
    ELSE d

\* A mistake: the external id remains the next one.
PostWithoutSpending(b, d, r) ==
    IF b.users[r.user].external # r.external THEN d
    ELSE [d EXCEPT !.accounts = Append(@,
            [owner |-> r.user, pretty |-> r.pretty, role |-> r.role,
             external |-> r.external, identity |-> r.role, parent |-> None])]

PostAwsAccount(b, d, r) ==
    IF b.users[r.user].external # r.external THEN d
    ELSE SpendExternal(b, d, r, [d EXCEPT !.accounts = Append(@,
            [owner |-> r.user, pretty |-> r.pretty, role |-> r.role,
             external |-> r.external, identity |-> r.role, parent |-> None])])

\* A mistake: all accounts of the user are saved.
PatchAllAccounts(b, d, r) ==
    IF ~Owns(b, r.user, r.account) THEN d
    ELSE [d EXCEPT !.accounts = [a \in DOMAIN @ |->
            CASE a = r.account -> [b.accounts[a] EXCEPT !.pretty = r.pretty]
              [] Owns(b, r.user, a) /\ @[a] # Gone /\ a # r.account -> b.accounts[a]
              [] OTHER -> @[a]]]

PatchAwsAccount(b, d, r) ==
    IF ~Owns(b, r.user, r.account) THEN d
    ELSE WriteAccount(d, r.account, [b.accounts[r.account] EXCEPT !.pretty = r.pretty])

MaySetRole(b, r) ==
    /\ Owns(b, r.user, r.account)
    /\ b.accounts[r.account].parent # None
    /\ b.users[r.user].external = r.external
    /\ b.accounts[r.account].identity = r.role

PatchAwsSubaccount(b, d, r) ==
    IF ~MaySetRole(b, r) THEN d
    ELSE SpendExternal(b, d, r, WriteAccount(d, r.account,
            [b.accounts[r.account] EXCEPT !.role = r.role, !.external = r.external]))

DeleteAwsAccount(b, d, r) ==
    IF Owns(b, r.user, r.account) /\ Owns(d, r.user, r.account)
    THEN DropAccount(d, r.account) ELSE d

\* The identities of the accounts that the user has; a mistake: of the sub accounts.
KnownSubAccounts(b, u) ==
    {b.accounts[x].identity : x \in {y \in AccountsOf(b, u) : b.accounts[y].parent # None}}

Known(b, u) == {b.accounts[x].identity : x \in AccountsOf(b, u)}

\* The sub accounts that are not among the accounts of the user become accounts,
\* then those that are and have no parent get one.
PutSubAccounts(b, d, r) ==
    LET aa    == r.row
        subs  == Org[IdentityOf(aa)]
        new   == SetToSeq(subs \ Known(b, aa.owner))
        adopted == {x \in AccountsOf(b, aa.owner) :
                        /\ b.accounts[x].parent = None
                        /\ b.accounts[x].identity \in subs \ {IdentityOf(aa)}}
        kept  == [x \in DOMAIN d.accounts |->
                    IF x \in adopted /\ d.accounts[x] # Gone
                    THEN [b.accounts[x] EXCEPT !.parent = r.account] ELSE d.accounts[x]]
        added == [i \in DOMAIN new |->
                    [owner |-> aa.owner, pretty |-> SomeName, role |-> None,
                     external |-> None, identity |-> new[i], parent |-> r.account]]
    IN [d EXCEPT !.accounts = kept \o added]

\* taskUpdateAwsIdentity: all accounts in one transaction.
UpdateAwsIdentity(b, d, r) ==
    [d EXCEPT !.accounts = [x \in DOMAIN @ |->
        IF x \in Live(b.accounts) /\ @[x] # Gone
        THEN [b.accounts[x] EXCEPT !.identity = IdentityOf(b.accounts[x])] ELSE @[x]]]

-----------------------------------------------------------------------------
(* Users *)

NewUser(e, p, parent) ==
    [email |-> e, auth |-> p, external |-> None, parent |-> parent, entitled |-> TRUE]

CreateUser(b, d, r) ==
    LET u == Len(d.users) + 1
        a == Len(d.accounts) + 1
        registered == [d EXCEPT !.users = Append(@, NewUser(r.email, r.password, None))]
    IN IF ~EmailFree(d, r.email, u) THEN d
       ELSE IF ~DefaultRole THEN registered
       ELSE [registered EXCEPT
                !.accounts = Append(@, [owner |-> u, pretty |-> SomeName,
                    role |-> CHOOSE i \in Identities : TRUE, external |-> FromConfig,
                    identity |-> None, parent |-> None]),
                !.repos = Append(@, [account |-> a])]

\* createViewerUser: the user, and a token to choose the password.
CreateViewer(b, d, r) ==
    LET u == Len(d.users) + 1
    IN IF b.users[r.user].parent # None \/ ~EmailFree(d, r.email, u) THEN d
       ELSE [d EXCEPT !.users  = Append(@, NewUser(r.email, r.password, r.user)),
                      !.tokens = Append(@, [user |-> u])]

PatchUser(b, d, r) ==
    IF EmailFree(d, r.email, r.user)
    THEN WriteUser(d, r.user, [b.users[r.user] EXCEPT !.email = r.email, !.auth = r.password])
    ELSE d

UpdateEntitlement(b, d, r) ==
    IF EmailFree(d, b.users[r.user].email, r.user)
    THEN WriteUser(d, r.user, [b.users[r.user] EXCEPT !.entitled = r.entitled])
    ELSE d

\* forgottenPassword; the goroutine of cleanExpiredTokens is an action of its own.
ForgottenPassword(b, d, r) ==
    IF WithEmail(b, r.email) = {} THEN d
    ELSE [d EXCEPT !.tokens = Append(@, [user |-> CHOOSE u \in WithEmail(b, r.email) : TRUE])]

\* A mistake: the token remains.
ResetAndKeepToken(b, d, r) ==
    IF r.token \in Live(b.tokens) /\ EmailFree(d, b.users[r.user].email, r.user)
    THEN WriteUser(d, r.user, [b.users[r.user] EXCEPT !.auth = r.password])
    ELSE d

\* resetPassword; r.user is the user of the token.
ResetPassword(b, d, r) ==
    IF r.token \in Live(b.tokens) /\ EmailFree(d, b.users[r.user].email, r.user)
    THEN [WriteUser(d, r.user, [b.users[r.user] EXCEPT !.auth = r.password])
            EXCEPT !.tokens[r.token] = Gone]
    ELSE d

-----------------------------------------------------------------------------
(* Shares *)

\* checkLevel(toCheck, mine).
CheckLevel(toCheck, mine) ==
    \/ mine = Admin
    \/ mine = Standard /\ mine <= toCheck

\* The shares of u on account a.
Rights(b, u, a) == {b.shares[s].level : s \in {x \in SharesOf(b, u) : b.shares[x].account = a}}

\* safetyCheckByAccountIdAndPermissionLevel.
MayInvite(b, u, a, level) ==
    /\ a \in Live(b.accounts)
    /\ \/ b.accounts[a].owner = u
       \/ \E mine \in Rights(b, u, a) : CheckLevel(level, mine)

\* safetyCheckByShareIdAndPermissionLevel: the first share of u that allows the new
\* level decides.
MayChange(b, u, s, level) ==
    /\ s \in Live(b.shares)
    /\ LET a     == b.shares[s].account
           first == {x \in SharesOf(b, u) : b.shares[x].account = a /\ CheckLevel(level, b.shares[x].level)}
       IN \/ b.accounts[a].owner = u
          \/ \E x \in first :
                /\ \A y \in first : x <= y
                /\ ~(b.shares[x].level = Standard /\ b.shares[s].level = Admin)

\* A mistake: any share will do.
MayDeleteWithAnyShare(b, u, s) ==
    /\ s \in Live(b.shares)
    /\ LET a == b.shares[s].account IN b.accounts[a].owner = u \/ Rights(b, u, a) # {}

\* safetyCheckByShareId.
MayDelete(b, u, s) ==
    /\ s \in Live(b.shares)
    /\ LET a == b.shares[s].account
       IN \/ b.accounts[a].owner = u
          \/ \E mine \in Rights(b, u, a) : CheckLevel(b.shares[s].level, mine)

\* A mistake: only one level is looked for.
AlreadyStandard(b, a, guest) == Standard \in Rights(b, guest, a)

\* checkSharedAccount.
AlreadyShared(b, a, guest) == Rights(b, guest, a) # {}

\* INSERT INTO shared_account, whose account must still exist.
ShareWith(d, a, guest, level) ==
    [d EXCEPT !.shares = Append(@, [account |-> a, user |-> guest, level |-> level])]

InviteUser(b, d, r) ==
    LET guests == WithEmail(b, r.email)
        guest  == CHOOSE u \in guests : TRUE
        new    == Len(d.users) + 1
    IN IF ~MayInvite(b, r.user, r.account, r.level) \/ r.account \notin Live(d.accounts) THEN d
       ELSE IF guests # {}
       THEN IF \/ guest \in {r.user, b.accounts[r.account].owner}
               \/ AlreadyShared(b, r.account, guest)
            THEN d ELSE ShareWith(d, r.account, guest, r.level)
       ELSE IF ~EmailFree(d, r.email, new) THEN d
       ELSE [ShareWith(d, r.account, new, r.level) EXCEPT
                !.users  = Append(@, NewUser(r.email, CHOOSE p \in Passwords : TRUE, None)),
                !.tokens = Append(@, [user |-> new])]

\* UpdateSharedUser and DeleteSharedUser work outside the transaction that was
\* used for the check, on the share as it is then.
UpdateShare(b, d, r) ==
    IF MayChange(b, r.user, r.share, r.level) /\ r.share \in Live(d.shares)
    THEN [d EXCEPT !.shares[r.share].level = r.level] ELSE d

DeleteShare(b, d, r) ==
    IF MayDelete(b, r.user, r.share) /\ r.share \in Live(d.shares)
    THEN [d EXCEPT !.shares[r.share] = Gone] ELSE d

-----------------------------------------------------------------------------
(* What a request relies on between its first read and its commit *)

Relied(r) ==
    LET u == <<"user", r.user>> IN
    CASE r.kind \in {"next", "entitlement"} -> {u}
      [] r.kind = "post"       -> {u, <<"accounts", r.user>>}
      [] r.kind = "patch"      -> {<<"account", r.account>>}
      [] r.kind = "subaccount" -> {u, <<"account", r.account>>}
      [] r.kind = "delete"     -> {<<"account", r.account>>, <<"shares", r.account>>,
                                   <<"bills", r.account>>, <<"accounts", r.user>>}
      [] r.kind = "ingest"     -> {<<"bills", r.account>>}
      [] r.kind = "put"        -> {<<"accounts", r.row.owner>>}
                                    \cup {<<"account", a>> : a \in AccountsOf(db, r.row.owner)}
      [] r.kind = "identity"   -> {<<"default role", 0>>}
                                    \cup {<<"account", a>> : a \in Live(db.accounts)}
      [] r.kind = "user"       -> {<<"email", r.email>>, <<"default role", 0>>}
      [] r.kind = "viewer"     -> {<<"email", r.email>>}
      [] r.kind = "profile"    -> {u, <<"email", r.email>>, <<"email", db.users[r.user].email>>}
      [] r.kind = "forgotten"  -> {<<"email", r.email>>}
      [] r.kind = "reset"      -> {u, <<"token", r.token>>}
      [] r.kind = "invite"     -> {<<"shares", r.account>>, <<"email", r.email>>}
      [] r.kind \in {"level", "unshare"} -> {<<"shares", db.shares[r.share].account>>}
      [] r.kind = "repository" -> {<<"bills", r.account>>}

Idle == [phase |-> "idle"]
Busy == {w \in Workers : req[w] # Idle}

\* What r shares with the requests that are being served.
Races(r) == Relied(r) \cap UNION {req[w].relies : w \in Busy}

Entitled(u) == u \in DOMAIN db.users /\ db.users[u].entitled
\* RequireAuthenticatedUser{ViewerCannot}.
NotViewer(u) == Entitled(u) /\ db.users[u].parent = None
\* RequireAuthenticatedUser{ViewerAsParent}.
ActsAs(u) == IF db.users[u].parent = None THEN u ELSE db.users[u].parent

Locked(a) == \E w \in Busy : req[w].phase = "uncommitted" /\ req[w].r.account = a

Handled(b, d, r) ==
    CASE r.kind = "next"        -> NextExternal(b, d, r)
      [] r.kind = "post"        -> PostAwsAccount(b, d, r)
      [] r.kind = "patch"       -> PatchAwsAccount(b, d, r)
      [] r.kind = "subaccount"  -> PatchAwsSubaccount(b, d, r)
      [] r.kind = "delete"      -> DeleteAwsAccount(b, d, r)
      [] r.kind = "put"         -> PutSubAccounts(b, d, r)
      [] r.kind = "identity"    -> UpdateAwsIdentity(b, d, r)
      [] r.kind = "user"        -> CreateUser(b, d, r)
      [] r.kind = "viewer"      -> CreateViewer(b, d, r)
      [] r.kind = "profile"     -> PatchUser(b, d, r)
      [] r.kind = "entitlement" -> UpdateEntitlement(b, d, r)
      [] r.kind = "forgotten"   -> ForgottenPassword(b, d, r)
      [] r.kind = "reset"       -> ResetPassword(b, d, r)
      [] r.kind = "invite"      -> InviteUser(b, d, r)
      [] r.kind = "level"       -> UpdateShare(b, d, r)
      [] r.kind = "unshare"     -> DeleteShare(b, d, r)

Mean(m) == meant' = IF raced \cup failed = {} THEN m ELSE db'

-----------------------------------------------------------------------------
(* Requests begin: the first read takes the snapshot *)

Receive(r) ==
    /\ served < MaxRequests
    /\ served' = served + 1
    /\ raced' = raced \cup Races(r)

Begin(w, r) ==
    /\ req[w] = Idle
    /\ Receive(r)
    /\ req' = [req EXCEPT ![w] = [r |-> r, b |-> db, phase |-> "read", relies |-> Relied(r)]]
    /\ UNCHANGED <<db, expired, docs, cleans, faults, meant, failed, resets, puts, imported>>

BeginNext(w) == \E u \in DOMAIN db.users :
    /\ NotViewer(u)
    /\ given < MaxExternals
    /\ given' = given + 1
    /\ Begin(w, [kind |-> "next", user |-> u, fresh |-> given + 1])

BeginAccountRequest(w) ==
    /\ UNCHANGED given
    /\ \E u \in DOMAIN db.users : NotViewer(u) /\
        \/ \E e \in 1 .. given, i \in Identities :
            Begin(w, [kind |-> "post", user |-> u, external |-> e, role |-> i, pretty |-> SomeName])
        \/ \E a \in Live(db.accounts) :
            \/ \E n \in Names : Begin(w, [kind |-> "patch", user |-> u, account |-> a, pretty |-> n])
            \/ \E e \in 1 .. given, i \in Identities : Begin(w,
                [kind |-> "subaccount", user |-> u, account |-> a, external |-> e, role |-> i])
            \/ Owns(db, u, a) /\ Begin(w, [kind |-> "delete", user |-> u, account |-> a])

\* The task ingest, of an account with a bill repository, and taskUpdateAwsIdentity.
BeginTask(w) ==
    /\ UNCHANGED given
    /\ \/ \E p \in Live(db.repos) : LET a == db.repos[p].account IN
            Begin(w, [kind |-> "ingest", account |-> a, repo |-> p, row |-> db.accounts[a], user |-> 0])
       \/ Begin(w, [kind |-> "identity", user |-> 0])

BeginUserRequest(w) ==
    /\ UNCHANGED given
    /\ \/ \E u \in DOMAIN db.users, e \in Emails, p \in Passwords :
            Entitled(u) /\ Begin(w, [kind |-> "profile", user |-> u, email |-> e, password |-> p])
       \/ \E u \in DOMAIN db.users, e \in BOOLEAN :
            Begin(w, [kind |-> "entitlement", user |-> u, entitled |-> e])
       \/ \E t \in Live(db.tokens) \ expired, p \in Passwords :
            Begin(w, [kind |-> "reset", user |-> db.tokens[t].user, token |-> t, password |-> p])

BeginShareRequest(w) ==
    /\ UNCHANGED given
    /\ \E u \in {ActsAs(x) : x \in {y \in DOMAIN db.users : Entitled(y)}} :
        \/ \E a \in Live(db.accounts), e \in Emails, l \in Level :
            Begin(w, [kind |-> "invite", user |-> u, account |-> a, email |-> e, level |-> l])
        \/ \E s \in Live(db.shares) :
            \/ \E l \in Level : Begin(w, [kind |-> "level", user |-> u, share |-> s, level |-> l])
            \/ Begin(w, [kind |-> "unshare", user |-> u, share |-> s])

\* Requests that write without having read what another may change are one step:
\* createUser, createViewerUser, forgottenPassword.
OneStep(r) ==
    /\ Receive(r)
    /\ db' = Handled(db, db, r)
    /\ Mean(Handled(meant, meant, r))
    /\ UNCHANGED <<req, given, expired, docs, cleans, faults, failed, resets, puts, imported>>

Register == \E e \in Emails, p \in Passwords :
    \/ OneStep([kind |-> "user", email |-> e, password |-> p, user |-> 0])
    \/ \E u \in DOMAIN db.users :
        NotViewer(u) /\ OneStep([kind |-> "viewer", email |-> e, password |-> p, user |-> u])
    \/ OneStep([kind |-> "forgotten", email |-> e, user |-> 0])

\* POST /aws/billrepository; the rest of it is in BillIngestion.
PostBillRepository == \E a \in Live(db.accounts) :
    /\ ~Locked(a)
    /\ Receive([kind |-> "repository", account |-> a, user |-> 0])
    /\ db' = [db EXCEPT !.repos = Append(@, [account |-> a])]
    /\ Mean([meant EXCEPT !.repos = Append(@, [account |-> a])])
    /\ UNCHANGED <<req, given, expired, docs, cleans, faults, failed, resets, puts, imported>>

-----------------------------------------------------------------------------
(* Requests end: the writes and the commit *)

Finish(w) == req' = [req EXCEPT ![w] = Idle]

\* The accounts a handler may write, and has to wait for.
Writes(r) ==
    CASE r.kind \in {"patch", "subaccount", "invite"} -> {r.account}
      [] r.kind \in {"put", "identity"} -> Live(db.accounts)
      [] r.kind \in {"level", "unshare"} -> {db.shares[s].account : s \in Live(db.shares) \cap {r.share}}
      [] OTHER -> {}

Commit(w) ==
    /\ w \in Busy
    /\ LET r == req[w].r IN
        /\ req[w].phase = "read"
        /\ r.kind \notin {"delete", "ingest"}
        /\ \A a \in Writes(r) : ~Locked(a)
        /\ db' = Handled(req[w].b, db, r)
        /\ Mean(Handled(meant, meant, r))
        /\ resets' = IF r.kind = "reset" /\ db' # db THEN Append(resets, r.token) ELSE resets
        /\ puts' = IF r.kind = "put"
                   THEN puts \cup (DOMAIN db'.accounts \ DOMAIN db.accounts) ELSE puts
    /\ Finish(w)
    /\ UNCHANGED <<given, expired, docs, cleans, raced, failed, imported, served, faults>>

\* A mistake: the repositories are listed after the DELETE.
DeleteThenList(w) ==
    /\ w \in Busy
    /\ req[w].r.kind = "delete" /\ req[w].phase = "read" /\ ~Locked(req[w].r.account)
    /\ req' = [req EXCEPT ![w].phase = "uncommitted"]
    /\ cleans' = cleans \cup {ReposOf(Handled(req[w].b, db, req[w].r), req[w].r.account)}
    /\ UNCHANGED <<db, given, expired, docs, served, faults, history>>

\* DELETE, and the goroutine that cleans the repositories of the snapshot.
DeleteStatement(w) ==
    /\ w \in Busy
    /\ req[w].r.kind = "delete" /\ req[w].phase = "read" /\ ~Locked(req[w].r.account)
    /\ req' = [req EXCEPT ![w].phase = "uncommitted"]
    /\ cleans' = cleans \cup {ReposOf(req[w].b, req[w].r.account)}
    /\ UNCHANGED <<db, given, expired, docs, served, faults, history>>

CommitDelete(w) ==
    /\ w \in Busy
    /\ req[w].phase = "uncommitted"
    /\ db' = Handled(req[w].b, db, req[w].r)
    /\ Mean(Handled(meant, meant, req[w].r))
    /\ Finish(w)
    /\ UNCHANGED <<given, expired, docs, cleans, raced, failed, resets, puts, imported, served, faults>>

\* CleanByBillRepositoryId for each of the repositories.
Clean == \E c \in cleans :
    /\ docs' = docs \ c
    /\ cleans' = cleans \ {c}
    /\ UNCHANGED <<db, req, given, expired, served, faults, history>>

\* The bills are in; updateSubAccounts follows, in a transaction of its own.
Ingested(w) ==
    /\ w \in Busy
    /\ req[w].r.kind = "ingest"
    /\ docs' = docs \cup {req[w].r.repo}
    /\ imported' = imported \cup {req[w].r.repo}
    /\ IF req[w].r.row.role = None \/ IdentityOf(req[w].r.row) = None
       THEN Finish(w) /\ UNCHANGED raced  \* no credentials
       ELSE LET r == [req[w].r EXCEPT !.kind = "put"] IN
            /\ req' = [req EXCEPT ![w] = [r |-> r, b |-> db, phase |-> "read", relies |-> Relied(r)]]
            /\ raced' = raced \cup (Relied(r) \cap UNION {req[x].relies : x \in Busy \ {w}})
    /\ UNCHANGED <<db, given, expired, cleans, served, faults, meant, failed, resets, puts>>

Expire == \E t \in Live(db.tokens) \ expired :
    /\ expired' = expired \cup {t}
    /\ UNCHANGED <<db, req, given, docs, cleans, served, faults, history>>

CleanExpiredTokens ==
    LET Cleaned(d) == [d EXCEPT !.tokens =
            [t \in DOMAIN @ |-> IF t \in expired THEN Gone ELSE @[t]]]
    IN /\ Cleaned(db) # db
       /\ db' = Cleaned(db)
       /\ Mean(Cleaned(meant))
       /\ raced' = raced \cup ({<<"token", t>> : t \in expired} \cap UNION {req[w].relies : w \in Busy})
       /\ UNCHANGED <<req, given, expired, docs, cleans, served, faults, failed, resets, puts, imported>>

-----------------------------------------------------------------------------
(* Failures *)

Fault == faults < MaxFaults /\ faults' = faults + 1

InTransaction(w) == req[w].phase = "uncommitted" \/ req[w].r.kind \notin {"ingest", "level", "unshare", "entitlement"}

\* A check, a statement or a mail fails, the output is an error: Rollback.
Rollback(w) ==
    /\ w \in Busy /\ Fault
    /\ req[w].phase = "read"
    /\ Finish(w)
    /\ UNCHANGED <<db, given, expired, docs, cleans, served, history>>

\* The error of the COMMIT is ignored: the answer says that it is done.
CommitFails(w) ==
    /\ w \in Busy /\ Fault
    /\ InTransaction(w)
    /\ (req[w].r.kind = "delete" => req[w].phase = "uncommitted")
    /\ meant' = db
    /\ failed' = failed \cup req[w].relies
    /\ Finish(w)
    /\ UNCHANGED <<db, given, expired, docs, cleans, served, raced, resets, puts, imported>>

\* The err of the UPDATE is shadowed (aws/aws.go), or that of the DELETE of the token
\* is only logged (users/password.go): the request goes on.
UpdateFails(w) ==
    /\ w \in Busy /\ Fault
    /\ LET r == req[w].r IN
        /\ \/ r.kind = "patch" /\ UNCHANGED db
           \/ r.kind = "subaccount" /\ MaySetRole(req[w].b, r) /\ db' = SpendExternal(req[w].b, db, r, db)
           \/ /\ r.kind = "reset"
              /\ LET d == ResetPassword(req[w].b, db, r) IN
                    d # db /\ db' = [d EXCEPT !.tokens = db.tokens]
        /\ resets' = IF r.kind = "reset" THEN Append(resets, r.token) ELSE resets
    /\ meant' = db'
    /\ failed' = failed \cup req[w].relies
    /\ Finish(w)
    /\ UNCHANGED <<given, expired, docs, cleans, served, raced, puts, imported>>

-----------------------------------------------------------------------------
Init ==
    /\ db \in Databases
    /\ meant = db
    /\ req = [w \in Workers |-> Idle]
    /\ given = Cardinality(Externals(db))
    /\ served = 0 /\ faults = 0
    /\ expired = {} /\ cleans = {} /\ raced = {} /\ failed = {} /\ puts = {}
    /\ docs = Live(db.repos) /\ imported = docs
    /\ resets = <<>>

Next ==
    \/ \E w \in Workers :
        \/ BeginNext(w) \/ BeginAccountRequest(w) \/ BeginTask(w)
        \/ BeginUserRequest(w) \/ BeginShareRequest(w)
        \/ Commit(w) \/ DeleteStatement(w) \/ CommitDelete(w) \/ Ingested(w)
        \/ Rollback(w) \/ CommitFails(w) \/ UpdateFails(w)
    \/ Register \/ PostBillRepository \/ Clean \/ Expire \/ CleanExpiredTokens

Spec == Init /\ [][Next]_vars
-----------------------------------------------------------------------------
(* Properties *)

Requests == {"next", "post", "patch", "subaccount", "delete", "ingest", "put", "identity",
             "user", "viewer", "profile", "entitlement", "forgotten", "reset", "invite",
             "level", "unshare"}

\* Rows have their types, and a request that is served has read a database.
TypeOK ==
    /\ {db, meant} \subseteq Tables
    /\ \A w \in Busy : /\ req[w].b \in Tables
                       /\ req[w].r.kind \in Requests
                       /\ req[w].phase \in {"read", "uncommitted"}
                       /\ req[w].phase = "uncommitted" => req[w].r.kind = "delete"
    /\ docs \cup imported \cup UNION cleans \subseteq DOMAIN db.repos
    /\ expired \cup ToSet(resets) \subseteq DOMAIN db.tokens
    /\ puts \subseteq DOMAIN db.accounts
    /\ given \in 0 .. MaxExternals

Excused(o) == o \in raced \cup failed

\* Requests that overlap, but rely on nothing they share, and whose statements do
\* not fail, leave the database that they would leave if each had run alone at the
\* moment of its commit, although all of them write back whole rows they read before.
SerialUnlessRaced == raced \cup failed = {} => db = meant

\* An external id serves one account: it is the next one of one user, until an
\* account is made or a role is set with it (routeAwsPost.go, routeAwsSubaccountPath.go).
ExternalOnce == \A a, c \in Live(db.accounts) :
    a # c /\ db.accounts[a].external = db.accounts[c].external
        /\ db.accounts[a].external \in External
    => Excused(<<"user", db.accounts[a].owner>>)

\* PutSubAccounts (aws/sub_account.go) inserts no account that the user has, unless another
\* request changed the accounts of the user, or that account, at the same time.
SubAccountsOnce == [][\A a \in Live(db'.accounts), c \in puts' \ puts :
    /\ a # c
    /\ db'.accounts[a].owner = db'.accounts[c].owner
    /\ db'.accounts[a].identity = db'.accounts[c].identity
    => Excused(<<"accounts", db'.accounts[c].owner>>) \/ Excused(<<"account", a>>)]_vars

\* An account is shared with a guest once (checkSharedAccount): otherwise a share that
\* is changed or removed leaves the guest the rights of the other one.
ShareOnce == \A s, t \in Live(db.shares) :
    s # t /\ db.shares[s].account = db.shares[t].account /\ db.shares[s].user = db.shares[t].user
    => Excused(<<"shares", db.shares[s].account>>)

\* Whoever gives, changes or removes a share owns the account, or has at that very
\* moment a share at least as strong as the one before and the one after, and more than
\* reading: the checks are made before, in another transaction (security_checks.go).
Authority(r) ==
    LET a    == IF r.kind = "invite" THEN r.account ELSE db.shares[r.share].account
        mine == Rights(db, r.user, a) \ {2}
        old  == IF r.kind = "invite" THEN 2 ELSE db.shares[r.share].level
        new  == IF r.kind = "unshare" THEN 2 ELSE r.level
    IN \/ db.accounts[a].owner = r.user
       \/ \E l \in mine : l <= old /\ l <= new
       \/ Excused(<<"shares", a>>)

AuthorityAtWrite == [][\A w \in Busy :
    req[w].r.kind \in {"invite", "level", "unshare"} /\ req'[w] = Idle /\ db'.shares # db.shares
    => Authority(req[w].r)]_vars

\* A token resets a password once (users/password.go).
TokenOnce == \A i, j \in DOMAIN resets :
    i # j /\ resets[i] = resets[j] => Excused(<<"token", resets[i]>>)

\* The documents of the bills of a deleted account go away, and no others do: the
\* goroutine of the deletion cleans the repositories of the snapshot, whether the
\* transaction is committed or not.
DocsFollowRows == \A p \in imported \ UNION cleans :
    /\ \A w \in Busy : req[w].phase # "uncommitted"
    /\ (p \in docs) # (p \in Live(db.repos))
    => \E a \in DOMAIN db.accounts : Excused(<<"bills", a>>)

\* The tables have their types and, without races and failures, what the requests would
\* have left one after the other.
TablesAreSerial == TypeOK /\ SerialUnlessRaced
=============================================================================
