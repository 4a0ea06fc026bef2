--------------------------- MODULE AnomalyQueries ---------------------------
(***************************************************************************)
(* What a user is told of the anomalies (costs/anomalies/): the documents  *)
(* of the accounts that the user may read, with their level, without the   *)
(* products that behave, and with those marked that a filter of the user   *)
(* hides.  The detection of Anomalies is that of one account, Identity,    *)
(* whose documents are in the index of the user Owner.                     *)
(***************************************************************************)
EXTENDS Anomalies, Access

CONSTANTS
    Tables,       \* accounts and shares that there may be
    Users,        \* who may ask
    Identity,     \* the account that is analysed
    Owner,        \* the user whose bills are analysed
    Filters,      \* filters users may have: rule, data, disabled
    Levels,       \* AnomalyDetectionLevels, in parts of Unit
    FirstWeekday  \* Weekday() of the day 0: 0 is Sunday

Rules == {"cost_max", "cost_min", "expected_cost_max", "expected_cost_min",
          "level", "month_day", "week_day", "product"}

\* Rows of accounts and shares that refer to an account.
IsTables(t) ==
    /\ t.accounts \in Seq([identity : {row.identity : row \in ToSet(t.accounts)}, owner : Users])
    /\ t.shares \in Seq([account : DOMAIN t.accounts, user : Users])

\* What is told of a product and day.
Alert == [abnormal : BOOLEAN, recurrent : BOOLEAN, filtered : BOOLEAN, level : Nat]

ASSUME QueriesAssumption ==
    /\ FirstWeekday \in Nat
    /\ Levels \in Seq(Nat) /\ Levels # <<>>
    /\ \A i, j \in DOMAIN Levels : i <= j => Levels[i] <= Levels[j]
    /\ \A f \in Filters : f.rule \in Rules /\ f.disabled \in BOOLEAN
    /\ \A t \in Tables : IsTables(t)
    /\ \A S \in SUBSET Keys : Refused \notin [S -> Alert]
    /\ \A t \in Tables : Refused \notin
           [accounts : SUBSET {row.identity : row \in ToSet(t.accounts)}, indexes : SUBSET Users]

VARIABLE tables  \* accounts and shares, which do not change here

QInit == Init /\ tables \in Tables
QNext == Next /\ UNCHANGED tables
QSpec == QInit /\ [][QNext]_<<vars, tables>>

-----------------------------------------------------------------------------
(* anomalies_route.go *)

\* getAnomalyLevel, of an anomaly: the first level whose successor is above the cost.
LevelOf(doc) ==
    LET Below(i) == ~ AtLeast(doc.value * Unit, Levels[i + 1], doc.maxExpected)
    IN Min({i \in 1 .. Len(Levels) - 1 : Below(i)} \cup {Len(Levels)}) - 1

\* getElasticSearchParams: documents of the accounts and dates in the indexes.
Hits(ai, from, to) ==
    {x \in DOMAIN shown : /\ Identity \in ai.accounts /\ Owner \in ai.indexes
                          /\ from <= x[2] /\ x[2] <= to}

\* A mistake: a product is removed for one day without an anomaly.
RemoveAnyNormalProduct(H) == {x \in H : \A y \in H : y[1] = x[1] => shown[y].abnormal}

RemoveNormalProduct(H) == {x \in H : \E y \in H : y[1] = x[1] /\ shown[y].abnormal}

-----------------------------------------------------------------------------
(* anomalyFilters/: whether a filter hides the anomaly of a product and day. *)

Weekday(d)  == (FirstWeekday + d) % 7
MonthDay(d) == 1 + ((d - 1) % Month)

CostMax(data, doc)         == doc.value > data
CostMin(data, doc)         == doc.value < data
ExpectedCostMax(data, doc) == ~ AtLeast(data, 1, doc.maxExpected)
ExpectedCostMin(data, doc) == Above(data, 1, doc.maxExpected)
LevelFilter(data, doc)     == LevelOf(doc) \notin data
MonthDayFilter(data, d)    == MonthDay(d) \notin data
WeekDayFilter(data, d)     == Weekday(d) - 1 \notin data
ProductFilter(data, p)     == p \notin data

\* filters, by name
Applies(f, x, doc) ==
    CASE f.rule = "cost_max"          -> CostMax(f.data, doc)
      [] f.rule = "cost_min"          -> CostMin(f.data, doc)
      [] f.rule = "expected_cost_max" -> ExpectedCostMax(f.data, doc)
      [] f.rule = "expected_cost_min" -> ExpectedCostMin(f.data, doc)
      [] f.rule = "level"             -> LevelFilter(f.data, doc)
      [] f.rule = "month_day"         -> MonthDayFilter(f.data, x[2])
      [] f.rule = "week_day"          -> WeekDayFilter(f.data, x[2])
      [] f.rule = "product"           -> ProductFilter(f.data, x[1])

\* genericValidUnsignedIntegerArray
ValidArray(data, min, max) == data # {} /\ data \subseteq min .. max

\* Valid: postAnomaliesFilters refuses other filters.
Valid(f) ==
    CASE f.rule = "level"     -> ValidArray(f.data, 0, 3)
      [] f.rule = "month_day" -> ValidArray(f.data, 1, 31)
      [] f.rule = "week_day"  -> ValidArray(f.data, 0, 6)
      [] f.rule = "product"   -> f.data # {}
      [] OTHER                -> TRUE

\* Apply, with the filters F of the user: whether an anomaly is marked as filtered.
Apply(F, x, doc) == doc.abnormal /\ \E f \in F : ~ f.disabled /\ Applies(f, x, doc)

\* getAnomaliesData: what is told of each product and day.
AnomaliesAnswer(u, list, from, to, F) ==
    LET ai == AccountsAndIndexes(tables, u, list) IN
    IF ai = Refused THEN Refused
    ELSE [x \in RemoveNormalProduct(Hits(ai, from, to)) |->
            [abnormal  |-> shown[x].abnormal,
             recurrent |-> shown[x].recurrent,
             filtered  |-> Apply(F, x, shown[x]),
             level     |-> IF shown[x].abnormal THEN LevelOf(shown[x]) ELSE 0]]

-----------------------------------------------------------------------------
(* Properties *)

\* The filters as the comments in anomalyFilters/ say: whether they hide an anomaly of
\* a level.
Monday == 1
Hides(f, x, doc, level) ==
    CASE f.rule = "cost_max"          -> doc.value > f.data
      [] f.rule = "cost_min"          -> doc.value < f.data
      [] f.rule = "expected_cost_max" -> ~ AtLeast(f.data, 1, doc.maxExpected)
      [] f.rule = "expected_cost_min" -> Above(f.data, 1, doc.maxExpected)
      [] f.rule = "level"             -> level \notin f.data
      [] f.rule = "month_day"         -> \A n \in f.data : MonthDay(x[2]) # n
      [] f.rule = "week_day"          -> \A n \in f.data : (Weekday(x[2]) - Monday - n) % 7 # 0
      [] f.rule = "product"           -> x[1] \notin f.data

\* The level of an anomaly is the last one whose part of the upper band it reaches.
ReachesLevel(i, doc) == i = 0 \/ AtLeast(doc.value * Unit, Levels[i + 1], doc.maxExpected)
LevelIs(i, doc) == ReachesLevel(i, doc) /\ \A j \in i + 1 .. Len(Levels) - 1 : ~ ReachesLevel(j, doc)

\* The rows that say that u may read account x in the index of user o.
Grants(u, x, o) ==
    {i \in DOMAIN tables.accounts :
        /\ tables.accounts[i] = [identity |-> x, owner |-> o]
        /\ o = u \/ \E k \in DOMAIN tables.shares : tables.shares[k] = [account |-> i, user |-> u]}

\* u may read the account, and has it in no other index.
Reads(u) == {o \in Users : Grants(u, Identity, o) # {}} = {Owner}

\* Whoever may read the account, and not the same account of another user, is told of each
\* of its anomalies, whatever other days and products there are, with the highest level it
\* reaches, and as filtered only if an enabled filter says so; the filters of the days of the
\* week agree but for Sundays.
AlertIsAnswered ==
    job = NoJob /\ shown = docs =>
        LET A == {y \in DOMAIN shown : shown[y].abnormal} IN
        /\ A # {} => \A u \in {v \in Users : Reads(v)} :
               LET a == AnomaliesAnswer(u, <<Identity>>, 1, Horizon, {})
               IN a # Refused /\ A \subseteq DOMAIN a /\ \A x \in A : LevelIs(a[x].level, shown[x])
        /\ \A x \in A, f \in {g \in Filters : Valid(g)} :
               \/ Apply({f}, x, shown[x]) <=> ~ f.disabled /\ Hides(f, x, shown[x], LevelOf(shown[x]))
               \/ Weekday(x[2]) = 0 /\ f.rule = "week_day"

Lists(S) == {<<>>} \cup {<<x>> : x \in S} \cup {<<x, y>> : x \in S, y \in S}

\* Whatever list is asked for, the answer is an error or has an index, so that no query
\* goes to all indexes; each of its accounts may be read in one of its indexes, each of
\* its indexes is there for one of its accounts, and a list gives nothing that the
\* query without a list does not give, unless it takes the same account from the index of
\* another user.
AccessIsGranted(u, list) ==
    LET ai == AccountsAndIndexes(tables, u, list) IN ai # Refused =>
        /\ ai.indexes # {}
        /\ \A x \in ai.accounts : \E o \in ai.indexes : Grants(u, x, o) # {}
        /\ \A o \in ai.indexes : \E x \in ai.accounts : Grants(u, x, o) # {}
        /\ ai.accounts \subseteq AllAccountsAndIndexes(tables, u).accounts

\* The documents of an account are found once ("the shared account and index will be
\* skipped"), though users may add the same account: two of the indexes hold them only if
\* one of the two is there for another account.
CountedOnce(u) ==
    LET ai == AllAccountsAndIndexes(tables, u)
        Holds(o, x) == [identity |-> x, owner |-> o] \in ToSet(tables.accounts)
    IN \A x \in ai.accounts, o, p \in ai.indexes :
        o # p /\ Holds(o, x) /\ Holds(p, x)
        => \E y \in ai.accounts \ {x}, i \in {o, p} : Grants(u, y, i) # {}

\* The tables do not change: for TLC one state of each is enough.
AtFirst == Items = {} /\ now = 1

\* What a user may read of accounts and indexes is what the rows grant, and nothing is
\* counted twice but for an account that two users have (es/accountsSharing.go).
AccessIsExact == AtFirst => \A u \in Users :
    /\ CountedOnce(u)
    /\ \A list \in Lists(AllAccountsAndIndexes(tables, u).accounts) : AccessIsGranted(u, list)
=============================================================================
