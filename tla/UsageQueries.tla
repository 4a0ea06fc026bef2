---------------------------- MODULE UsageQueries ----------------------------
(***************************************************************************)
(* What a user is told of the usage of accounts (usageReports/): the       *)
(* monthly reports if there are any, else the last daily reports with the  *)
(* costs of the bills, and the unused resources among them.                *)
(***************************************************************************)
EXTENDS UsageReports, FiniteSetsExt

CONSTANTS
    OwnerOf,     \* the user whose index has the reports of an account
    MaxBuckets,  \* the buckets ElasticSearch returns when no size is asked for: 10
    Missing      \* an answer without data: an index of the list does not exist

ASSUME QueriesAssumption == MaxBuckets \in Nat \ {0}

-----------------------------------------------------------------------------
(* ElasticSearch *)

\* A terms aggregation, of the numbers of documents by key: the keys with most documents,
\* the smaller ones first.
Buckets(count) ==
    LET keys == DOMAIN count
        Before(x, k) == \/ count[x] > count[k]
                        \/ count[x] = count[k] /\ x < k
    IN {k \in keys : Cardinality({x \in keys : Before(x, k)}) < MaxBuckets}

HasIndex(u) == \E d \in docs : OwnerOf[d.account] = u

\* makeElasticSearchRequest on the indexes of the accounts.
Reaches(A) == \A a \in A : HasIndex(OwnerOf[a])

\* getDateForDailyReport: of the current month all days, of an earlier one those
\* from the date that is asked for.
InRange(d, t) == d.date # MonthStart /\ (today = MaxDays + 1 => d.date >= t)

-----------------------------------------------------------------------------
(* Costs of a daily report, from the bills of the month: getElasticSearchCostParams *)

Billed(d, kinds) == {Item(k, r) : k \in kinds, r \in inventory[d.account]}

Ec2Billed(d)         == Billed(d, {"instance", "volume", "cloudwatch"})
RdsBilled(d)         == Billed(d, {"instance"})
EsBilled(d)          == Billed(d, {"instance"})
ElastiCacheBilled(d) == Billed(d, {"instance"})

\* addCostToInstance, addCostToDomain: whose costs are added to a document.
Ec2AddCost(d) ==
    [d EXCEPT !.costs = @ \cup {i \in Ec2Billed(d) :
        \/ i.kind # "volume" /\ i.res = d.res
        \/ i.kind = "volume" /\ i.res \in d.volumes}]
RdsAddCost(d) ==
    [d EXCEPT !.costs = @ \cup {i \in RdsBilled(d) : i.res.name = d.res.name}]
ElastiCacheAddCost(d) ==
    [d EXCEPT !.costs = @ \cup {i \in ElastiCacheBilled(d) : i.res.name = d.res.name}]
\* By its ARN; the costs in the document are forgotten.
EsAddCost(d) == [d EXCEPT !.costs = {i \in EsBilled(d) : i.res = d.res}]

-----------------------------------------------------------------------------
(* Answers *)

\* The accounts of some documents, as buckets.
AccountsIn(S) ==
    Buckets([a \in {d.account : d \in S} |-> Cardinality({d \in S : d.account = a})])

\* A mistake: the date with most documents.
LargestOf(S, a) ==
    LET mine  == {d \in S : d.account = a}
        On(t) == Cardinality({d \in mine : d.date = t})
    IN {d \in mine : \A e \in mine : On(d.date) >= On(e.date)}

\* getElasticSearch...DailyParams, prepareResponse...Daily: the last of the dates
\* of each account.
LastOf(S, a) ==
    LET mine  == {d \in S : d.account = a}
        dates == Buckets([t \in {d.date : d \in mine} |-> Cardinality({d \in mine : d.date = t})])
    IN {d \in mine : d.date = Max(dates)}

DailyReports(A, t) ==
    LET S == {d \in docs : d.account \in A /\ InRange(d, t)}
    IN UNION {LastOf(S, a) : a \in AccountsIn(S)}

\* getElasticSearch...MonthlyParams, prepareResponse...Monthly.
MonthlyReports(A, t) ==
    LET S == {d \in docs : d.account \in A /\ d.date = MonthStart /\ t = MonthStart}
    IN {d \in S : d.account \in AccountsIn(S)}

\* "if there isn't a monthly report, it gets daily reports"
Reports(A, t, daily) ==
    IF ~Reaches(A) THEN Missing
    ELSE IF MonthlyReports(A, t) # {} THEN MonthlyReports(A, t) ELSE daily

Ec2Data(A, t)         == Reports(A, t, {Ec2AddCost(d) : d \in DailyReports(A, t)})
RdsData(A, t)         == Reports(A, t, {RdsAddCost(d) : d \in DailyReports(A, t)})
EsData(A, t)          == Reports(A, t, {EsAddCost(d) : d \in DailyReports(A, t)})
ElastiCacheData(A, t) == Reports(A, t, {ElastiCacheAddCost(d) : d \in DailyReports(A, t)})
\* There are daily reports only, and no costs.
LambdaData(A, t)         == IF Reaches(A) THEN DailyReports(A, t) ELSE Missing
Ec2ReservationData(A, t) == IF Reaches(A) THEN DailyReports(A, t) ELSE Missing
RdsReservationData(A, t) == IF Reaches(A) THEN DailyReports(A, t) ELSE Missing

Answer(A, t) ==
    CASE service = "ec2"         -> Ec2Data(A, t)
      [] service = "rds"         -> RdsData(A, t)
      [] service = "es"          -> EsData(A, t)
      [] service = "elasticache" -> ElastiCacheData(A, t)
      [] service = "lambda"      -> LambdaData(A, t)
      [] service = "riEc2"       -> Ec2ReservationData(A, t)
      [] service = "riRds"       -> RdsReservationData(A, t)

-----------------------------------------------------------------------------
(* Unused resources *)

\* isInstanceUnused, isDomainUnused.
Ec2Unused(d)         == d.load = Idle
RdsUnused(d)         == d.load = Idle
EsUnused(d)          == d.load = Idle
\* No statistics are -1, which is little.
ElastiCacheUnused(d) == d.load # Busy

\* sort.SliceStable: those that cost most first.
Sorted(S) ==
    CHOOSE s \in SetToSeqs(S) : \A i, j \in DOMAIN s :
        i < j => Cardinality(s[i].costs) >= Cardinality(s[j].costs)

\* The first n of a slice, all of it if n is negative or more than limit.  Where
\* limit is more than its length the slice is extended or the program panics: Overrun.
Overrun == "overrun"
FirstOf(n, limit, slice) ==
    IF n \notin 0 .. limit THEN slice
    ELSE IF n \in 0 .. Len(slice) THEN SubSeq(slice, 1, n) ELSE Overrun

\* prepareResponse...Unused.
Ec2UnusedOf(n, answer) ==
    LET unused == Sorted({d \in answer : Ec2Unused(d)}) IN FirstOf(n, Len(unused), unused)
RdsUnusedOf(n, answer) ==
    LET unused == Sorted({d \in answer : RdsUnused(d)}) IN FirstOf(n, Len(unused), unused)
ElastiCacheUnusedOf(n, answer) ==
    LET unused == Sorted({d \in answer : ElastiCacheUnused(d)})
    IN FirstOf(n, Len(unused), unused)
\* The limit is the length of the whole answer.
EsUnusedOf(n, answer) ==
    LET unused == Sorted({d \in answer : EsUnused(d)})
    IN FirstOf(n, Cardinality(answer), unused)

Unused(A, t, n) ==
    LET answer == Answer(A, t)
    IN CASE service = "ec2"         -> Ec2UnusedOf(n, answer)
         [] service = "rds"         -> RdsUnusedOf(n, answer)
         [] service = "es"          -> EsUnusedOf(n, answer)
         [] service = "elasticache" -> ElastiCacheUnusedOf(n, answer)

-----------------------------------------------------------------------------
(* Properties *)

\* What is asked for when no report is being made.
Questions == IF job # NoJob THEN {} ELSE
    {q \in (SUBSET Accounts \ {{}}) \X {MonthStart, 2} : Answer(q[1], q[2]) # Missing}

\* An account with a report of the time that is asked for is in the answer, unless another
\* account has a monthly report and it has not, or more accounts are asked for
\* than a terms aggregation has buckets.
AnswerHasAccounts == \A q \in Questions : \A a \in q[1] :
    (\E d \in docs : d.account = a /\ d.date # MonthStart /\ (today <= MaxDays \/ d.date >= q[2])) =>
        \/ \E d \in Answer(q[1], q[2]) : d.account = a
        \/ q[2] = MonthStart /\ ~ReportExists(a) /\ \E x \in q[1] : ReportExists(x)
        \/ Cardinality(q[1]) > MaxBuckets

\* The daily part of an answer is the last report that was made (lastDate), though the dates
\* come as buckets, of which there may be more than are returned: then it may be an
\* old report.
AnswerIsLast == \A q \in Questions : \A d \in Answer(q[1], q[2]), e \in docs :
    e.account = d.account /\ d.date < e.date
    => \/ d.date = MonthStart
       \/ Cardinality({x.date : x \in {y \in docs : y.account = d.account}} \ {MonthStart}) > MaxBuckets

\* No resource is in an answer twice, and a daily report says of each what it costs
\* and not what another costs, unless it has a namesake.
AnswerCounts == \A q \in Questions : \A d, e \in Answer(q[1], q[2]) :
    /\ d.account = e.account /\ d.res = e.res => d = e
    /\ d.date # MonthStart => \/ {i.res : i \in d.costs} \subseteq {d.res}
                              \/ service \in {"rds", "elasticache"} /\ Namesake(d.account, d.res)

\* Of the unused resources (but domains, whose list may be cut beyond its end) none has been seen busy,
\* and one that is left out costs no more than one that is listed.
UnusedAreUnused == service \in Monthly \ {"es"} => \A q \in Questions, n \in -1 .. 2 :
    LET unused == Unused(q[1], q[2], n)
        all    == Unused(q[1], q[2], -1)
    IN /\ \A i \in DOMAIN all : all[i].load # Busy
       /\ n >= 0 => Len(unused) <= n \/ unused = all
       /\ \A d \in ToSet(all) \ ToSet(unused), e \in ToSet(unused) :
              Cardinality(d.costs) <= Cardinality(e.costs)

\* Documents have their types; a monthly report charges each resource for itself, and an
\* instance for its volumes, but for namesakes, failures and the cache clusters
\* of a region (monthlyReport.go of the services).
ChargesAreOwn == TypeOK /\ CostIsOwn /\ VolumesCharged

\* What a user is told (usageReports/): every account that was asked for and has a report,
\* its last report, each resource once and with its own costs, and as unused none that
\* was seen busy; but for the buckets, the mixture of monthly and daily reports
\* and the namesakes that the parts of the property name.
AnswersAreTrue == AnswerHasAccounts /\ AnswerIsLast /\ AnswerCounts /\ UnusedAreUnused
=============================================================================
