----------------------------- MODULE Anomalies -----------------------------
(***************************************************************************)
(* The detection of cost anomalies of one AWS account                      *)
(* (anomaliesDetection/, server/taskAnomaliesDetection.go).  A task reads  *)
(* the date of the last detection, chooses the dates to analyse, compares  *)
(* the cost of each product and day with the days before (Bollinger        *)
(* bands), replaces the documents of these days, and then marks the        *)
(* anomalies that have come back after a month.  Bills come in meanwhile,  *)
(* and ElasticSearch shows what is written to it only after a refresh.     *)
(*                                                                         *)
(* A moment is 3 * day + hour: hour 0 is midnight, 1 is within the day,    *)
(* 2 is the last second of the day.                                        *)
(***************************************************************************)
EXTENDS Integers, FiniteSets, SequencesExt, FiniteSetsExt

CONSTANTS
    Products,    \* productCode
    Horizon,     \* the last day of a behaviour
    Bills,       \* what comes in: costs of a product on a day
    MaxFaults,   \* failures of one behaviour
    Month,       \* days that AddDate(0, -1, 0) goes back
    SixMonths,   \* days that AddDate(0, 6, 0) goes forth
    Period,      \* AnomalyDetectionBollingerBandPeriod
    Unit,        \* the denominator of the five ratios that follow
    Upper,       \* AnomalyDetectionBollingerBandUpperBandCoefficient
    MinPart,     \* AnomalyDetectionDisturbanceCleaningMinPercentOfDailyBill
    Tolerance,   \* AnomalyDetectionRecurrenceCleaningThreshold
    Deviation,   \* AnomalyDetectionBollingerBandStandardDeviationCoefficient
    MinCost,     \* AnomalyDetectionDisturbanceCleaningMinAbsoluteCost
    MinRank      \* AnomalyDetectionDisturbanceCleaningHighestSpendingMinRank

ASSUME AnomaliesAssumption ==
    /\ {Horizon, Month, SixMonths, Period, Unit} \subseteq Nat \ {0}
    /\ Bills \subseteq Products \X (1 .. Horizon) \X (Nat \ {0})
    /\ {MaxFaults, Upper, MinPart, Tolerance, Deviation, MinCost, MinRank}
           \subseteq Nat

VARIABLES
    now,     \* the day it is
    hour,    \* of the line items, the same every day
    cost,    \* the line items in ElasticSearch: of a product on a day
    last,    \* last_anomalies_update of the account
    docs,    \* the documents of anomalies, by product and day
    shown,   \* the documents as a search finds them, since the last refresh
    job,     \* the task
    faults,
    missed,  \* history: days whose document may be behind the bills for good
    blind    \* history: documents whose recurrence was not looked for

vars == <<now, hour, cost, last, docs, shown, job, faults, missed, blind>>

Days  == 1 .. Horizon
Keys  == Products \X Days
Costs == {0} \cup {b[3] : b \in Bills}
Never == 0

At(d, h) == 3 * d + h
Day(t)   == t \div 3

Empty == [x \in {} |-> 0]
NoJob == [pc |-> "idle"]

-----------------------------------------------------------------------------
(* Bollinger bands, bollinger.go: the upper band over the costs of a       *)
(* sequence s is Upper * average + Deviation * sqrt(sigma) / Len(s).       *)

Total(s)   == FoldSeq(+, 0, s)
Squares(s) == FoldSeq(LAMBDA x, y: x * x + y, 0, s)

\* sigma, times Len(s)
Sigma(s) == Len(s) * Squares(s) - Total(s) * Total(s)

\* The distance of the ratio a/b from Upper * average, times b * Unit * Len(s), and
\* whether it exceeds the deviation.
Above(a, b, s) ==
    LET g == a * Unit * Len(s) - b * Total(s) * Upper
        e == b * Unit * Deviation
    IN g >= 0 /\ g * g * Len(s) > e * e * Sigma(s)

AtLeast(a, b, s) ==
    LET g == a * Unit * Len(s) - b * Total(s) * Upper
        e == b * Unit * Deviation
    IN g >= 0 /\ g * g * Len(s) >= e * e * Sigma(s)

\* The costs the band of the i-th bucket is made of.
Before(s, i) == SubSeq(s, i - Min({i - 1, Period}), i - 1)

-----------------------------------------------------------------------------
(* The costs as ElasticSearch aggregates them: a bucket for each day from the *)
(* first cost, or from the begin of the dates if that is earlier, to the end. *)

HasItem(p, d) == cost[p][d] > 0

Items == {At(x[2], hour) : x \in {y \in Keys : HasItem(y[1], y[2])}}

\* A mistake: the days before the first one are not asked for.
RangeBeginAtDates(j) == j.begin

\* createQueryTimeRange: Period days more, so that the first days have a band.
RangeBegin(j) == j.begin - 3 * Period

InDates(d, j) == RangeBegin(j) <= At(d, hour) /\ At(d, hour) <= j.end

Found(p, j) == {d \in Days : HasItem(p, d) /\ InDates(d, j)}

FirstBucket(p, j) == Min(Found(p, j) \cup {Day(j.begin)})

Buckets(p, j) == IF Found(p, j) = {} THEN {} ELSE FirstBucket(p, j) .. Day(j.end)

Bucket(p, d, j) == IF d \in Found(p, j) THEN cost[p][d] ELSE 0

\* productGetAnomaliesData: the costs of a product, bucket after bucket
CostsOf(p, j) ==
    LET f == FirstBucket(p, j)
    IN [i \in 1 .. Cardinality(Buckets(p, j)) |-> Bucket(p, f + i - 1, j)]

\* productGetTotalCostByDay
DailyTotal(d, j) == SumFunction([p \in Products |-> Bucket(p, d, j)])

\* productGetHighestSpendersByDay, for products that are found in a given order:
\* those with fewer than MinRank others before them.
HighestSpender(p, d, j, order) ==
    LET Precedes(q) == \/ Bucket(q, d, j) > Bucket(p, d, j)
                       \/ /\ Bucket(q, d, j) = Bucket(p, d, j)
                          /\ order[q] < order[p]
    IN Cardinality({q \in Products : d \in Buckets(q, j) /\ Precedes(q)}) < MinRank

\* productClearDisturbances: the increase over the band is at least a part of the bill
\* of the day, the cost is not small, and the product is a high spender.
NoDisturbance(p, d, j, order, prior) ==
    LET c == Bucket(p, d, j)
    IN /\ AtLeast(c * Unit - DailyTotal(d, j) * MinPart, Unit, prior)
       /\ c >= MinCost
       /\ HighestSpender(p, d, j, order)

\* deleteOffset: a day is kept unless it begins before the dates.
Kept(d, begin) == At(d, 0) >= begin

\* History: all costs of a day and of the Period days before.
Basis(d) == [q \in Products |-> [i \in 0 .. Period |-> IF i < d THEN cost[q][d - i] ELSE 0]]

\* computeAnomalies and productClearDisturbances, with the history of the document: the document of a product and a day.
Analysed(p, d, j, order) ==
    LET i     == d - FirstBucket(p, j) + 1
        prior == Before(CostsOf(p, j), i)
        c     == Bucket(p, d, j)
    IN [value       |-> c,
        maxExpected |-> prior,
        abnormal    |-> i > 1 /\ Above(c, 1, prior) /\ NoDisturbance(p, d, j, order, prior),
        recurrent   |-> FALSE,
        begin       |-> j.begin,
        basis       |-> Basis(d)]

AnomaliesData(j, order) ==
    [x \in {y \in Keys : y[2] \in Buckets(y[1], j) /\ Kept(y[2], j.begin)} |->
        Analysed(x[1], x[2], j, order)]

-----------------------------------------------------------------------------
(* Dates: getDateRange *)

Cut(t) == IF t > At(now, 1) THEN At(now, 2) ELSE t

FirstDates ==
    LET f == Min(Items)
    IN [begin |-> f, end |-> Cut(Min({Max(Items), f + 3 * SixMonths}))]

\* A mistake: the days of the last month are not analysed again.
NextDatesFromLast(l) == [begin |-> At(Day(l), 2), end |-> Cut(At(Day(l) + SixMonths, 2))]

NextDates(l) ==
    [begin |-> At(Day(l) - Month, 2), end |-> Cut(At(Day(l) + SixMonths, 2))]

DateRange(l) == IF l < Min(Items) THEN FirstDates ELSE NextDates(l)

-----------------------------------------------------------------------------
(* Recurrence: products_recurrence.go, on the documents that a search finds *)

\* approximateCostComparison
About(a, b) == a * (Unit + Tolerance) > b * Unit /\ a * (Unit - Tolerance) < b * Unit

\* getAnomaliesFromEs
Anomalies(found, j) ==
    {x \in DOMAIN found : /\ found[x].abnormal
                          /\ j.begin <= At(x[2], 0) /\ At(x[2], 0) <= j.end}

MonthBefore(x) == <<x[1], x[2] - Month>>

\* A mistake: it is the anomaly of the month before that is marked.
RecurrentMonthBefore(found, A) ==
    {x \in A : \E y \in A : MonthBefore(y) = x /\ About(found[y].value, found[x].value)}

\* detectRecurrence
Recurrent(found, A) ==
    {x \in A : /\ MonthBefore(x) \in A
               /\ About(found[x].value, found[MonthBefore(x)].value)}

-----------------------------------------------------------------------------
Init ==
    /\ now = 1
    /\ hour \in {0, 1}
    /\ cost = [p \in Products |-> [d \in Days |-> 0]]
    /\ last = Never
    /\ docs = Empty
    /\ shown = Empty
    /\ job = NoJob
    /\ faults = 0
    /\ missed = {}
    /\ blind = {}

\* A new day.
Tick ==
    /\ now < Horizon
    /\ now' = now + 1
    /\ UNCHANGED <<hour, cost, last, docs, shown, job, faults, missed, blind>>

\* History: a day that the detection under way has chosen not to analyse, or one more than a
\* month before the last detection, or the one under way, which the next will not.
PassedBy(d) ==
    LET l == IF job = NoJob THEN last ELSE job.end
    IN IF job.pc = "fetch" THEN At(d, 0) < job.begin ELSE l # Never /\ d <= Day(l) - Month

\* A bill of a day comes in, or changes.
Ingest(b) == LET p == b[1]  d == b[2]  c == b[3] IN
    /\ d <= now
    /\ cost[p][d] # c
    /\ cost' = [cost EXCEPT ![p][d] = c]
    /\ missed' = missed \cup (IF PassedBy(d) THEN {<<p, d>>} ELSE {})
    /\ UNCHANGED <<now, hour, last, docs, shown, job, faults, blind>>

\* The documents written so far are found from now on.
Refresh ==
    /\ shown # docs
    /\ shown' = docs
    /\ UNCHANGED <<now, hour, cost, last, docs, job, faults, missed, blind>>

-----------------------------------------------------------------------------
(* processAnomaliesForAccount *)

\* The row of the account is read, and the dates of its first and last line item; an
\* empty index ends the task.
Start ==
    /\ job = NoJob
    /\ Items # {}
    /\ job' = [pc |-> "fetch", begin |-> DateRange(last).begin, end |-> DateRange(last).end]
    /\ UNCHANGED <<now, hour, cost, last, docs, shown, faults, missed, blind>>

Orders == {f \in [Products -> 1 .. Cardinality(Products)] :
              \A p, q \in Products : f[p] = f[q] => p = q}

\* productGetAnomaliesData.  The first day of all has no document if its line items
\* start after midnight.
Fetch(order) ==
    /\ job.pc = "fetch"
    /\ job' = [pc |-> "save", begin |-> job.begin, end |-> job.end,
                data |-> AnomaliesData(job, order)]
    /\ missed' = missed \cup {x \in Keys : /\ last = Never
                                           /\ HasItem(x[1], x[2])
                                           /\ x[2] = Day(job.begin)
                                           /\ ~ Kept(x[2], job.begin)}
    /\ UNCHANGED <<now, hour, cost, last, docs, shown, faults, blind>>

\* The documents of the days are replaced, their marks are gone.
Replaced(old, new) ==
    [x \in DOMAIN old \cup DOMAIN new |-> IF x \in DOMAIN new THEN new[x] ELSE old[x]]

\* History: documents after the end of the dates, which a detection that failed has left, while
\* those of the month before are replaced: a bill of an earlier day makes the first dates
\* begin and end earlier.
Outlived(new) == {x \in DOMAIN docs : At(x[2], 0) > job.end /\ MonthBefore(x) \in DOMAIN new}

\* productSaveAnomaliesData: a bulk request that fails, here the documents of the products
\* that are lost, is only logged.
Save(lost) ==
    LET new == [x \in {y \in DOMAIN job.data : y[1] \notin lost} |-> job.data[x]]
    IN /\ job.pc = "save"
       /\ lost # {} => faults < MaxFaults
       /\ faults' = faults + (IF lost = {} THEN 0 ELSE 1)
       /\ docs' = Replaced(docs, new)
       /\ job' = [pc |-> "recur", begin |-> job.begin, end |-> job.end]
       /\ missed' = (missed \ {x \in DOMAIN new : new[x].value = cost[x[1]][x[2]]})
                    \cup {x \in DOMAIN job.data : x[1] \in lost}
       /\ blind' = (blind \ DOMAIN new) \cup Outlived(new)
       /\ UNCHANGED <<now, hour, cost, last, shown>>

\* applyRecurrentAnomaliesToEs: the documents are written as they were found.
Marked(found, R) == [x \in R |-> [found[x] EXCEPT !.recurrent = TRUE]]

\* Documents a search does not find as they are.
Hidden == {x \in DOMAIN docs : x \notin DOMAIN shown \/ shown[x] # docs[x]}

\* removeRecurrence
Recur ==
    LET R == Recurrent(shown, Anomalies(shown, job))
    IN /\ job.pc = "recur"
       /\ docs' = Replaced(docs, Marked(shown, R))
       /\ job' = [pc |-> "register", end |-> job.end]
       /\ missed' = missed \cup (R \cap Hidden)
       /\ blind' = blind \cup {x \in DOMAIN docs : Hidden \cap {x, MonthBefore(x)} # {}}
       /\ UNCHANGED <<now, hour, cost, last, shown, faults>>

\* registerAnomaliesUpdate, in the transaction the task began with.
Register ==
    /\ job.pc = "register"
    /\ last' = job.end
    /\ job' = NoJob
    /\ UNCHANGED <<now, hour, cost, docs, shown, faults, missed, blind>>

\* A step fails, or the program ends: the transaction is rolled back, what was written
\* to ElasticSearch stays.
Fail ==
    /\ job # NoJob
    /\ faults < MaxFaults
    /\ faults' = faults + 1
    /\ job' = NoJob
    /\ blind' = IF job.pc = "recur" THEN DOMAIN docs ELSE blind
    /\ UNCHANGED <<now, hour, cost, last, docs, shown, missed>>

Next ==
    \/ Tick
    \/ \E b \in Bills : Ingest(b)
    \/ Refresh
    \/ Start
    \/ \E order \in Orders : Fetch(order)
    \/ \E lost \in SUBSET Products : Save(lost)
    \/ Recur
    \/ Register
    \/ Fail

Spec == Init /\ [][Next]_vars
-----------------------------------------------------------------------------
(* Properties *)

DocsOK(f) ==
    /\ DOMAIN f \subseteq Keys
    /\ \A x \in DOMAIN f :
           /\ f[x].value \in Costs /\ f[x].maxExpected \in Seq(Costs)
           /\ {f[x].abnormal, f[x].recurrent} \subseteq BOOLEAN

\* The variables have their types; every date that is analysed is one that has been.
TypeOK ==
    /\ now \in Days /\ hour \in {0, 1} /\ faults \in 0 .. MaxFaults
    /\ cost \in [Products -> [Days -> Costs]]
    /\ last \in 0 .. At(now, 2)
    /\ DocsOK(docs)
    /\ shown # docs => DocsOK(shown)
    /\ missed \subseteq Keys /\ blind \subseteq Keys
    /\ job.pc \in {"idle", "fetch", "save", "recur", "register"}
    /\ job # NoJob => job.end <= At(now, 2)
    /\ job.pc = "save" => DocsOK(job.data) /\ \A x \in DOMAIN job.data : x[2] <= now

Abs(n) == IF n < 0 THEN -n ELSE n

\* What the documents f tell a product cost on a day.
Told(f, x) == IF x \in DOMAIN f THEN f[x].value ELSE 0

\* No day is left behind: when a detection has read the costs, what is told of each day up
\* to its end is about to be the cost of that day, or the bill came in more than a month
\* too late, or just after the dates were chosen, or the document was lost or overwritten with
\* an older one, or it is the first day of all and began after midnight (getDateRange,
\* deleteOffset).
NoneLeftBehind ==
    [][job.pc = "fetch" /\ job'.pc = "save" =>
          \A x \in Keys : At(x[2], 0) <= job.end =>
              Told(Replaced(docs, job'.data), x) = cost[x[1]][x[2]] \/ x \in missed']_vars

\* A month before an anomaly there was one of a cost that differs by a small part.
ReallyRecurrent(x) ==
    LET y == <<x[1], x[2] - Month>> IN
    /\ y \in DOMAIN docs
    /\ docs[y].abnormal
    /\ Abs(docs[x].value - docs[y].value) * Unit < docs[x].value * Tolerance

\* An anomaly is called recurrent only if there is an anomaly of about the same cost a
\* month before, unless the documents were compared before they could be found
\* (removeRecurrence searches what productSaveAnomaliesData has just written), or a later
\* detection, with dates that end before it, replaced the document of the month before.
RecurrentIsReal ==
    \A x \in DOMAIN docs : docs[x].recurrent => ReallyRecurrent(x) \/ x \in blind

\* An anomaly that comes back is called recurrent, unless the documents were compared
\* before they could be found, or a failure came before, or the earlier anomaly is
\* before the dates of the detection that wrote the later one, or was written by one with
\* dates that end before the later one.
MarkHasCause ==
    job = NoJob => \A x \in DOMAIN docs :
        docs[x].abnormal /\ ReallyRecurrent(x) /\ ~ docs[x].recurrent =>
            x \in blind \/ At(x[2] - Month, 0) < docs[x].begin

\* Documents have their types; an anomaly is called recurrent if, and only if, it comes back,
\* but for searches before a refresh, failures and the dates of a detection
\* (detectRecurrence).
MarksAreTrue == TypeOK /\ RecurrentIsReal /\ MarkHasCause

Gap(x) == \E i \in 1 .. Period : docs[x].basis[x[1]][i] = 0
Tie(x) == \E q \in Products \ {x[1]} : docs[x].basis[q][0] = docs[x].basis[x[1]][0]

\* A verdict does not depend on when it is found: a later detection that sees the same costs
\* of the day and of the days before says the same, unless two products cost the
\* same on the day, or there are days before without a cost, which count
\* when they follow another cost in the dates and else do not (createQueryTimeRange).
VerdictIsStable ==
    [][\A x \in DOMAIN docs \cap DOMAIN docs' :
          docs[x].basis = docs'[x].basis /\ docs[x].abnormal # docs'[x].abnormal =>
              Gap(x) \/ Tie(x)]_vars
=============================================================================
