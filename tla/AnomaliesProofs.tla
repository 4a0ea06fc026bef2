-------------------------- MODULE AnomaliesProofs --------------------------
(***************************************************************************)
(* Theorems of Anomalies, and of what is read of its documents and of the  *)
(* bills: MarksAreTrue, NoneLeftBehind and VerdictIsStable for every       *)
(* number of products and days, every set of bills, every number of        *)
(* failures, and every length of months and of the band; AlertIsAnswered   *)
(* (AnomalyQueries) and AccessIsExact (Access) for all tables of users,    *)
(* accounts and shares; CostsAddUp (CostQueries) for all line items.       *)
(*                                                                         *)
(* CoreInv says how the dates, the costs read and the documents belong     *)
(* together.  On it rest three invariants of their own: MarksInv, what is  *)
(* true of the marks while a detection has yet to look for them;           *)
(* SettledInv, what is told of the days that no detection will analyse     *)
(* again; and VerdictsInv, that a verdict is a function of the costs of    *)
(* the day and of the days before.                                         *)
(***************************************************************************)
EXTENDS CostQueries, FiniteSetTheorems, SequenceTheorems, WellFoundedInduction, TLAPS

Bases == [Products -> [0 .. Period -> Costs]]

Doc == [value : Costs, maxExpected : Seq(Costs), abnormal : BOOLEAN, recurrent : BOOLEAN,
        begin : Int, basis : Bases]

IsDocs(f) == DOMAIN f \subseteq Keys /\ f \in [DOMAIN f -> Doc]

Has(x) == HasItem(x[1], x[2])

\* The variables but job have their types; no document is ever deleted, and no line item is
\* of a day to come.
TypesInv ==
    /\ now \in Days /\ hour \in {0, 1} /\ faults \in 0 .. MaxFaults
    /\ cost \in [Products -> [Days -> Costs]]
    /\ last \in 0 .. At(now, 2)
    /\ IsDocs(docs) /\ IsDocs(shown) /\ DOMAIN shown \subseteq DOMAIN docs
    /\ missed \subseteq Keys /\ blind \subseteq Keys
    /\ \A x \in Keys : Has(x) => x[2] <= now

\* What the task carries from step to step.
JobInv ==
    /\ job.pc \in {"idle", "fetch", "save", "recur", "register"}
    /\ job.pc = "idle" => job = NoJob
    /\ job.pc # "idle" => job.end \in Nat
    /\ job.pc \in {"fetch", "save", "recur"} => job.begin \in Int
    /\ job.pc = "save" => IsDocs(job.data)

\* There is a line item by the end of a detection, so none after the first is a first one.
DatesInv ==
    /\ last # Never => \E t \in Items : t <= last
    /\ job.pc # "idle" =>
           /\ job.end <= At(now, 2)
           /\ At(Day(job.end), hour) <= job.end
           /\ last # Never => Day(last) <= Day(job.end)
           /\ \E t \in Items : t <= job.end
    /\ job.pc \in {"fetch", "save"} =>
           /\ last # Never => job.begin = At(Day(last) - Month, 2)
           /\ last = Never => job.begin \in Items

\* What was read has the dates of the detection, and all days of a product up to the last one.
DataInv == job.pc = "save" => \A x \in DOMAIN job.data :
    /\ job.begin <= At(x[2], 0) /\ x[2] <= Day(job.end)
    /\ ~ job.data[x].recurrent /\ job.data[x].begin = job.begin
    /\ \A z \in Keys : z[1] = x[1] /\ x[2] <= z[2] /\ z[2] <= Day(job.end) => z \in DOMAIN job.data

\* A document tells of a cost only where there is one.
HaveItems(f) == \A x \in DOMAIN f : f[x].value # 0 => Has(x)

ValuesInv == HaveItems(docs) /\ HaveItems(shown) /\ (job.pc = "save" => HaveItems(job.data))

CoreInv == TypesInv /\ JobInv /\ DatesInv /\ DataInv /\ ValuesInv

\* A mark is missing only for one of the causes, or while it has yet to be looked for.
MarkOK(x) ==
    docs[x].abnormal /\ ReallyRecurrent(x) /\ ~ docs[x].recurrent =>
        x \in blind \/ At(x[2] - Month, 0) < docs[x].begin

Fresh(x) ==
    /\ job.pc = "recur"
    /\ docs[x].begin = job.begin /\ job.begin <= At(x[2], 0) /\ At(x[2], 0) <= job.end

MarksInv == RecurrentIsReal /\ \A x \in DOMAIN docs : MarkOK(x) \/ Fresh(x)

\* What f tells of the days more than a month before t is what they cost.
SettledIn(f, t) ==
    \A x \in Keys : x[2] <= Day(t) - Month => Told(f, x) = cost[x[1]][x[2]] \/ x \in missed

SettledInv ==
    /\ last # Never => SettledIn(docs, last)
    /\ job.pc = "save" => SettledIn(Replaced(docs, job.data), job.end)
    /\ job.pc \in {"recur", "register"} => SettledIn(docs, job.end)
    /\ last = Never => \A x \in DOMAIN docs : \E t \in Items : t <= At(x[2], 0)
    /\ job.pc = "fetch" /\ last = Never =>
           /\ \A x \in DOMAIN docs : job.begin <= At(x[2], 0)
           /\ \A x \in Keys : Has(x) /\ At(x[2], hour) < job.begin => x \in missed

\* The verdict on a product, by the costs of all products on the day and the days before.
Verdict(b, p) ==
    LET c     == b[p][0]
        prior == [i \in 1 .. Period |-> b[p][Period + 1 - i]]
    IN /\ Above(c, 1, prior)
       /\ AtLeast(c * Unit - SumFunction([q \in Products |-> b[q][0]]) * MinPart, Unit, prior)
       /\ c >= MinCost
       /\ Cardinality({q \in Products : b[q][0] > c}) < MinRank

Plain(b, p) ==
    /\ \A i \in 1 .. Period : b[p][i] # 0
    /\ \A q \in Products \ {p} : b[q][0] # b[p][0]

VerdictsIn(f) ==
    \A x \in DOMAIN f : Plain(f[x].basis, x[1]) => f[x].abnormal = Verdict(f[x].basis, x[1])

VerdictsInv == VerdictsIn(docs) /\ VerdictsIn(shown) /\ (job.pc = "save" => VerdictsIn(job.data))
-----------------------------------------------------------------------------
(* Minima and maxima, days and dates *)

LEMMA NatMin == ASSUME NEW S \in SUBSET Nat, S # {} PROVE \E x \in S : \A y \in S : x <= y
<1> DEFINE R == OpToRel(<, Nat)
<1>1. \A x, y \in Nat : x < y => <<x, y>> \in R
  BY DEF OpToRel
<1>2. IsWellFoundedOn(R, Nat)
  BY NatLessThanWellFounded
<1> HIDE DEF R
<1>3. PICK x \in S : \A y \in S : ~(<<y, x>> \in R)
  BY <1>2, WFMin, Zenon
<1>4. ASSUME NEW y \in S PROVE x <= y
  <2>1. x \in Nat /\ y \in Nat
    OBVIOUS
  <2>2. ~(y < x)
    BY <1>1, <1>3, <2>1, Zenon
  <2> QED BY <2>1, <2>2
<1> QED BY <1>4

\* A set of integers with a lower bound has a minimum.
LEMMA MinIs ==
    ASSUME NEW S \in SUBSET Int, S # {}, NEW b \in Int, \A s \in S : b <= s
    PROVE  Min(S) \in S /\ \A s \in S : Min(S) <= s
<1>1. \E x \in S : \A y \in S : x <= y
  <2> DEFINE T == {s - b : s \in S}
  <2>1. \A y \in S : y \in Int /\ y - b \in Nat /\ y - b \in T
    OBVIOUS
  <2>2. T \in SUBSET Nat /\ T # {}
    BY <2>1
  <2>3. PICK t \in T : \A u \in T : t <= u
    BY <2>2, NatMin
  <2>4. PICK x \in S : t = x - b
    BY <2>3
  <2> HIDE DEF T
  <2>5. ASSUME NEW y \in S PROVE x <= y
    <3>1. x \in Int /\ y \in Int /\ x - b <= y - b
      BY <2>1, <2>3, <2>4
    <3> QED BY <3>1
  <2> QED BY <2>5
<1> QED BY <1>1 DEF Min

\* A set of integers with an upper bound has a maximum.
LEMMA MaxIs ==
    ASSUME NEW S \in SUBSET Int, S # {}, NEW b \in Int, \A s \in S : s <= b
    PROVE  Max(S) \in S /\ \A s \in S : s <= Max(S)
<1>1. \E x \in S : \A y \in S : x >= y
  <2> DEFINE T == {b - s : s \in S}
  <2>1. \A y \in S : y \in Int /\ b - y \in Nat /\ b - y \in T
    OBVIOUS
  <2>2. T \in SUBSET Nat /\ T # {}
    BY <2>1
  <2>3. PICK t \in T : \A u \in T : t <= u
    BY <2>2, NatMin
  <2>4. PICK x \in S : t = b - x
    BY <2>3
  <2> HIDE DEF T
  <2>5. ASSUME NEW y \in S PROVE x >= y
    <3>1. x \in Int /\ y \in Int /\ b - x <= b - y
      BY <2>1, <2>3, <2>4
    <3> QED BY <3>1
  <2> QED BY <2>5
<1> QED BY <1>1 DEF Max

LEMMA MinOfTwo ==
    ASSUME NEW a \in Int, NEW b \in Int
    PROVE  Min({a, b}) \in {a, b} /\ Min({a, b}) <= a /\ Min({a, b}) <= b
<1>1. CASE a <= b
  BY <1>1, MinIs, {a, b} \in SUBSET Int
<1>2. CASE ~ (a <= b)
  <2>1. b <= a
    BY <1>2
  <2> QED BY <2>1, MinIs, {a, b} \in SUBSET Int
<1> QED BY <1>1, <1>2

LEMMA Constants ==
    /\ Horizon \in Nat /\ Horizon > 0 /\ Month \in Nat /\ Month > 0 /\ SixMonths \in Nat /\ SixMonths > 0
    /\ Period \in Nat /\ Period > 0 /\ Unit \in Nat /\ Unit > 0
    /\ MaxFaults \in Nat /\ Tolerance \in Nat
BY AnomaliesAssumption

LEMMA CostsAreNat == Costs \subseteq Nat /\ 0 \in Costs
BY AnomaliesAssumption DEF Costs

LEMMA BillsAre ==
    ASSUME NEW b \in Bills
    PROVE  <<b[1], b[2]>> \in Keys /\ b[1] \in Products /\ b[2] \in Days /\ b[3] \in Costs /\ b[3] > 0
BY AnomaliesAssumption DEF Keys, Days, Costs

LEMMA KeysAre ==
    ASSUME NEW x \in Keys
    PROVE  x[1] \in Products /\ x[2] \in Days /\ x[2] \in Nat /\ x[2] > 0 /\ x = <<x[1], x[2]>>
BY AnomaliesAssumption DEF Keys, Days

\* Moments and days.
LEMMA Moments ==
    ASSUME NEW d \in Int, NEW h \in 0 .. 2, NEW t \in Int
    PROVE  /\ At(d, h) \in Int /\ Day(t) \in Int /\ Day(At(d, h)) = d
           /\ At(Day(t), 0) <= t /\ t <= At(Day(t), 2)
           /\ (At(d, 0) <= t <=> d <= Day(t))
BY DEF At, Day

-----------------------------------------------------------------------------
(* What is read of the costs *)

Dated(j) == j.begin \in Int /\ j.end \in Nat

LEMMA FoundIs ==
    ASSUME NEW p, NEW j
    PROVE  /\ Found(p, j) \subseteq Days
           /\ \A d \in Days : d \in Found(p, j) <=>
                  HasItem(p, d) /\ j.begin - 3 * Period <= At(d, hour) /\ At(d, hour) <= j.end
BY DEF Found, InDates, RangeBegin

LEMMA FirstBucketIs ==
    ASSUME NEW p, NEW j, j.begin \in Int
    PROVE  /\ FirstBucket(p, j) \in Int /\ FirstBucket(p, j) <= Day(j.begin)
           /\ FirstBucket(p, j) \in Found(p, j) \cup {Day(j.begin)}
           /\ \A d \in Found(p, j) : FirstBucket(p, j) <= d
<1> DEFINE S == Found(p, j) \cup {Day(j.begin)}
           b == IF Day(j.begin) < 0 THEN Day(j.begin) ELSE 0
<1>1. Day(j.begin) \in Int
  BY DEF Day
<1>2. Found(p, j) \subseteq Nat
  BY FoundIs, Constants DEF Days
<1>3. S \in SUBSET Int /\ S # {} /\ b \in Int
  BY <1>1, <1>2
<1>4. \A s \in S : b <= s
  BY <1>1, <1>2
<1> HIDE DEF b
<1>5. Min(S) \in S /\ \A s \in S : Min(S) <= s
  BY <1>3, <1>4, MinIs
<1> QED BY <1>3, <1>5 DEF FirstBucket

LEMMA BucketsAre ==
    ASSUME NEW p, NEW j, Dated(j), NEW d \in Int
    PROVE  d \in Buckets(p, j) <=> Found(p, j) # {} /\ FirstBucket(p, j) <= d /\ d <= Day(j.end)
<1>1. FirstBucket(p, j) \in Int /\ Day(j.end) \in Int
  BY FirstBucketIs DEF Day, Dated
<1> QED BY <1>1 DEF Buckets

LEMMA BucketIs ==
    ASSUME cost \in [Products -> [Days -> Costs]], NEW p \in Products, NEW d, NEW j
    PROVE  /\ Bucket(p, d, j) \in Costs
           /\ d \in Found(p, j) => Bucket(p, d, j) = cost[p][d]
           /\ d \notin Found(p, j) => Bucket(p, d, j) = 0
BY CostsAreNat, FoundIs DEF Bucket

\* The costs a band is made of are costs; where there are a period of them, they are those of
\* the days before.
LEMMA BeforeIs ==
    ASSUME cost \in [Products -> [Days -> Costs]], NEW p \in Products, NEW j, Dated(j),
           NEW d \in Buckets(p, j), d \in Int
    PROVE  LET i == d - FirstBucket(p, j) + 1
               prior == Before(CostsOf(p, j), i)
           IN /\ prior \in Seq(Costs)
              /\ i > Period => prior = [k \in 1 .. Period |-> Bucket(p, d - Period + k - 1, j)]
<1> DEFINE f == FirstBucket(p, j)
           e == Day(j.end)
           i == d - f + 1
           s == CostsOf(p, j)
           m == Min({i - 1, Period})
           prior == Before(s, i)
<1>1. f \in Int /\ e \in Int /\ d \in Int /\ f <= d /\ d <= e /\ Found(p, j) # {}
  BY FirstBucketIs, BucketsAre DEF Day, Dated
<1>2. Buckets(p, j) = f .. e
  BY <1>1 DEF Buckets
<1> HIDE DEF f, e
<1>3. Cardinality(f .. e) = e - f + 1
  BY <1>1, FS_Interval, ~ (f > e)
<1>4. s = [k \in 1 .. (e - f + 1) |-> Bucket(p, f + k - 1, j)]
  BY <1>2, <1>3 DEF CostsOf, f
<1>5. \A k \in 1 .. (e - f + 1) : s[k] = Bucket(p, f + k - 1, j) /\ s[k] \in Costs
  BY <1>4, BucketIs
<1>6. i \in Int /\ i >= 1 /\ i <= e - f + 1
  BY <1>1
<1>7. m \in {i - 1, Period} /\ m <= i - 1 /\ m <= Period /\ m \in Int /\ m >= 0
  <2>1. i - 1 \in Int /\ Period \in Int /\ i - 1 >= 0 /\ Period >= 0
    BY <1>6, Constants
  <2>2. m \in {i - 1, Period} /\ m <= i - 1 /\ m <= Period
    <3> HIDE DEF i
    <3> QED BY <2>1, MinOfTwo
  <2> QED BY <2>1, <2>2
<1> HIDE DEF s, m
<1>8. prior = SubSeq(s, i - m, i - 1)
  BY DEF Before, m
<1>9. \A k \in (i - m) .. (i - 1) : s[k] \in Costs
  BY <1>1, <1>5, <1>6, <1>7
<1>10. /\ SubSeq(s, i - m, i - 1) \in Seq(Costs)
       /\ Len(SubSeq(s, i - m, i - 1)) = IF i - m <= i - 1 THEN m ELSE 0
       /\ \A k \in 1 .. m : SubSeq(s, i - m, i - 1)[k] = s[i - m + k - 1]
  <2>1. i - m \in Int /\ i - 1 \in Int /\ (i - 1) - (i - m) + 1 = m
    BY <1>6, <1>7
  <2> HIDE DEF i
  <2> QED BY <1>9, <2>1, SubSeqProperties
<1>11. ASSUME i > Period PROVE prior = [k \in 1 .. Period |-> Bucket(p, d - Period + k - 1, j)]
  <2> DEFINE g == [k \in 1 .. Period |-> Bucket(p, d - Period + k - 1, j)]
  <2>1. m = Period
    BY <1>6, <1>7, <1>11, Constants
  <2>2. Len(prior) = Period /\ prior \in Seq(Costs)
    <3>1. i - m <= i - 1
      BY <1>6, <2>1, Constants
    <3> HIDE DEF i, prior
    <3> QED BY <1>8, <1>10, <2>1, <3>1
  <2>3. \A k \in 1 .. Period : g[k] \in Costs
    BY BucketIs
  <2>4. g \in Seq(Costs) /\ Len(g) = Period
    BY <2>3, Constants
  <2>5. ASSUME NEW k \in 1 .. Period PROVE prior[k] = g[k]
    <3>1. prior[k] = s[i - Period + k - 1]
      BY <1>8, <1>10, <2>1
    <3>2. i - Period + k - 1 \in 1 .. (e - f + 1) /\ f + (i - Period + k - 1) - 1 = d - Period + k - 1
      BY <1>1, <1>6, <1>11, Constants
    <3> HIDE DEF i
    <3>3. s[i - Period + k - 1] = Bucket(p, d - Period + k - 1, j)
      BY <1>5, <3>2
    <3> QED BY <3>1, <3>3
  <2> HIDE DEF g, prior
  <2>6. prior = g
    BY <2>2, <2>4, <2>5, SeqEqual
  <2> QED BY <2>6 DEF g
<1>12. prior \in Seq(Costs)
  BY <1>8, <1>10
<1> QED BY <1>11, <1>12 DEF f, s

\* The dates of a task.
LEMMA JobDated ==
    ASSUME JobInv, job.pc \in {"fetch", "save", "recur"}
    PROVE  Dated(job) /\ job # NoJob
BY DEF JobInv, Dated, NoJob

\* A day of the dates is read, as it is, if anything of the product is.
LEMMA DayIsFound ==
    ASSUME CoreInv, job.pc = "fetch", NEW x \in Keys, job.begin <= At(x[2], 0), x[2] <= Day(job.end)
    PROVE  /\ x[2] \in Found(x[1], job) <=> Has(x)
           /\ Bucket(x[1], x[2], job) = cost[x[1]][x[2]]
<1>1. Dated(job) /\ hour \in {0, 1} /\ x[2] \in Nat /\ Period \in Nat
  BY JobDated, KeysAre, Constants DEF CoreInv, TypesInv
<1>2. At(Day(job.end), hour) <= job.end
  BY DEF CoreInv, DatesInv
<1>3. job.begin - 3 * Period <= At(x[2], hour) /\ At(x[2], hour) <= job.end
  BY <1>1, <1>2 DEF At, Day, Dated
<1>4. x[2] \in Found(x[1], job) <=> Has(x)
  BY <1>3, FoundIs, KeysAre DEF Has
<1>5. cost \in [Products -> [Days -> Costs]] /\ cost[x[1]][x[2]] \in Nat
  BY KeysAre, CostsAreNat DEF CoreInv, TypesInv
<1>6. Bucket(x[1], x[2], job) = cost[x[1]][x[2]]
  BY <1>4, <1>5, BucketIs, KeysAre DEF Has, HasItem
<1> QED BY <1>4, <1>6

LEMMA BasisIs ==
    ASSUME TypesInv, NEW d \in Days
    PROVE  Basis(d) \in Bases
<1>1. \A i \in 0 .. Period : i < d => d - i \in Days
  BY Constants DEF Days
<1>2. \A q \in Products, i \in 0 .. Period : (IF i < d THEN cost[q][d - i] ELSE 0) \in Costs
  BY <1>1, CostsAreNat DEF TypesInv
<1> QED BY <1>2 DEF Basis, Bases

LEMMA AnalysedIs ==
    ASSUME CoreInv, job.pc = "fetch", NEW order, NEW x \in Keys, x[2] \in Buckets(x[1], job)
    PROVE  /\ Analysed(x[1], x[2], job, order) \in Doc
           /\ Analysed(x[1], x[2], job, order).value = Bucket(x[1], x[2], job)
           /\ Analysed(x[1], x[2], job, order).recurrent = FALSE
           /\ Analysed(x[1], x[2], job, order).begin = job.begin
           /\ Analysed(x[1], x[2], job, order).basis = Basis(x[2])
<1>1. Dated(job) /\ TypesInv /\ x[1] \in Products /\ x[2] \in Days /\ x[2] \in Int
  BY JobDated, KeysAre DEF CoreInv
<1>2. Before(CostsOf(x[1], job), x[2] - FirstBucket(x[1], job) + 1) \in Seq(Costs)
  BY <1>1, BeforeIs DEF TypesInv
<1>3. Bucket(x[1], x[2], job) \in Costs /\ Basis(x[2]) \in Bases /\ job.begin \in Int
  BY <1>1, BucketIs, BasisIs DEF TypesInv, Dated
<1> QED BY <1>2, <1>3 DEF Analysed, Doc

LEMMA DataIs ==
    ASSUME CoreInv, job.pc = "fetch", NEW order
    PROVE  LET D == AnomaliesData(job, order)
           IN /\ IsDocs(D)
              /\ \A x \in DOMAIN D :
                     /\ job.begin <= At(x[2], 0) /\ x[2] <= Day(job.end)
                     /\ ~ D[x].recurrent /\ D[x].begin = job.begin
                     /\ D[x].value = cost[x[1]][x[2]] /\ D[x].basis = Basis(x[2])
                     /\ x[2] \in Buckets(x[1], job)
                     /\ D[x] = Analysed(x[1], x[2], job, order)
                     /\ \A z \in Keys : z[1] = x[1] /\ x[2] <= z[2] /\ z[2] <= Day(job.end)
                                            => z \in DOMAIN D
              /\ \A x \in Keys : /\ job.begin <= At(x[2], 0) /\ x[2] <= Day(job.end)
                                 /\ x \notin DOMAIN D
                                 => ~ Has(x)
<1> DEFINE D == AnomaliesData(job, order)
           K == {y \in Keys : y[2] \in Buckets(y[1], job) /\ Kept(y[2], job.begin)}
<1>1. D = [x \in K |-> Analysed(x[1], x[2], job, order)]
  BY DEF AnomaliesData
<1>2. DOMAIN D = K /\ K \subseteq Keys /\ \A x \in K : D[x] = Analysed(x[1], x[2], job, order)
  BY <1>1
<1>3. Dated(job) /\ \A x \in Keys : x[2] \in Int
  BY JobDated, KeysAre DEF CoreInv
<1> HIDE DEF D
<1>4. IsDocs(D)
  <2>1. \A x \in K : D[x] \in Doc
    BY <1>2, AnalysedIs
  <2> HIDE DEF K
  <2> QED BY <1>1, <1>2, <2>1 DEF IsDocs
<1>5. ASSUME NEW x \in K
      PROVE  /\ job.begin <= At(x[2], 0) /\ x[2] <= Day(job.end)
             /\ ~ D[x].recurrent /\ D[x].begin = job.begin
             /\ D[x].value = cost[x[1]][x[2]] /\ D[x].basis = Basis(x[2])
  <2>1. job.begin <= At(x[2], 0)
    BY <1>3 DEF Kept, At, Dated
  <2>2. x[2] <= Day(job.end)
    BY <1>3, BucketsAre
  <2>3. D[x].value = cost[x[1]][x[2]]
    BY <1>2, <2>1, <2>2, AnalysedIs, DayIsFound
  <2>4. D[x].recurrent = FALSE /\ D[x].begin = job.begin /\ D[x].basis = Basis(x[2])
    <3>1. x \in Keys /\ x[2] \in Buckets(x[1], job) /\ D[x] = Analysed(x[1], x[2], job, order)
      BY <1>2
    <3> HIDE DEF K
    <3> QED BY <3>1, AnalysedIs
  <2> HIDE DEF K
  <2> QED BY <2>1, <2>2, <2>3, <2>4
<1>6. ASSUME NEW x \in K, NEW z \in Keys, z[1] = x[1], x[2] <= z[2], z[2] <= Day(job.end)
      PROVE  z \in K
  <2>1. Found(x[1], job) # {} /\ FirstBucket(x[1], job) <= x[2]
    BY <1>3, BucketsAre
  <2>2. FirstBucket(z[1], job) <= z[2]
    BY <1>3, <1>6, <2>1, FirstBucketIs DEF Dated
  <2>3. z[2] \in Buckets(z[1], job)
    BY <1>3, <1>6, <2>1, <2>2, BucketsAre
  <2>4. Kept(z[2], job.begin)
    BY <1>3, <1>6 DEF Kept, At, Dated
  <2> QED BY <2>3, <2>4
<1>7. ASSUME NEW x \in Keys, job.begin <= At(x[2], 0), x[2] <= Day(job.end), Has(x)
      PROVE  x \in K
  <2>1. x[2] \in Found(x[1], job)
    BY <1>7, DayIsFound
  <2>2. FirstBucket(x[1], job) <= x[2]
    BY <1>3, <2>1, FirstBucketIs DEF Dated
  <2>3. x[2] \in Buckets(x[1], job)
    BY <1>3, <1>7, <2>1, <2>2, BucketsAre
  <2>4. Kept(x[2], job.begin)
    BY <1>3, <1>7 DEF Kept, At, Dated
  <2> QED BY <2>3, <2>4
<1>8. \A x \in K : x[2] \in Buckets(x[1], job)
  OBVIOUS
<1> HIDE DEF K
<1> QED BY <1>2, <1>4, <1>5, <1>6, <1>7, <1>8 DEF D

-----------------------------------------------------------------------------
(* The dates of a detection *)

LEMMA ItemsAre ==
    ASSUME TypesInv
    PROVE  /\ \A t \in Items : /\ t \in Nat /\ t > 0 /\ t <= At(now, 1)
                               /\ At(Day(t), hour) = t
                               /\ \E x \in Keys : Has(x) /\ t = At(x[2], hour)
           /\ \A x \in Keys : Has(x) => At(x[2], hour) \in Items
<1>1. ASSUME NEW t \in Items
      PROVE  /\ t \in Nat /\ t > 0 /\ t <= At(now, 1) /\ At(Day(t), hour) = t
             /\ \E x \in Keys : Has(x) /\ t = At(x[2], hour)
  <2>1. PICK x \in Keys : Has(x) /\ t = At(x[2], hour)
    BY DEF Items, Has
  <2>2. x[2] \in Nat /\ x[2] > 0 /\ x[2] <= now /\ now \in Nat /\ hour \in {0, 1}
    BY <2>1, KeysAre DEF TypesInv, Days
  <2> QED BY <2>1, <2>2 DEF At, Day
<1>2. \A x \in Keys : Has(x) => At(x[2], hour) \in Items
  BY DEF Items, Has
<1> QED BY <1>1, <1>2

LEMMA FirstDatesAre ==
    ASSUME TypesInv, Items # {}
    PROVE  /\ FirstDates.begin \in Items /\ \A t \in Items : FirstDates.begin <= t
           /\ FirstDates.begin = Min(Items)
           /\ FirstDates.end \in Nat /\ FirstDates.end <= At(now, 2)
           /\ At(Day(FirstDates.end), hour) <= FirstDates.end
           /\ FirstDates.begin <= FirstDates.end
<1> DEFINE f == Min(Items)
           g == Max(Items)
           r == f + 3 * SixMonths
           e == Min({g, r})
<1>1. /\ Items \in SUBSET Int /\ now \in Nat /\ hour \in {0, 1} /\ At(now, 1) \in Int
      /\ \A t \in Items : 0 <= t /\ t <= At(now, 1)
  BY ItemsAre DEF TypesInv, Days, At
<1>2. f \in Items /\ \A t \in Items : f <= t
  BY <1>1, MinIs
<1>3. g \in Items /\ \A t \in Items : t <= g
  BY <1>1, MaxIs
<1> HIDE DEF f, g
<1>4. f \in Nat /\ g \in Nat /\ At(Day(f), hour) = f /\ At(Day(g), hour) = g /\ g <= At(now, 1) /\ f <= g
  BY <1>2, <1>3, ItemsAre
<1>5. r \in Nat /\ f <= r /\ At(Day(r), hour) = r
  BY <1>1, <1>4, Constants DEF At, Day
<1> HIDE DEF r
<1>6. e \in {g, r} /\ e <= g /\ e <= r
  <2>1. g \in Int /\ r \in Int
    BY <1>4, <1>5
  <2> QED BY <2>1, MinOfTwo
<1> HIDE DEF e
<1>7. e \in Nat /\ e <= At(now, 1) /\ At(Day(e), hour) = e /\ f <= e
  <2>1. e \in Nat /\ At(Day(e), hour) = e /\ f <= e
    BY <1>4, <1>5, <1>6
  <2> QED BY <1>1, <1>4, <1>6, <2>1
<1>8. Cut(e) = e
  BY <1>1, <1>7 DEF Cut, At
<1>9. FirstDates.begin = f /\ FirstDates.end = e
  BY <1>8 DEF FirstDates, f, g, r, e
<1>10. e <= At(now, 2)
  BY <1>1, <1>7 DEF At
<1> QED BY <1>2, <1>4, <1>7, <1>9, <1>10 DEF f

LEMMA NextDatesAre ==
    ASSUME TypesInv
    PROVE  /\ NextDates(last).begin = At(Day(last) - Month, 2) /\ NextDates(last).begin \in Int
           /\ NextDates(last).end \in Nat /\ NextDates(last).end <= At(now, 2)
           /\ At(Day(NextDates(last).end), hour) <= NextDates(last).end
           /\ Day(last) <= Day(NextDates(last).end)
           /\ last <= NextDates(last).end
<1> DEFINE d == Day(last)
           t == At(d + SixMonths, 2)
<1>1. now \in Nat /\ last \in Nat /\ last <= At(now, 2) /\ hour \in {0, 1} /\ d \in Nat
  BY DEF TypesInv, Days, At, Day
<1>2. last <= At(d, 2) /\ d <= now
  BY <1>1 DEF At, Day
<1> HIDE DEF d
<1>3. CASE t > At(now, 1)
  <2>1. Cut(t) = At(now, 2)
    BY <1>3 DEF Cut
  <2>2. Day(At(now, 2)) = now
    BY <1>1 DEF At, Day
  <2> QED BY <1>1, <1>2, <2>1, <2>2, Constants DEF NextDates, At, d
<1>4. CASE ~ (t > At(now, 1))
  <2>1. Cut(t) = t
    BY <1>4 DEF Cut
  <2>2. t \in Nat /\ t <= At(now, 1) /\ Day(t) = d + SixMonths
    BY <1>1, <1>4, Constants DEF At, Day
  <2>3. At(Day(t), hour) <= t /\ t <= At(now, 2) /\ last <= t /\ d <= Day(t)
    BY <1>1, <1>2, <2>2, Constants DEF At
  <2>4. At(d - Month, 2) \in Int
    BY <1>1, Constants DEF At
  <2> HIDE DEF t
  <2> QED BY <2>1, <2>2, <2>3, <2>4 DEF NextDates, d, t
<1> QED BY <1>3, <1>4

\* What Start chooses.
LEMMA DateRangeIs ==
    ASSUME TypesInv, DatesInv, Items # {}
    PROVE  LET r == DateRange(last)
           IN /\ r.begin \in Int /\ r.end \in Nat /\ r.end <= At(now, 2)
              /\ At(Day(r.end), hour) <= r.end
              /\ last # Never => Day(last) <= Day(r.end) /\ r.begin = At(Day(last) - Month, 2)
              /\ last = Never => r.begin \in Items /\ \A t \in Items : r.begin <= t
              /\ \E t \in Items : t <= r.end
<1>1. /\ FirstDates.begin \in Items /\ FirstDates.begin = Min(Items) /\ Min(Items) \in Nat /\ Min(Items) > 0
      /\ \A t \in Items : t \in Nat
      /\ last \in Nat
  BY FirstDatesAre, ItemsAre DEF TypesInv
<1>2. CASE last = Never
  <2>1. last < Min(Items)
    BY <1>1, <1>2 DEF Never
  <2>2. DateRange(last) = FirstDates
    BY <2>1 DEF DateRange
  <2> QED BY <1>1, <1>2, <2>2, FirstDatesAre
<1>3. CASE last # Never
  <2>1. PICK t \in Items : t <= last
    BY <1>3 DEF DatesInv
  <2>2. Min(Items) <= t
    BY <1>1, FirstDatesAre
  <2>3. ~ (last < Min(Items))
    BY <1>1, <2>1, <2>2
  <2>4. DateRange(last) = NextDates(last)
    BY <2>3 DEF DateRange
  <2>5. t <= NextDates(last).end
    BY <1>1, <2>1, NextDatesAre
  <2> QED BY <1>3, <2>4, <2>5, NextDatesAre
<1> QED BY <1>2, <1>3

-----------------------------------------------------------------------------
(* CoreInv: initially, and step by step *)

LEMMA InitCore == Init => CoreInv
<1> SUFFICES ASSUME Init PROVE CoreInv
  OBVIOUS
<1>1. now = 1 /\ hour \in {0, 1} /\ faults = 0 /\ last = 0 /\ job = [pc |-> "idle"] /\ 1 \in Days
  BY Constants DEF Init, Never, NoJob, Days
<1>2. /\ docs = Empty /\ shown = Empty /\ missed = {} /\ blind = {}
      /\ cost = [p \in Products |-> [d \in Days |-> 0]]
  BY DEF Init
<1>3. DOMAIN Empty = {} /\ IsDocs(Empty)
  BY DEF Empty, IsDocs
<1>4. \A x \in Keys : ~ Has(x)
  BY <1>2, KeysAre DEF Has, HasItem
<1>5. TypesInv
  BY <1>1, <1>2, <1>3, <1>4, CostsAreNat, Constants DEF TypesInv, At
<1>6. JobInv /\ DatesInv /\ DataInv
  BY <1>1 DEF JobInv, DatesInv, DataInv, Never, NoJob
<1>7. ValuesInv
  BY <1>1, <1>2, <1>3 DEF ValuesInv, HaveItems
<1> QED BY <1>5, <1>6, <1>7 DEF CoreInv

\* The line items are the same while costs are.
LEMMA SameItems ==
    ASSUME UNCHANGED <<hour, cost>>
    PROVE  /\ Items' = Items
           /\ \A x : Has(x)' <=> Has(x)
           /\ \A f : HaveItems(f)' <=> HaveItems(f)
BY DEF Items, Has, HasItem, HaveItems

LEMMA TickCore == ASSUME CoreInv, Tick PROVE CoreInv'
<1>1. UNCHANGED <<hour, cost, last, docs, shown, job, faults, missed, blind>> /\ now < Horizon /\ now' = now + 1
  BY DEF Tick
<1>2. now \in Nat /\ now' \in Days /\ At(now', 2) = At(now, 2) + 3 /\ At(now, 2) \in Nat
  BY <1>1, Constants DEF CoreInv, TypesInv, Days, At
<1>3. \A x \in Keys : Has(x)' => x[2] <= now'
  BY <1>1, <1>2, SameItems, KeysAre DEF CoreInv, TypesInv
<1>4. TypesInv'
  <2>1. last' \in 0 .. At(now', 2)
    BY <1>1, <1>2 DEF CoreInv, TypesInv
  <2> QED BY <1>1, <1>2, <1>3, <2>1 DEF CoreInv, TypesInv, IsDocs, At
<1>5. JobInv'
  BY <1>1 DEF CoreInv, JobInv, IsDocs, NoJob
<1>6. DatesInv'
  <2>1. job.pc # "idle" => job.end <= At(now', 2)
    BY <1>2 DEF CoreInv, DatesInv, JobInv
  <2> QED BY <1>1, <2>1, SameItems DEF CoreInv, DatesInv, At
<1>7. DataInv' /\ ValuesInv'
  BY <1>1, SameItems DEF CoreInv, DataInv, ValuesInv
<1> QED BY <1>4, <1>5, <1>6, <1>7 DEF CoreInv

\* Line items are added, and none goes away.
LEMMA IngestIs ==
    ASSUME TypesInv, NEW b \in Bills, Ingest(b)
    PROVE  /\ cost' \in [Products -> [Days -> Costs]]
           /\ cost'[b[1]][b[2]] = b[3] /\ <<b[1], b[2]>> \in Keys
           /\ \A x \in Keys : x # <<b[1], b[2]>> => cost'[x[1]][x[2]] = cost[x[1]][x[2]]
           /\ \A x \in Keys : Has(x) => Has(x)'
           /\ \A x \in Keys : Has(x)' => x[2] <= now
           /\ Items \subseteq Items'
           /\ UNCHANGED <<now, hour, last, docs, shown, job, faults, blind>>
           /\ missed' = missed \cup (IF PassedBy(b[2]) THEN {<<b[1], b[2]>>} ELSE {})
<1> DEFINE k == <<b[1], b[2]>>
<1>1. /\ b[2] <= now /\ cost' = [cost EXCEPT ![b[1]][b[2]] = b[3]]
      /\ UNCHANGED <<now, hour, last, docs, shown, job, faults, blind>>
      /\ missed' = missed \cup (IF PassedBy(b[2]) THEN {k} ELSE {})
  BY DEF Ingest
<1>2. k \in Keys /\ b[1] \in Products /\ b[2] \in Days /\ b[3] \in Costs /\ b[3] > 0
  BY BillsAre
<1>3. /\ cost' \in [Products -> [Days -> Costs]] /\ cost'[b[1]][b[2]] = b[3]
      /\ \A p \in Products, d \in Days : p # b[1] \/ d # b[2] => cost'[p][d] = cost[p][d]
  BY <1>1, <1>2 DEF TypesInv
<1>4. ASSUME NEW x \in Keys, x # k PROVE cost'[x[1]][x[2]] = cost[x[1]][x[2]]
  <2>1. x[1] \in Products /\ x[2] \in Days /\ (x[1] # b[1] \/ x[2] # b[2])
    BY <1>4, KeysAre
  <2> QED BY <1>3, <2>1
<1>5. ASSUME NEW x \in Keys PROVE (Has(x) => Has(x)') /\ (Has(x)' => x[2] <= now)
  <2>1. CASE x = k
    BY <1>1, <1>2, <1>3, <2>1 DEF Has, HasItem
  <2>2. CASE x # k
    BY <1>4, <2>2 DEF TypesInv, Has, HasItem
  <2> QED BY <2>1, <2>2
<1>6. Items \subseteq Items'
  BY <1>1, <1>5 DEF Items, Has
<1> QED BY <1>1, <1>2, <1>3, <1>4, <1>5, <1>6

LEMMA IngestCore == ASSUME CoreInv, NEW b \in Bills, Ingest(b) PROVE CoreInv'
<1>1. /\ cost' \in [Products -> [Days -> Costs]] /\ <<b[1], b[2]>> \in Keys
      /\ \A x \in Keys : (Has(x) => Has(x)') /\ (Has(x)' => x[2] <= now)
      /\ Items \subseteq Items'
      /\ UNCHANGED <<now, hour, last, docs, shown, job, faults, blind>>
      /\ missed' = missed \cup (IF PassedBy(b[2]) THEN {<<b[1], b[2]>>} ELSE {})
  BY IngestIs DEF CoreInv
<1>2. TypesInv'
  BY <1>1 DEF CoreInv, TypesInv, IsDocs, At
<1>3. JobInv' /\ DataInv'
  BY <1>1 DEF CoreInv, JobInv, DataInv, IsDocs
<1>4. DatesInv'
  BY <1>1 DEF CoreInv, DatesInv, At
<1>5. ASSUME NEW f, DOMAIN f \subseteq Keys, HaveItems(f) PROVE HaveItems(f)'
  BY <1>1, <1>5 DEF HaveItems
<1>6. ValuesInv'
  <2>1. DOMAIN docs \subseteq Keys /\ DOMAIN shown \subseteq Keys /\ (job.pc = "save" => DOMAIN job.data \subseteq Keys)
    BY DEF CoreInv, TypesInv, JobInv, IsDocs
  <2> QED BY <1>1, <1>5, <2>1 DEF CoreInv, ValuesInv
<1> QED BY <1>2, <1>3, <1>4, <1>6 DEF CoreInv

LEMMA RefreshCore == ASSUME CoreInv, Refresh PROVE CoreInv'
<1>1. UNCHANGED <<now, hour, cost, last, docs, job, faults, missed, blind>> /\ shown' = docs
  BY DEF Refresh
<1>2. TypesInv'
  BY <1>1, SameItems DEF CoreInv, TypesInv, IsDocs, At
<1>3. JobInv' /\ DataInv' /\ DatesInv'
  BY <1>1, SameItems DEF CoreInv, JobInv, DataInv, DatesInv, IsDocs, At
<1>4. ValuesInv'
  BY <1>1, SameItems DEF CoreInv, ValuesInv
<1> QED BY <1>2, <1>3, <1>4 DEF CoreInv

LEMMA StartCore == ASSUME CoreInv, Start PROVE CoreInv'
<1> DEFINE r == DateRange(last)
<1>1. /\ UNCHANGED <<now, hour, cost, last, docs, shown, faults, missed, blind>>
      /\ Items # {} /\ job' = [pc |-> "fetch", begin |-> r.begin, end |-> r.end]
  BY DEF Start
<1>2. /\ r.begin \in Int /\ r.end \in Nat /\ r.end <= At(now, 2)
      /\ At(Day(r.end), hour) <= r.end
      /\ last # Never => Day(last) <= Day(r.end) /\ r.begin = At(Day(last) - Month, 2)
      /\ last = Never => r.begin \in Items /\ \A t \in Items : r.begin <= t
      /\ \E t \in Items : t <= r.end
  BY <1>1, DateRangeIs DEF CoreInv
<1> HIDE DEF r
<1>3. job'.pc = "fetch" /\ job'.begin = r.begin /\ job'.end = r.end
  BY <1>1
<1>4. TypesInv'
  BY <1>1, SameItems DEF CoreInv, TypesInv, IsDocs, At
<1>5. JobInv' /\ DataInv'
  BY <1>2, <1>3 DEF JobInv, DataInv
<1>6. DatesInv'
  BY <1>1, <1>2, <1>3, SameItems DEF CoreInv, DatesInv, At
<1>7. ValuesInv'
  BY <1>1, <1>3, SameItems DEF CoreInv, ValuesInv
<1> QED BY <1>4, <1>5, <1>6, <1>7 DEF CoreInv

\* What Fetch does.
LEMMA FetchIs ==
    ASSUME NEW order, Fetch(order)
    PROVE  /\ job.pc = "fetch" /\ job'.pc = "save" /\ job'.begin = job.begin /\ job'.end = job.end
           /\ job'.data = AnomaliesData(job, order)
           /\ missed' = missed \cup {x \in Keys : /\ last = Never /\ Has(x)
                                                  /\ x[2] = Day(job.begin)
                                                  /\ ~ Kept(x[2], job.begin)}
           /\ UNCHANGED <<now, hour, cost, last, docs, shown, faults, blind>>
BY DEF Fetch, Has

LEMMA FetchCore == ASSUME CoreInv, NEW order, Fetch(order) PROVE CoreInv'
<1> DEFINE D == AnomaliesData(job, order)
<1>1. /\ job.pc = "fetch" /\ job'.pc = "save" /\ job'.begin = job.begin /\ job'.end = job.end
      /\ job'.data = D
      /\ UNCHANGED <<now, hour, cost, last, docs, shown, faults, blind>>
      /\ missed' \subseteq missed \cup Keys
  BY FetchIs
<1>2. /\ IsDocs(D)
      /\ \A x \in DOMAIN D :
             /\ job.begin <= At(x[2], 0) /\ x[2] <= Day(job.end)
             /\ ~ D[x].recurrent /\ D[x].begin = job.begin
             /\ D[x].value = cost[x[1]][x[2]]
             /\ \A z \in Keys : z[1] = x[1] /\ x[2] <= z[2] /\ z[2] <= Day(job.end)
                                    => z \in DOMAIN D
  BY <1>1, DataIs
<1> HIDE DEF D
<1>3. TypesInv'
  BY <1>1, SameItems DEF CoreInv, TypesInv, IsDocs, At
<1>4. JobInv' /\ DataInv'
  BY <1>1, <1>2 DEF CoreInv, JobInv, DataInv, IsDocs, At, Day
<1>5. DatesInv'
  BY <1>1, SameItems DEF CoreInv, DatesInv, At
<1>6. HaveItems(D)
  <2> SUFFICES ASSUME NEW x \in DOMAIN D, D[x].value # 0 PROVE Has(x)
    BY DEF HaveItems
  <2>1. x \in Keys /\ cost[x[1]][x[2]] # 0
    BY <1>2 DEF IsDocs
  <2>2. cost[x[1]][x[2]] \in Nat
    BY <2>1, KeysAre, CostsAreNat DEF CoreInv, TypesInv
  <2> QED BY <2>1, <2>2 DEF Has, HasItem
<1>7. ValuesInv'
  BY <1>1, <1>6, SameItems DEF CoreInv, ValuesInv
<1> QED BY <1>3, <1>4, <1>5, <1>7 DEF CoreInv

LEMMA ReplacedAt ==
    ASSUME NEW f, NEW g
    PROVE  /\ DOMAIN Replaced(f, g) = DOMAIN f \cup DOMAIN g
           /\ \A x \in DOMAIN g : Replaced(f, g)[x] = g[x]
           /\ \A x \in DOMAIN f : x \notin DOMAIN g => Replaced(f, g)[x] = f[x]
BY DEF Replaced

LEMMA ReplacedIs ==
    ASSUME NEW f, NEW g
    PROVE  /\ IsDocs(f) /\ IsDocs(g) => IsDocs(Replaced(f, g))
           /\ HaveItems(f) /\ HaveItems(g) => HaveItems(Replaced(f, g))
<1> DEFINE r == Replaced(f, g)
<1>1. /\ DOMAIN r = DOMAIN f \cup DOMAIN g
      /\ \A x \in DOMAIN g : r[x] = g[x]
      /\ \A x \in DOMAIN f : x \notin DOMAIN g => r[x] = f[x]
      /\ r = [x \in DOMAIN r |-> r[x]]
  BY DEF Replaced
<1> HIDE DEF r
<1>2. ASSUME IsDocs(f), IsDocs(g) PROVE IsDocs(r)
  <2>1. \A x \in DOMAIN r : r[x] \in Doc
    BY <1>1, <1>2 DEF IsDocs
  <2>2. DOMAIN r \subseteq Keys
    BY <1>1, <1>2 DEF IsDocs
  <2>3. r \in [DOMAIN r -> Doc]
    BY <1>1, <2>1
  <2> QED BY <2>2, <2>3 DEF IsDocs
<1>3. ASSUME HaveItems(f), HaveItems(g) PROVE HaveItems(r)
  BY <1>1, <1>3 DEF HaveItems
<1> QED BY <1>2, <1>3 DEF r

\* What Save does: new are the documents that are not lost.
Saves(lost, new) ==
    /\ DOMAIN new = {y \in DOMAIN job.data : y[1] \notin lost}
    /\ \A x \in DOMAIN new : new[x] = job.data[x]
    /\ IsDocs(new) /\ HaveItems(new)
    /\ docs' = Replaced(docs, new)
    /\ missed' = (missed \ {x \in DOMAIN new : new[x].value = cost[x[1]][x[2]]})
                     \cup {x \in DOMAIN job.data : x[1] \in lost}
    /\ blind' = (blind \ DOMAIN new) \cup Outlived(new)
    /\ job.pc = "save"
    /\ job'.pc = "recur" /\ job'.begin = job.begin /\ job'.end = job.end
    /\ faults' \in 0 .. MaxFaults
    /\ UNCHANGED <<now, hour, cost, last, shown>>

LEMMA SaveIs == ASSUME CoreInv, NEW lost, Save(lost) PROVE \E new : Saves(lost, new)
<1> DEFINE N == {y \in DOMAIN job.data : y[1] \notin lost}
           n == [x \in N |-> job.data[x]]
<1>1. /\ job.pc = "save" /\ (lost # {} => faults < MaxFaults)
      /\ faults' = faults + (IF lost = {} THEN 0 ELSE 1)
      /\ docs' = Replaced(docs, n)
      /\ job' = [pc |-> "recur", begin |-> job.begin, end |-> job.end]
      /\ missed' = (missed \ {x \in DOMAIN n : n[x].value = cost[x[1]][x[2]]})
                       \cup {x \in DOMAIN job.data : x[1] \in lost}
      /\ blind' = (blind \ DOMAIN n) \cup Outlived(n)
      /\ UNCHANGED <<now, hour, cost, last, shown>>
  BY DEF Save
<1>2. DOMAIN n = N /\ \A x \in N : n[x] = job.data[x]
  OBVIOUS
<1>3. IsDocs(job.data) /\ HaveItems(job.data)
  BY <1>1 DEF CoreInv, JobInv, ValuesInv
<1>4. IsDocs(n)
  <2>1. \A x \in N : job.data[x] \in Doc /\ x \in Keys
    BY <1>3 DEF IsDocs
  <2> HIDE DEF N
  <2> QED BY <2>1 DEF IsDocs
<1>5. HaveItems(n)
  BY <1>2, <1>3 DEF HaveItems
<1>6. faults' \in 0 .. MaxFaults
  BY <1>1, Constants DEF CoreInv, TypesInv
<1>7. job'.pc = "recur" /\ job'.begin = job.begin /\ job'.end = job.end
  BY <1>1
<1> HIDE DEF n
<1>8. Saves(lost, n)
  BY <1>1, <1>2, <1>4, <1>5, <1>6, <1>7 DEF Saves
<1> QED BY <1>8

LEMMA SaveCore == ASSUME CoreInv, NEW lost, Save(lost) PROVE CoreInv'
<1>0. PICK new : Saves(lost, new)
  BY SaveIs
<1>1. /\ IsDocs(new) /\ HaveItems(new) /\ DOMAIN new \subseteq DOMAIN job.data
      /\ docs' = Replaced(docs, new)
      /\ missed' \subseteq missed \cup DOMAIN job.data
      /\ blind' = (blind \ DOMAIN new) \cup Outlived(new)
      /\ job.pc = "save"
      /\ job'.pc = "recur" /\ job'.begin = job.begin /\ job'.end = job.end
      /\ faults' \in 0 .. MaxFaults
      /\ UNCHANGED <<now, hour, cost, last, shown>>
  BY <1>0 DEF Saves
<1>2. /\ IsDocs(docs) /\ IsDocs(shown) /\ DOMAIN shown \subseteq DOMAIN docs
      /\ DOMAIN job.data \subseteq Keys /\ missed \subseteq Keys /\ blind \subseteq Keys
      /\ HaveItems(docs) /\ HaveItems(shown)
  BY <1>1 DEF CoreInv, TypesInv, JobInv, ValuesInv, IsDocs
<1>3. IsDocs(docs') /\ HaveItems(docs') /\ DOMAIN docs \subseteq DOMAIN docs'
  <2>1. IsDocs(new) /\ HaveItems(new) /\ docs' = Replaced(docs, new)
    BY <1>1
  <2>2. IsDocs(Replaced(docs, new)) /\ HaveItems(Replaced(docs, new))
    BY <1>2, <2>1, ReplacedIs
  <2>3. DOMAIN docs \subseteq DOMAIN Replaced(docs, new)
    BY ReplacedAt
  <2> QED BY <2>1, <2>2, <2>3
<1>4. missed' \subseteq Keys /\ blind' \subseteq Keys
  <2>1. Outlived(new) \subseteq DOMAIN docs
    BY DEF Outlived
  <2>2. DOMAIN docs \subseteq Keys
    BY <1>2 DEF IsDocs
  <2> QED BY <1>1, <1>2, <2>1, <2>2
<1>5. TypesInv'
  BY <1>1, <1>2, <1>3, <1>4, SameItems DEF CoreInv, TypesInv, IsDocs, At
<1>6. JobInv' /\ DataInv'
  BY <1>1 DEF CoreInv, JobInv, DataInv
<1>7. DatesInv'
  BY <1>1, SameItems DEF CoreInv, DatesInv, At
<1>8. ValuesInv'
  BY <1>1, <1>2, <1>3, SameItems DEF ValuesInv
<1> QED BY <1>5, <1>6, <1>7, <1>8 DEF CoreInv

\* The documents that Recur marks.
ToMark == Recurrent(shown, Anomalies(shown, job))

\* What Recur does: the documents are marked as they were found.
LEMMA RecurIs ==
    ASSUME CoreInv, Recur
    PROVE  /\ ToMark \subseteq DOMAIN shown /\ ToMark \subseteq DOMAIN docs
           /\ DOMAIN docs' = DOMAIN docs /\ IsDocs(docs') /\ HaveItems(docs')
           /\ \A x \in ToMark : /\ docs'[x].recurrent = TRUE
                                /\ docs'[x].value = shown[x].value /\ docs'[x].abnormal = shown[x].abnormal
                                /\ docs'[x].begin = shown[x].begin /\ docs'[x].basis = shown[x].basis
           /\ \A x \in DOMAIN docs : x \notin ToMark => docs'[x] = docs[x]
           /\ job.pc = "recur" /\ job'.pc = "register" /\ job'.end = job.end
           /\ missed' = missed \cup (ToMark \cap Hidden)
           /\ blind' = blind \cup {x \in DOMAIN docs : Hidden \cap {x, MonthBefore(x)} # {}}
           /\ UNCHANGED <<now, hour, cost, last, shown, faults>>
<1> DEFINE R == ToMark
           M == Marked(shown, R)
<1>1. /\ job.pc = "recur" /\ docs' = Replaced(docs, M)
      /\ job' = [pc |-> "register", end |-> job.end]
      /\ missed' = missed \cup (R \cap Hidden)
      /\ blind' = blind \cup {x \in DOMAIN docs : Hidden \cap {x, MonthBefore(x)} # {}}
      /\ UNCHANGED <<now, hour, cost, last, shown, faults>>
  BY DEF Recur, ToMark
<1>2. R \subseteq DOMAIN shown
  BY DEF ToMark, Recurrent, Anomalies
<1>3. IsDocs(docs) /\ IsDocs(shown) /\ HaveItems(docs) /\ HaveItems(shown) /\ R \subseteq DOMAIN docs
  BY <1>2 DEF CoreInv, TypesInv, ValuesInv
<1> HIDE DEF R
<1>4. M = [x \in R |-> [shown[x] EXCEPT !.recurrent = TRUE]] /\ DOMAIN M = R
  BY DEF Marked
<1>5. ASSUME NEW x \in R
      PROVE  /\ M[x] \in Doc /\ M[x].recurrent = TRUE
             /\ M[x].value = shown[x].value /\ M[x].abnormal = shown[x].abnormal
             /\ M[x].begin = shown[x].begin /\ M[x].basis = shown[x].basis
  <2>1. shown[x] \in Doc
    BY <1>2, <1>3 DEF IsDocs
  <2>2. M[x] = [shown[x] EXCEPT !.recurrent = TRUE]
    BY <1>4
  <2> HIDE DEF M
  <2> QED BY <2>1, <2>2 DEF Doc
<1>6. M = [x \in DOMAIN M |-> M[x]]
  BY <1>4
<1> HIDE DEF M
<1>7. IsDocs(M)
  <2>1. DOMAIN M \subseteq Keys /\ \A x \in DOMAIN M : M[x] \in Doc
    BY <1>2, <1>3, <1>4, <1>5 DEF IsDocs
  <2> QED BY <1>6, <2>1 DEF IsDocs
<1>8. HaveItems(M)
  BY <1>2, <1>3, <1>4, <1>5 DEF HaveItems
<1>9. IsDocs(Replaced(docs, M)) /\ HaveItems(Replaced(docs, M))
  BY <1>3, <1>7, <1>8, ReplacedIs
<1>10. /\ DOMAIN docs' = DOMAIN docs
       /\ \A x \in R : docs'[x] = M[x]
       /\ \A x \in DOMAIN docs : x \notin R => docs'[x] = docs[x]
  <2>1. DOMAIN M = R /\ R \subseteq DOMAIN docs /\ docs' = Replaced(docs, M)
    BY <1>1, <1>3, <1>4
  <2>2. /\ DOMAIN Replaced(docs, M) = DOMAIN docs \cup DOMAIN M
        /\ \A x \in DOMAIN M : Replaced(docs, M)[x] = M[x]
        /\ \A x \in DOMAIN docs : x \notin DOMAIN M => Replaced(docs, M)[x] = docs[x]
    BY ReplacedAt
  <2>3. DOMAIN docs' = DOMAIN docs
    BY <2>1, <2>2
  <2>4. \A x \in R : docs'[x] = M[x]
    BY <2>1, <2>2
  <2>5. \A x \in DOMAIN docs : x \notin R => docs'[x] = docs[x]
    BY <2>1, <2>2
  <2> QED BY <2>3, <2>4, <2>5
<1>11. job'.pc = "register" /\ job'.end = job.end
  BY <1>1
<1> QED BY <1>1, <1>2, <1>3, <1>5, <1>9, <1>10, <1>11 DEF R

LEMMA RecurCore == ASSUME CoreInv, Recur PROVE CoreInv'
<1>1. /\ DOMAIN docs' = DOMAIN docs /\ IsDocs(docs') /\ HaveItems(docs')
      /\ job.pc = "recur" /\ job'.pc = "register" /\ job'.end = job.end
      /\ missed' \subseteq missed \cup DOMAIN docs /\ blind' \subseteq blind \cup DOMAIN docs
      /\ UNCHANGED <<now, hour, cost, last, shown, faults>>
  <2>1. Hidden \subseteq DOMAIN docs
    BY DEF Hidden
  <2> QED BY <2>1, RecurIs
<1>2. DOMAIN docs \subseteq Keys
  BY DEF CoreInv, TypesInv, IsDocs
<1>3. TypesInv'
  BY <1>1, <1>2, SameItems DEF CoreInv, TypesInv, IsDocs, At
<1>4. JobInv' /\ DataInv'
  BY <1>1 DEF CoreInv, JobInv, DataInv
<1>5. DatesInv'
  BY <1>1, SameItems DEF CoreInv, DatesInv, At
<1>6. ValuesInv'
  BY <1>1, SameItems DEF CoreInv, ValuesInv
<1> QED BY <1>3, <1>4, <1>5, <1>6 DEF CoreInv

LEMMA RegisterCore == ASSUME CoreInv, Register PROVE CoreInv'
<1>1. /\ job.pc = "register" /\ last' = job.end /\ job' = NoJob /\ job'.pc = "idle"
      /\ UNCHANGED <<now, hour, cost, docs, shown, faults, missed, blind>>
  BY DEF Register, NoJob
<1>2. last' \in 0 .. At(now, 2)
  BY <1>1 DEF CoreInv, TypesInv, JobInv, DatesInv, At, Days
<1>3. TypesInv'
  BY <1>1, <1>2, SameItems DEF CoreInv, TypesInv, IsDocs, At
<1>4. JobInv' /\ DataInv'
  BY <1>1 DEF JobInv, DataInv
<1>5. DatesInv'
  BY <1>1, SameItems DEF CoreInv, DatesInv
<1>6. ValuesInv'
  BY <1>1, SameItems DEF CoreInv, ValuesInv
<1> QED BY <1>3, <1>4, <1>5, <1>6 DEF CoreInv

LEMMA FailCore == ASSUME CoreInv, Fail PROVE CoreInv'
<1>1. /\ job # NoJob /\ faults < MaxFaults /\ faults' = faults + 1 /\ job' = NoJob /\ job'.pc = "idle"
      /\ blind' = IF job.pc = "recur" THEN DOMAIN docs ELSE blind
      /\ UNCHANGED <<now, hour, cost, last, docs, shown, missed>>
  BY DEF Fail, NoJob
<1>2. faults' \in 0 .. MaxFaults /\ blind' \subseteq Keys
  BY <1>1, Constants DEF CoreInv, TypesInv, IsDocs
<1>3. TypesInv'
  BY <1>1, <1>2, SameItems DEF CoreInv, TypesInv, IsDocs, At
<1>4. JobInv' /\ DataInv'
  BY <1>1 DEF JobInv, DataInv
<1>5. DatesInv'
  BY <1>1, SameItems DEF CoreInv, DatesInv
<1>6. ValuesInv'
  BY <1>1, SameItems DEF CoreInv, ValuesInv
<1> QED BY <1>3, <1>4, <1>5, <1>6 DEF CoreInv

LEMMA NextCore == CoreInv /\ [Next]_vars => CoreInv'
<1> SUFFICES ASSUME CoreInv, [Next]_vars PROVE CoreInv'
  OBVIOUS
<1>1. CASE Tick
  BY <1>1, TickCore
<1>2. ASSUME NEW b \in Bills, Ingest(b) PROVE CoreInv'
  BY <1>2, IngestCore
<1>3. CASE Refresh
  BY <1>3, RefreshCore
<1>4. CASE Start
  BY <1>4, StartCore
<1>5. ASSUME NEW order \in Orders, Fetch(order) PROVE CoreInv'
  BY <1>5, FetchCore
<1>6. ASSUME NEW lost \in SUBSET Products, Save(lost) PROVE CoreInv'
  BY <1>6, SaveCore
<1>7. CASE Recur
  BY <1>7, RecurCore
<1>8. CASE Register
  BY <1>8, RegisterCore
<1>9. CASE Fail
  BY <1>9, FailCore
<1>10. CASE UNCHANGED vars
  <2>1. UNCHANGED <<now, hour, cost, last, docs, shown, job, faults, missed, blind>>
    BY <1>10 DEF vars
  <2> QED BY <2>1, SameItems DEF CoreInv, TypesInv, JobInv, DatesInv, DataInv, ValuesInv, IsDocs, At, NoJob
<1> QED BY <1>1, <1>2, <1>3, <1>4, <1>5, <1>6, <1>7, <1>8, <1>9, <1>10 DEF Next

LEMMA CoreHolds == Spec => []CoreInv
BY InitCore, NextCore, PTL DEF Spec

-----------------------------------------------------------------------------
(* MarksAreTrue *)

LEMMA CoreTypes == CoreInv => TypeOK
<1> SUFFICES ASSUME CoreInv PROVE TypeOK
  OBVIOUS
<1>1. ASSUME NEW f, IsDocs(f) PROVE DocsOK(f)
  <2>1. \A x \in DOMAIN f : f[x] \in Doc
    BY <1>1 DEF IsDocs
  <2>2. \A x \in DOMAIN f :
            /\ f[x].value \in Costs /\ f[x].maxExpected \in Seq(Costs)
            /\ f[x].abnormal \in BOOLEAN /\ f[x].recurrent \in BOOLEAN
    BY <2>1 DEF Doc
  <2>3. \A x \in DOMAIN f : {f[x].abnormal, f[x].recurrent} \subseteq BOOLEAN
    BY <2>2, Zenon
  <2> QED BY <1>1, <2>2, <2>3 DEF IsDocs, DocsOK
<1>2. job # NoJob => job.end <= At(now, 2)
  BY DEF CoreInv, JobInv, DatesInv
<1>3. ASSUME job.pc = "save", NEW x \in DOMAIN job.data PROVE x[2] <= now
  <2>1. /\ now \in Nat /\ job.end \in Nat /\ job.end <= At(now, 2) /\ x \in Keys
        /\ x[2] <= Day(job.end)
    BY <1>3 DEF CoreInv, TypesInv, JobInv, DatesInv, DataInv, Days, IsDocs
  <2>2. x[2] \in Nat
    BY <2>1, KeysAre
  <2> QED BY <2>1, <2>2 DEF Day, At
<1> QED BY <1>1, <1>2, <1>3 DEF CoreInv, TypesInv, JobInv, TypeOK

LEMMA AboutIs ==
    ASSUME NEW a \in Nat, NEW b \in Nat
    PROVE  About(a, b) <=> Abs(a - b) * Unit < a * Tolerance
<1> DEFINE u == a * Unit
           t == a * Tolerance
           v == b * Unit
<1>1. u \in Int /\ t \in Int /\ v \in Int
  BY Constants
<1>2. a * (Unit + Tolerance) = u + t /\ a * (Unit - Tolerance) = u - t
  BY Constants
<1>3. (a - b) * Unit = u - v /\ (b - a) * Unit = v - u
  BY Constants
<1>4. a - b < 0 => u <= v
  BY Constants
<1>5. a - b >= 0 => v <= u
  BY Constants
<1>6. Abs(a - b) = IF a - b < 0 THEN b - a ELSE a - b
  BY DEF Abs
<1>7. About(a, b) <=> u + t > v /\ u - t < v
  BY <1>2 DEF About
<1> HIDE DEF u, t, v
<1>8. CASE a - b < 0
  <2>1. Abs(a - b) * Unit = v - u
    BY <1>3, <1>6, <1>8
  <2>2. About(a, b) <=> v - u < t
    <3>1. t >= 0
      BY Constants DEF t
    <3> QED BY <1>1, <1>4, <1>7, <1>8, <3>1
  <2> QED BY <2>1, <2>2 DEF t
<1>9. CASE a - b >= 0
  <2>1. Abs(a - b) * Unit = u - v
    BY <1>3, <1>6, <1>9
  <2>2. About(a, b) <=> u - v < t
    <3>1. t >= 0
      BY Constants DEF t
    <3> QED BY <1>1, <1>5, <1>7, <1>9, <3>1
  <2> QED BY <2>1, <2>2 DEF t
<1> QED BY <1>8, <1>9

LEMMA InitMarks == Init => MarksInv
BY DEF Init, Empty, MarksInv, RecurrentIsReal

\* Nothing changes for the marks while documents do not, and none are to be looked for.
LEMMA SameMarks ==
    ASSUME MarksInv, UNCHANGED docs, blind \subseteq blind',
           job'.pc = "recur" => UNCHANGED job, job.pc = "recur" => job'.pc = "recur"
    PROVE  MarksInv'
BY DEF MarksInv, RecurrentIsReal, MarkOK, ReallyRecurrent, Fresh, At

\* Whether x comes back is a matter of two documents.
LEMMA SameRecurrence ==
    ASSUME NEW x, LET y == MonthBefore(x)
                  IN /\ docs'[x].value = docs[x].value
                     /\ y \in DOMAIN docs' <=> y \in DOMAIN docs
                     /\ y \in DOMAIN docs => /\ docs'[y].abnormal = docs[y].abnormal
                                             /\ docs'[y].value = docs[y].value
    PROVE  ReallyRecurrent(x)' <=> ReallyRecurrent(x)
BY DEF ReallyRecurrent, MonthBefore

LEMMA SaveMarks == ASSUME CoreInv, MarksInv, NEW lost, Save(lost) PROVE MarksInv'
<1>1. PICK new : Saves(lost, new)
  BY SaveIs
<1> DEFINE D == DOMAIN new
<1>2. /\ D = {y \in DOMAIN job.data : y[1] \notin lost}
      /\ \A x \in D : new[x] = job.data[x]
      /\ docs' = Replaced(docs, new)
      /\ blind' = (blind \ D) \cup Outlived(new)
      /\ job.pc = "save" /\ job'.pc = "recur" /\ job'.begin = job.begin /\ job'.end = job.end
  BY <1>1 DEF Saves
<1>3. /\ DOMAIN docs' = DOMAIN docs \cup D
      /\ \A x \in D : docs'[x] = new[x]
      /\ \A x \in DOMAIN docs : x \notin D => docs'[x] = docs[x]
  <2>1. /\ DOMAIN Replaced(docs, new) = DOMAIN docs \cup DOMAIN new
        /\ \A x \in DOMAIN new : Replaced(docs, new)[x] = new[x]
        /\ \A x \in DOMAIN docs : x \notin DOMAIN new => Replaced(docs, new)[x] = docs[x]
    BY ReplacedAt
  <2> QED BY <1>2, <2>1
<1>4. /\ job.begin \in Int /\ job.end \in Nat
      /\ DOMAIN docs \subseteq Keys /\ DOMAIN job.data \subseteq Keys
  BY <1>2 DEF CoreInv, TypesInv, JobInv, IsDocs
<1> HIDE DEF D
<1>5. ASSUME NEW x \in D PROVE ~ docs'[x].recurrent /\ Fresh(x)'
  <2>1. /\ x \in DOMAIN job.data /\ docs'[x] = job.data[x]
        /\ job.begin <= At(x[2], 0) /\ x[2] <= Day(job.end)
        /\ ~ job.data[x].recurrent /\ job.data[x].begin = job.begin
    BY <1>2, <1>3 DEF CoreInv, DataInv
  <2>2. x[2] \in Nat
    BY <1>4, <2>1, KeysAre
  <2>3. At(x[2], 0) <= job.end
    BY <1>4, <2>1, <2>2 DEF At, Day
  <2> QED BY <1>2, <2>1, <2>3 DEF Fresh, At
<1>6. ASSUME NEW x \in DOMAIN docs', x \notin D, x \notin blind'
      PROVE  /\ x \in DOMAIN docs /\ docs'[x] = docs[x] /\ x \notin blind
             /\ ReallyRecurrent(x)' <=> ReallyRecurrent(x)
  <2> DEFINE y == MonthBefore(x)
  <2>1. x \in DOMAIN docs /\ docs'[x] = docs[x] /\ x \notin blind /\ x \in Keys
    BY <1>2, <1>3, <1>4, <1>6
  <2>2. x[2] \in Nat /\ y[1] = x[1] /\ y[2] = x[2] - Month /\ Month \in Nat
    BY <2>1, KeysAre, Constants DEF MonthBefore
  <2>3. y \notin D
    <3> SUFFICES ASSUME y \in D PROVE FALSE
      OBVIOUS
    <3>1. ~ (At(x[2], 0) > job.end)
      BY <1>2, <1>6, <2>1 DEF Outlived, D
    <3>2. x[2] <= Day(job.end)
      BY <1>4, <2>2, <3>1 DEF At, Day
    <3>3. y \in DOMAIN job.data /\ y[1] \notin lost
      BY <1>2
    <3> HIDE DEF y
    <3>4. y[2] <= x[2] /\ x[1] = y[1]
      BY <2>2
    <3>5. x \in DOMAIN job.data
      BY <1>2, <2>1, <3>2, <3>3, <3>4 DEF CoreInv, DataInv
    <3> QED BY <1>2, <1>6, <2>2, <3>3, <3>5
  <2>4. ReallyRecurrent(x)' <=> ReallyRecurrent(x)
    BY <1>3, <2>1, <2>3, SameRecurrence
  <2> QED BY <2>1, <2>4
<1>7. RecurrentIsReal'
  <2> SUFFICES ASSUME NEW x \in DOMAIN docs', docs'[x].recurrent, x \notin blind'
               PROVE  ReallyRecurrent(x)'
    BY DEF RecurrentIsReal
  <2>1. x \notin D
    BY <1>5
  <2> QED BY <1>6, <2>1 DEF MarksInv, RecurrentIsReal
<1>8. ASSUME NEW x \in DOMAIN docs' PROVE MarkOK(x)' \/ Fresh(x)'
  <2>1. CASE x \in D
    BY <1>5, <2>1
  <2>2. CASE x \in blind'
    BY <2>2 DEF MarkOK
  <2>3. CASE x \notin D /\ x \notin blind'
    <3>1. MarkOK(x)
      BY <1>2, <1>6, <2>3 DEF MarksInv, Fresh
    <3> QED BY <1>6, <2>3, <3>1 DEF MarkOK, At
  <2> QED BY <2>1, <2>2, <2>3
<1> QED BY <1>7, <1>8 DEF MarksInv

LEMMA RecurMarks == ASSUME CoreInv, MarksInv, Recur PROVE MarksInv'
<1> DEFINE R == ToMark
<1>1. /\ R \subseteq DOMAIN shown /\ R \subseteq DOMAIN docs
      /\ DOMAIN docs' = DOMAIN docs
      /\ \A x \in R : /\ docs'[x].recurrent = TRUE
                      /\ docs'[x].value = shown[x].value /\ docs'[x].abnormal = shown[x].abnormal
                      /\ docs'[x].begin = shown[x].begin
      /\ \A x \in DOMAIN docs : x \notin R => docs'[x] = docs[x]
      /\ job.pc = "recur" /\ job'.pc = "register"
      /\ blind' = blind \cup {x \in DOMAIN docs : Hidden \cap {x, MonthBefore(x)} # {}}
      /\ UNCHANGED <<shown>>
  BY RecurIs
<1>2. R = {x \in Anomalies(shown, job) :
               /\ MonthBefore(x) \in Anomalies(shown, job)
               /\ About(shown[x].value, shown[MonthBefore(x)].value)}
  BY DEF ToMark, Recurrent
<1> HIDE DEF R
<1>3. \A x \in DOMAIN docs : x \notin Hidden => x \in DOMAIN shown /\ shown[x] = docs[x]
  BY DEF Hidden
<1>4. DOMAIN docs \subseteq Keys /\ \A x \in DOMAIN docs : docs[x].value \in Nat
  BY CostsAreNat DEF CoreInv, TypesInv, IsDocs, Doc
<1>5. ASSUME NEW x \in DOMAIN docs, x \notin Hidden
      PROVE  docs'[x].value = docs[x].value /\ docs'[x].abnormal = docs[x].abnormal
             /\ docs'[x].begin = docs[x].begin
  BY <1>1, <1>3, <1>5
<1>6. ASSUME NEW x \in DOMAIN docs, x \notin blind'
      PROVE  /\ x \notin blind /\ x \notin Hidden /\ MonthBefore(x) \notin Hidden
             /\ ReallyRecurrent(x)' <=> ReallyRecurrent(x)
  <2>1. x \notin blind /\ x \notin Hidden /\ MonthBefore(x) \notin Hidden
    BY <1>1, <1>6
  <2> QED BY <1>1, <1>5, <2>1, SameRecurrence
<1>7. ASSUME NEW x \in R, x \notin blind' PROVE ReallyRecurrent(x)
  <2> DEFINE y == MonthBefore(x)
  <2>1. x \in DOMAIN docs /\ y \in DOMAIN shown /\ shown[y].abnormal /\ About(shown[x].value, shown[y].value)
    BY <1>1, <1>2 DEF Anomalies
  <2>2. y \in DOMAIN docs /\ y \notin Hidden /\ x \notin Hidden
    BY <1>6, <1>7, <2>1 DEF CoreInv, TypesInv
  <2>3. shown[x] = docs[x] /\ shown[y] = docs[y]
    BY <1>3, <2>1, <2>2
  <2>4. Abs(docs[x].value - docs[y].value) * Unit < docs[x].value * Tolerance
    BY <1>4, <2>1, <2>2, <2>3, AboutIs
  <2> QED BY <2>1, <2>2, <2>3, <2>4 DEF ReallyRecurrent, MonthBefore
<1>8. RecurrentIsReal'
  <2> SUFFICES ASSUME NEW x \in DOMAIN docs, docs'[x].recurrent, x \notin blind'
               PROVE  ReallyRecurrent(x)
    BY <1>1, <1>6 DEF RecurrentIsReal
  <2>1. CASE x \in R
    BY <1>7, <2>1
  <2>2. CASE x \notin R
    BY <1>1, <1>6, <2>2 DEF MarksInv, RecurrentIsReal
  <2> QED BY <2>1, <2>2
<1>9. ASSUME NEW x \in DOMAIN docs, x \notin blind', docs'[x].abnormal, ReallyRecurrent(x), ~ docs'[x].recurrent
      PROVE  At(x[2] - Month, 0) < docs'[x].begin
  <2> DEFINE y == MonthBefore(x)
  <2>1. x \notin R /\ docs'[x] = docs[x] /\ x \notin blind /\ x \notin Hidden /\ y \notin Hidden
    BY <1>1, <1>6, <1>9
  <2>2. CASE MarkOK(x)
    BY <1>9, <2>1, <2>2 DEF MarkOK
  <2>3. CASE Fresh(x) /\ ~ (At(x[2] - Month, 0) < docs[x].begin)
    <3>1. /\ y \in DOMAIN docs /\ docs[y].abnormal
          /\ Abs(docs[x].value - docs[y].value) * Unit < docs[x].value * Tolerance
      BY <1>9 DEF ReallyRecurrent, MonthBefore
    <3>2. About(docs[x].value, docs[y].value)
      BY <1>4, <3>1, AboutIs
    <3>3. /\ x \in DOMAIN shown /\ shown[x] = docs[x]
          /\ y \in DOMAIN shown /\ shown[y] = docs[y]
      BY <1>3, <2>1, <3>1
    <3>4. x[2] \in Nat /\ y[2] = x[2] - Month /\ Month \in Nat /\ job.begin \in Int /\ job.end \in Nat
      BY <1>1, <1>4, KeysAre, Constants DEF MonthBefore, CoreInv, JobInv
    <3>5. job.begin <= At(x[2], 0) /\ At(x[2], 0) <= job.end /\ docs[x].begin = job.begin
      BY <2>3 DEF Fresh
    <3>6. job.begin <= At(y[2], 0) /\ At(y[2], 0) <= job.end
      BY <2>3, <3>4, <3>5 DEF At
    <3> HIDE DEF y
    <3>7. x \in Anomalies(shown, job) /\ y \in Anomalies(shown, job)
      BY <1>9, <2>1, <3>1, <3>3, <3>5, <3>6 DEF Anomalies
    <3>8. x \in R
      BY <1>2, <3>2, <3>3, <3>7 DEF y
    <3> QED BY <2>1, <3>8
  <2>4. CASE Fresh(x) /\ At(x[2] - Month, 0) < docs[x].begin
    BY <2>1, <2>4
  <2> QED BY <2>2, <2>3, <2>4 DEF MarksInv
<1>10. ASSUME NEW x \in DOMAIN docs' PROVE MarkOK(x)'
  BY <1>1, <1>6, <1>9 DEF MarkOK, At
<1> QED BY <1>8, <1>10 DEF MarksInv

LEMMA FailMarks == ASSUME CoreInv, MarksInv, Fail PROVE MarksInv'
<1>1. /\ UNCHANGED docs /\ job' = NoJob /\ job'.pc = "idle"
      /\ blind' = IF job.pc = "recur" THEN DOMAIN docs ELSE blind
  BY DEF Fail, NoJob
<1>2. CASE job.pc = "recur"
  BY <1>1, <1>2 DEF MarksInv, RecurrentIsReal, MarkOK
<1>3. CASE job.pc # "recur"
  BY <1>1, <1>3, SameMarks
<1> QED BY <1>2, <1>3

LEMMA NextMarks == CoreInv /\ MarksInv /\ [Next]_vars => MarksInv'
<1> SUFFICES ASSUME CoreInv, MarksInv, [Next]_vars PROVE MarksInv'
  OBVIOUS
<1>1. CASE Tick
  BY <1>1, SameMarks DEF Tick
<1>2. ASSUME NEW b \in Bills, Ingest(b) PROVE MarksInv'
  BY <1>2, SameMarks DEF Ingest
<1>3. CASE Refresh
  BY <1>3, SameMarks DEF Refresh
<1>4. CASE Start
  <2>1. UNCHANGED <<docs, blind>> /\ job = NoJob /\ job'.pc = "fetch" /\ job.pc = "idle"
    BY <1>4 DEF Start, NoJob
  <2> QED BY <2>1, SameMarks
<1>5. ASSUME NEW order \in Orders, Fetch(order) PROVE MarksInv'
  <2>1. UNCHANGED <<docs, blind>> /\ job.pc = "fetch" /\ job'.pc = "save"
    BY <1>5, FetchIs
  <2> QED BY <2>1, SameMarks
<1>6. ASSUME NEW lost \in SUBSET Products, Save(lost) PROVE MarksInv'
  BY <1>6, SaveMarks
<1>7. CASE Recur
  BY <1>7, RecurMarks
<1>8. CASE Register
  <2>1. UNCHANGED <<docs, blind>> /\ job.pc = "register" /\ job'.pc = "idle"
    BY <1>8 DEF Register, NoJob
  <2> QED BY <2>1, SameMarks
<1>9. CASE Fail
  BY <1>9, FailMarks
<1>10. CASE UNCHANGED vars
  BY <1>10, SameMarks DEF vars
<1> QED BY <1>1, <1>2, <1>3, <1>4, <1>5, <1>6, <1>7, <1>8, <1>9, <1>10 DEF Next

\* Documents have their types; an anomaly is called recurrent if, and only if, one of about the
\* same cost was there a month before, but for searches before a refresh, failures and the
\* dates of a detection: detectRecurrence compares what removeRecurrence finds.
THEOREM MarksHold == Spec => []MarksAreTrue
<1>1. Init => CoreInv /\ MarksInv
  BY InitCore, InitMarks
<1>2. CoreInv /\ MarksInv /\ [Next]_vars => (CoreInv /\ MarksInv)'
  BY NextCore, NextMarks
<1>3. CoreInv /\ MarksInv => MarksAreTrue
  <2> SUFFICES ASSUME CoreInv, MarksInv PROVE MarksAreTrue
    OBVIOUS
  <2>1. MarkHasCause
    BY DEF MarkHasCause, MarksInv, MarkOK, Fresh, NoJob
  <2> QED BY <2>1, CoreTypes DEF MarksInv, MarksAreTrue
<1> QED BY <1>1, <1>2, <1>3, PTL DEF Spec

-----------------------------------------------------------------------------
(* NoneLeftBehind *)

LEMMA InitSettled == Init => SettledInv
BY DEF Init, Empty, SettledInv, NoJob

\* What is told is the same while documents and costs are, and more may be missed.
LEMMA SameSettled ==
    ASSUME UNCHANGED cost, missed \subseteq missed', NEW f, NEW t, SettledIn(f, t)
    PROVE  SettledIn(f, t)'
BY DEF SettledIn, Told, Day

\* A day that a bill leaves unsettled is one that is passed by.
LEMMA IngestSettles ==
    ASSUME TypesInv, NEW b \in Bills, Ingest(b), NEW f, NEW t, SettledIn(f, t),
           b[2] <= Day(t) - Month => PassedBy(b[2])
    PROVE  SettledIn(f, t)'
<1> DEFINE k == <<b[1], b[2]>>
<1>1. /\ \A x \in Keys : x # k => cost'[x[1]][x[2]] = cost[x[1]][x[2]]
      /\ missed' = missed \cup (IF PassedBy(b[2]) THEN {k} ELSE {})
  BY IngestIs
<1>2. ASSUME NEW x \in Keys, x[2] <= Day(t) - Month
      PROVE  Told(f, x) = cost'[x[1]][x[2]] \/ x \in missed'
  <2>1. CASE x = k
    BY <1>1, <1>2, <2>1
  <2>2. CASE x # k
    BY <1>1, <1>2, <2>2 DEF SettledIn
  <2> QED BY <2>1, <2>2
<1> QED BY <1>2 DEF SettledIn, Told, Day

LEMMA IngestSettled == ASSUME CoreInv, SettledInv, NEW b \in Bills, Ingest(b) PROVE SettledInv'
<1> DEFINE d == b[2]
           k == <<b[1], b[2]>>
<1>1. /\ k \in Keys /\ Items \subseteq Items'
      /\ \A x \in Keys : x # k => cost'[x[1]][x[2]] = cost[x[1]][x[2]]
      /\ missed' = missed \cup (IF PassedBy(d) THEN {k} ELSE {})
      /\ UNCHANGED <<now, hour, last, docs, shown, job, faults, blind>>
      /\ TypesInv /\ JobInv /\ DatesInv
  BY IngestIs DEF CoreInv
<1>2. d \in Nat /\ last \in Nat /\ hour \in {0, 1} /\ Month \in Nat /\ Day(last) \in Nat
  BY <1>1, KeysAre, Constants DEF TypesInv, Day
<1> HIDE DEF d
<1>3. job.pc # "idle" => job # NoJob /\ job.end \in Nat /\ job.end # Never /\ Day(job.end) \in Nat
  BY <1>1, ItemsAre DEF JobInv, DatesInv, NoJob, Never, Day
<1>4. ASSUME last # Never PROVE SettledIn(docs, last)'
  <2>1. ASSUME d <= Day(last) - Month PROVE PassedBy(d)
    <3>1. CASE job.pc = "idle"
      BY <1>1, <1>4, <2>1, <3>1 DEF PassedBy, JobInv
    <3>2. CASE job.pc = "fetch"
      <4>1. job.begin = At(Day(last) - Month, 2)
        BY <1>1, <1>4, <3>2 DEF DatesInv
      <4> QED BY <1>2, <2>1, <3>2, <4>1 DEF PassedBy, At
    <3>3. CASE job.pc \notin {"idle", "fetch"}
      <4>1. Day(last) <= Day(job.end) /\ job # NoJob /\ job.end # Never /\ Day(job.end) \in Nat
        BY <1>1, <1>3, <1>4, <3>3 DEF DatesInv
      <4>2. d <= Day(job.end) - Month
        BY <1>2, <2>1, <4>1
      <4> QED BY <3>3, <4>1, <4>2 DEF PassedBy
    <3> QED BY <3>1, <3>2, <3>3
  <2> QED BY <1>1, <1>4, <2>1, IngestSettles DEF SettledInv, d
<1>5. ASSUME job.pc \in {"save", "recur", "register"}, d <= Day(job.end) - Month PROVE PassedBy(d)
  BY <1>3, <1>5 DEF PassedBy
<1>6. ASSUME job.pc = "save" PROVE SettledIn(Replaced(docs, job.data), job.end)'
  <2> DEFINE f == Replaced(docs, job.data)
             e == job.end
  <2>1. SettledIn(f, e) /\ (d <= Day(e) - Month => PassedBy(d))
    BY <1>5, <1>6 DEF SettledInv
  <2>2. f' = f /\ e' = e
    BY <1>1
  <2> HIDE DEF f, e
  <2>3. SettledIn(f, e)'
    BY <1>1, <2>1, <2>2, IngestSettles DEF d
  <2> QED BY <2>2, <2>3 DEF f, e
<1>7. ASSUME job.pc \in {"recur", "register"} PROVE SettledIn(docs, job.end)'
  BY <1>1, <1>5, <1>7, IngestSettles DEF SettledInv, d
<1>8. ASSUME last = Never, NEW x \in DOMAIN docs PROVE \E t \in Items' : t <= At(x[2], 0)
  BY <1>1, <1>8 DEF SettledInv
<1>9. ASSUME job.pc = "fetch", last = Never, NEW x \in Keys, Has(x)', At(x[2], hour) < job.begin
      PROVE  x \in missed'
  <2>1. CASE x = k
    <3>1. At(d, 0) < job.begin
      BY <1>1, <1>2, <1>9, <2>1 DEF At, d, JobInv
    <3> QED BY <1>1, <1>9, <2>1, <3>1 DEF PassedBy
  <2>2. CASE x # k
    BY <1>1, <1>9, <2>2 DEF SettledInv, Has, HasItem
  <2> QED BY <2>1, <2>2
<1>10. job.pc = "fetch" /\ last = Never => \A x \in DOMAIN docs : job.begin <= At(x[2], 0)
  BY DEF SettledInv
<1> QED BY <1>1, <1>4, <1>6, <1>7, <1>8, <1>9, <1>10 DEF SettledInv, At

LEMMA StartSettled == ASSUME CoreInv, SettledInv, Start PROVE SettledInv'
<1> DEFINE r == DateRange(last)
<1>1. /\ UNCHANGED <<now, hour, cost, last, docs, shown, faults, missed, blind>>
      /\ Items # {} /\ job' = [pc |-> "fetch", begin |-> r.begin, end |-> r.end]
  BY DEF Start
<1>2. last = Never => r.begin \in Items /\ \A t \in Items : r.begin <= t
  BY <1>1, DateRangeIs DEF CoreInv
<1> HIDE DEF r
<1>3. job'.pc = "fetch" /\ job'.begin = r.begin
  BY <1>1
<1>4. Items' = Items /\ \A x : Has(x)' <=> Has(x)
  BY <1>1, SameItems
<1>5. /\ \A t \in Items : t \in Nat
      /\ \A x \in Keys : Has(x) => At(x[2], hour) \in Items
  BY ItemsAre DEF CoreInv
<1>6. ASSUME last = Never, NEW x \in DOMAIN docs PROVE r.begin <= At(x[2], 0)
  <2>1. PICK t \in Items : t <= At(x[2], 0)
    BY <1>6 DEF SettledInv
  <2>2. r.begin <= t /\ r.begin \in Nat /\ t \in Nat
    BY <1>2, <1>5, <1>6, <2>1
  <2>3. x[2] \in Nat
    BY <1>6, KeysAre DEF CoreInv, TypesInv, IsDocs
  <2> QED BY <2>1, <2>2, <2>3 DEF At
<1>7. ASSUME last = Never, NEW x \in Keys, Has(x) PROVE ~ (At(x[2], hour) < r.begin)
  <2>1. r.begin <= At(x[2], hour) /\ r.begin \in Nat /\ At(x[2], hour) \in Nat
    BY <1>2, <1>5, <1>7
  <2> QED BY <2>1
<1>8. last # Never => SettledIn(docs, last)'
  BY <1>1, SameSettled DEF SettledInv
<1>9. last = Never => \A x \in DOMAIN docs : \E t \in Items : t <= At(x[2], 0)
  BY DEF SettledInv
<1> QED BY <1>1, <1>3, <1>4, <1>6, <1>7, <1>8, <1>9 DEF SettledInv, At

LEMMA ToldOfReplaced ==
    ASSUME NEW f, NEW g, NEW x
    PROVE  /\ x \in DOMAIN g => Told(Replaced(f, g), x) = g[x].value
           /\ x \notin DOMAIN g => Told(Replaced(f, g), x) = Told(f, x)
<1>1. /\ DOMAIN Replaced(f, g) = DOMAIN f \cup DOMAIN g
      /\ \A y \in DOMAIN g : Replaced(f, g)[y] = g[y]
      /\ \A y \in DOMAIN f : y \notin DOMAIN g => Replaced(f, g)[y] = f[y]
  BY ReplacedAt
<1> QED BY <1>1 DEF Told

\* What is read tells of each day up to the end of the dates what it costs, but for the days that
\* are missed.
LEMMA FetchSettles ==
    ASSUME CoreInv, SettledInv, NEW order, Fetch(order), NEW x \in Keys, x[2] <= Day(job.end)
    PROVE  Told(Replaced(docs, job'.data), x) = cost[x[1]][x[2]] \/ x \in missed'
<1> DEFINE D == AnomaliesData(job, order)
<1>1. /\ job.pc = "fetch" /\ job'.data = D
      /\ missed' = missed \cup {y \in Keys : /\ last = Never /\ Has(y)
                                             /\ y[2] = Day(job.begin)
                                             /\ ~ Kept(y[2], job.begin)}
  BY FetchIs
<1>2. /\ \A y \in DOMAIN D : D[y].value = cost[y[1]][y[2]] /\ job.begin <= At(y[2], 0)
      /\ \A y \in Keys : /\ job.begin <= At(y[2], 0) /\ y[2] <= Day(job.end)
                         /\ y \notin DOMAIN D
                         => ~ Has(y)
  BY <1>1, DataIs
<1> HIDE DEF D
<1>3. /\ x \in DOMAIN D => Told(Replaced(docs, D), x) = D[x].value
      /\ x \notin DOMAIN D => Told(Replaced(docs, D), x) = Told(docs, x)
  BY ToldOfReplaced
<1>4. /\ cost[x[1]][x[2]] \in Nat /\ x[2] \in Nat /\ hour \in {0, 1} /\ job.begin \in Int
      /\ (~ Has(x) => cost[x[1]][x[2]] = 0)
  BY <1>1, KeysAre, CostsAreNat DEF CoreInv, TypesInv, JobInv, Has, HasItem
<1>5. ~ Has(x) => Told(docs, x) = 0
  BY DEF Told, CoreInv, ValuesInv, HaveItems
<1>6. CASE x \in DOMAIN D
  BY <1>1, <1>2, <1>3, <1>6
<1>7. CASE x \notin DOMAIN D /\ job.begin <= At(x[2], 0)
  BY <1>1, <1>2, <1>3, <1>4, <1>5, <1>7
<1>8. CASE ~ (job.begin <= At(x[2], 0)) /\ last # Never
  <2>1. job.begin = At(Day(last) - Month, 2) /\ last \in Nat /\ Month \in Nat
    BY <1>1, <1>8, Constants DEF CoreInv, DatesInv, TypesInv
  <2>2. x[2] <= Day(last) - Month
    BY <1>4, <1>8, <2>1 DEF At, Day
  <2>3. Told(docs, x) = cost[x[1]][x[2]] \/ x \in missed
    BY <1>8, <2>2 DEF SettledInv, SettledIn
  <2>4. x \notin DOMAIN D
    BY <1>2, <1>8
  <2> QED BY <1>1, <1>3, <2>3, <2>4
<1>9. CASE ~ (job.begin <= At(x[2], 0)) /\ last = Never /\ Has(x)
  <2>1. CASE At(x[2], hour) < job.begin
    BY <1>1, <1>9, <2>1 DEF SettledInv
  <2>2. CASE ~ (At(x[2], hour) < job.begin)
    <3>1. x[2] = Day(job.begin) /\ ~ Kept(x[2], job.begin)
      BY <1>4, <1>9, <2>2 DEF At, Day, Kept
    <3> QED BY <1>1, <1>9, <3>1
  <2> QED BY <2>1, <2>2
<1>10. CASE ~ (job.begin <= At(x[2], 0)) /\ ~ Has(x)
  <2>1. x \notin DOMAIN D
    BY <1>2, <1>10
  <2> QED BY <1>1, <1>3, <1>4, <1>5, <1>10, <2>1
<1> QED BY <1>6, <1>7, <1>8, <1>9, <1>10

LEMMA FetchSettled == ASSUME CoreInv, SettledInv, NEW order, Fetch(order) PROVE SettledInv'
<1>1. /\ job.pc = "fetch" /\ job'.pc = "save" /\ job'.end = job.end
      /\ missed \subseteq missed'
      /\ UNCHANGED <<now, hour, cost, last, docs, shown, faults, blind>>
  BY FetchIs
<1>2. last # Never => SettledIn(docs, last)'
  BY <1>1, SameSettled DEF SettledInv
<1>3. ASSUME NEW x \in Keys, x[2] <= Day(job.end) - Month
      PROVE  Told(Replaced(docs, job'.data), x) = cost[x[1]][x[2]] \/ x \in missed'
  <2>1. x[2] \in Nat /\ job.end \in Nat /\ Month \in Nat
    BY <1>1, KeysAre, Constants DEF CoreInv, JobInv
  <2>2. x[2] <= Day(job.end)
    BY <1>3, <2>1 DEF Day
  <2> QED BY <2>2, FetchSettles
<1>4. SettledIn(Replaced(docs, job.data), job.end)'
  BY <1>1, <1>3 DEF SettledIn, Told, Replaced, Day
<1>5. last = Never => \A x \in DOMAIN docs : \E t \in Items : t <= At(x[2], 0)
  BY DEF SettledInv
<1> QED BY <1>1, <1>2, <1>4, <1>5, SameItems DEF SettledInv, At

LEMMA SaveSettled == ASSUME CoreInv, SettledInv, NEW lost, Save(lost) PROVE SettledInv'
<1>1. PICK new : Saves(lost, new)
  BY SaveIs
<1> DEFINE D == DOMAIN new
<1>2. /\ D = {y \in DOMAIN job.data : y[1] \notin lost}
      /\ \A x \in D : new[x] = job.data[x]
      /\ docs' = Replaced(docs, new)
      /\ missed' = (missed \ {x \in D : new[x].value = cost[x[1]][x[2]]})
                       \cup {x \in DOMAIN job.data : x[1] \in lost}
      /\ job.pc = "save" /\ job'.pc = "recur" /\ job'.begin = job.begin /\ job'.end = job.end
      /\ UNCHANGED <<now, hour, cost, last, shown>>
  BY <1>1 DEF Saves
<1>3. \A x : /\ x \in D => Told(docs', x) = job.data[x].value
             /\ x \notin D => Told(docs', x) = Told(docs, x)
  BY <1>2, ToldOfReplaced
<1>4. \A x \in Keys : /\ x \in DOMAIN job.data => Told(Replaced(docs, job.data), x) = job.data[x].value
                      /\ x \notin DOMAIN job.data => Told(Replaced(docs, job.data), x) = Told(docs, x)
  BY ToldOfReplaced
<1>5. /\ job.begin \in Int /\ job.end \in Nat /\ last \in Nat /\ Month \in Nat
      /\ DOMAIN docs \subseteq Keys /\ DOMAIN job.data \subseteq Keys
      /\ \A x \in DOMAIN job.data : job.begin <= At(x[2], 0)
  BY <1>2, Constants DEF CoreInv, TypesInv, JobInv, DataInv, IsDocs
<1>6. DOMAIN docs' = DOMAIN docs \cup D
  <2>1. DOMAIN Replaced(docs, new) = DOMAIN docs \cup DOMAIN new
    BY ReplacedAt
  <2> QED BY <1>2, <2>1
<1> HIDE DEF D
<1>7. ASSUME last # Never, NEW x \in Keys, x[2] <= Day(last) - Month
      PROVE  Told(docs', x) = cost[x[1]][x[2]] \/ x \in missed'
  <2>1. job.begin = At(Day(last) - Month, 2)
    BY <1>2, <1>7 DEF CoreInv, DatesInv
  <2>2. x \notin D
    <3>1. ~ (job.begin <= At(x[2], 0))
      BY <1>5, <1>7, <2>1, KeysAre DEF At, Day
    <3> QED BY <1>2, <1>5, <3>1
  <2>3. Told(docs, x) = cost[x[1]][x[2]] \/ x \in missed
    BY <1>7 DEF SettledInv, SettledIn
  <2> QED BY <1>2, <1>3, <2>2, <2>3
<1>8. ASSUME NEW x \in Keys, x[2] <= Day(job.end) - Month
      PROVE  Told(docs', x) = cost[x[1]][x[2]] \/ x \in missed'
  <2>1. Told(Replaced(docs, job.data), x) = cost[x[1]][x[2]] \/ x \in missed
    BY <1>2, <1>8 DEF SettledInv, SettledIn
  <2>2. CASE x \in D
    <3>1. Told(docs', x) = job.data[x].value /\ x \in DOMAIN job.data /\ new[x] = job.data[x]
      BY <1>2, <1>3, <2>2
    <3>2. job.data[x].value = cost[x[1]][x[2]] \/ x \in missed
      BY <1>4, <2>1, <3>1
    <3> QED BY <1>2, <3>1, <3>2
  <2>3. CASE x \in DOMAIN job.data /\ x \notin D
    BY <1>2, <2>3
  <2>4. CASE x \notin DOMAIN job.data
    <3>1. x \notin D
      BY <1>2, <2>4
    <3> QED BY <1>2, <1>3, <1>4, <2>1, <2>4, <3>1
  <2> QED BY <2>2, <2>3, <2>4
<1>9. ASSUME last = Never, NEW x \in DOMAIN docs' PROVE \E t \in Items : t <= At(x[2], 0)
  <2>1. CASE x \in D
    <3>1. job.begin \in Items /\ job.begin <= At(x[2], 0)
      BY <1>2, <1>5, <1>9, <2>1 DEF CoreInv, DatesInv
    <3> QED BY <3>1
  <2>2. CASE x \notin D
    BY <1>6, <1>9, <2>2 DEF SettledInv
  <2> QED BY <2>1, <2>2
<1>10. last # Never => SettledIn(docs, last)'
  BY <1>2, <1>7 DEF SettledIn, Told, Day
<1>11. SettledIn(docs, job.end)'
  BY <1>2, <1>8 DEF SettledIn, Told, Day
<1> QED BY <1>2, <1>9, <1>10, <1>11, SameItems DEF SettledInv, At

LEMMA RecurSettled == ASSUME CoreInv, SettledInv, Recur PROVE SettledInv'
<1>1. /\ ToMark \subseteq DOMAIN docs /\ DOMAIN docs' = DOMAIN docs
      /\ \A x \in ToMark : docs'[x].value = shown[x].value
      /\ \A x \in DOMAIN docs : x \notin ToMark => docs'[x] = docs[x]
      /\ job.pc = "recur" /\ job'.pc = "register" /\ job'.end = job.end
      /\ missed' = missed \cup (ToMark \cap Hidden)
      /\ UNCHANGED <<now, hour, cost, last, shown, faults>>
  BY RecurIs
<1>2. ASSUME NEW x, x \notin missed' PROVE Told(docs', x) = Told(docs, x)
  <2>1. CASE x \in ToMark
    <3>1. x \notin Hidden /\ x \in DOMAIN docs
      BY <1>1, <1>2, <2>1
    <3>2. shown[x] = docs[x]
      BY <3>1 DEF Hidden
    <3> QED BY <1>1, <2>1, <3>1, <3>2 DEF Told
  <2>2. CASE x \notin ToMark
    BY <1>1, <2>2 DEF Told
  <2> QED BY <2>1, <2>2
<1>3. ASSUME NEW t, SettledIn(docs, t), NEW x \in Keys, x[2] <= Day(t) - Month
      PROVE  Told(docs', x) = cost[x[1]][x[2]] \/ x \in missed'
  BY <1>1, <1>2, <1>3 DEF SettledIn
<1>4. last # Never => SettledIn(docs, last)'
  BY <1>1, <1>3 DEF SettledInv, SettledIn, Told, Day
<1>5. SettledIn(docs, job.end)'
  BY <1>1, <1>3 DEF SettledInv, SettledIn, Told, Day
<1>6. last = Never => \A x \in DOMAIN docs' : \E t \in Items : t <= At(x[2], 0)
  BY <1>1 DEF SettledInv
<1> QED BY <1>1, <1>4, <1>5, <1>6, SameItems DEF SettledInv, At

LEMMA RegisterSettled == ASSUME CoreInv, SettledInv, Register PROVE SettledInv'
<1>1. /\ job.pc = "register" /\ last' = job.end /\ job'.pc = "idle"
      /\ UNCHANGED <<now, hour, cost, docs, shown, faults, missed, blind>>
  BY DEF Register, NoJob
<1>2. last' # Never
  <2>1. PICK t \in Items : t <= job.end
    BY <1>1 DEF CoreInv, DatesInv
  <2>2. t \in Nat /\ t > 0 /\ job.end \in Nat
    BY <1>1, ItemsAre DEF CoreInv, JobInv
  <2> QED BY <1>1, <2>1, <2>2 DEF Never
<1>3. SettledIn(docs, last)'
  BY <1>1 DEF SettledInv, SettledIn, Told, Day
<1> QED BY <1>1, <1>2, <1>3 DEF SettledInv

LEMMA FailSettled == ASSUME SettledInv, Fail PROVE SettledInv'
<1>1. job'.pc = "idle" /\ UNCHANGED <<now, hour, cost, last, docs, shown, missed>>
  BY DEF Fail, NoJob
<1>2. last # Never => SettledIn(docs, last)'
  BY <1>1, SameSettled DEF SettledInv
<1>3. last = Never => \A x \in DOMAIN docs : \E t \in Items : t <= At(x[2], 0)
  BY DEF SettledInv
<1> QED BY <1>1, <1>2, <1>3, SameItems DEF SettledInv, At

LEMMA SameStateSettled ==
    ASSUME SettledInv, UNCHANGED <<hour, cost, last, docs, job, missed>> PROVE SettledInv'
BY SameItems DEF SettledInv, SettledIn, Told, Replaced, Day, At

LEMMA NextSettled == CoreInv /\ SettledInv /\ [Next]_vars => SettledInv'
<1> SUFFICES ASSUME CoreInv, SettledInv, [Next]_vars PROVE SettledInv'
  OBVIOUS
<1>1. CASE Tick
  BY <1>1, SameStateSettled DEF Tick
<1>2. ASSUME NEW b \in Bills, Ingest(b) PROVE SettledInv'
  BY <1>2, IngestSettled
<1>3. CASE Refresh
  BY <1>3, SameStateSettled DEF Refresh
<1>4. CASE Start
  BY <1>4, StartSettled
<1>5. ASSUME NEW order \in Orders, Fetch(order) PROVE SettledInv'
  BY <1>5, FetchSettled
<1>6. ASSUME NEW lost \in SUBSET Products, Save(lost) PROVE SettledInv'
  BY <1>6, SaveSettled
<1>7. CASE Recur
  BY <1>7, RecurSettled
<1>8. CASE Register
  BY <1>8, RegisterSettled
<1>9. CASE Fail
  BY <1>9, FailSettled
<1>10. CASE UNCHANGED vars
  BY <1>10, SameStateSettled DEF vars
<1> QED BY <1>1, <1>2, <1>3, <1>4, <1>5, <1>6, <1>7, <1>8, <1>9, <1>10 DEF Next

\* A step that reads the costs, from a state of the invariants, is Fetch.
LEMMA FetchLeavesNone ==
    ASSUME CoreInv, SettledInv, [Next]_vars, job.pc = "fetch", job'.pc = "save",
           NEW x \in Keys, At(x[2], 0) <= job.end
    PROVE  Told(Replaced(docs, job'.data), x) = cost[x[1]][x[2]] \/ x \in missed'
<1>1. x[2] <= Day(job.end)
  <2>1. x[2] \in Nat /\ job.end \in Nat
    BY KeysAre DEF CoreInv, JobInv
  <2> QED BY <2>1 DEF At, Day
<1>2. ASSUME NEW order \in Orders, Fetch(order)
      PROVE  Told(Replaced(docs, job'.data), x) = cost[x[1]][x[2]] \/ x \in missed'
  BY <1>1, <1>2, FetchSettles
<1>3. ASSUME Tick \/ Refresh \/ (\E b \in Bills : Ingest(b)) \/ UNCHANGED vars PROVE FALSE
  BY <1>3 DEF Tick, Refresh, Ingest, vars
<1>4. ~ Start /\ ~ Recur /\ ~ Register /\ ~ Fail
  BY DEF Start, Recur, Register, Fail, NoJob
<1>5. ~ \E lost \in SUBSET Products : Save(lost)
  BY DEF Save
<1> QED BY <1>2, <1>3, <1>4, <1>5 DEF Next

\* No day is left behind: when a detection has read the costs, what is told of each day up to its
\* end is about to be what the day costs, but for the causes that missed stands for
\* (getDateRange, deleteOffset, productSaveAnomaliesData).
THEOREM NoneLeftBehindHolds == Spec => NoneLeftBehind
<1>1. Init => CoreInv /\ SettledInv
  BY InitCore, InitSettled
<1>2. CoreInv /\ SettledInv /\ [Next]_vars => (CoreInv /\ SettledInv)'
  BY NextCore, NextSettled
<1>3. CoreInv /\ SettledInv /\ [Next]_vars =>
          [job.pc = "fetch" /\ job'.pc = "save" =>
              \A x \in Keys : At(x[2], 0) <= job.end =>
                  Told(Replaced(docs, job'.data), x) = cost[x[1]][x[2]] \/ x \in missed']_vars
  BY FetchLeavesNone
<1> QED BY <1>1, <1>2, <1>3, PTL DEF Spec, NoneLeftBehind

-----------------------------------------------------------------------------
(* VerdictIsStable *)

\* A day within the dates, without a gap and a tie, has a verdict that only its basis decides.
LEMMA AnalysedVerdict ==
    ASSUME CoreInv, job.pc = "fetch", NEW order \in Orders, NEW x \in Keys,
           job.begin <= At(x[2], 0), x[2] <= Day(job.end),
           Plain(Basis(x[2]), x[1])
    PROVE  Analysed(x[1], x[2], job, order).abnormal = Verdict(Basis(x[2]), x[1])
<1> DEFINE p == x[1]
           d == x[2]
           b == Basis(d)
           i == d - FirstBucket(p, job) + 1
           prior == Before(CostsOf(p, job), i)
           c == Bucket(p, d, job)
           earlier == [k \in 1 .. Period |-> b[p][Period + 1 - k]]
<1>1. /\ p \in Products /\ d \in Days /\ d \in Nat /\ d > 0 /\ Dated(job) /\ x = <<p, d>>
      /\ Period \in Nat /\ Period > 0 /\ hour \in {0, 1} /\ job.begin \in Int /\ job.end \in Nat
      /\ cost \in [Products -> [Days -> Costs]]
      /\ At(Day(job.end), hour) <= job.end
  BY KeysAre, JobDated, Constants DEF CoreInv, TypesInv, JobInv, DatesInv
<1>2. \A q \in Products, k \in 0 .. Period : b[q][k] = IF k < d THEN cost[q][d - k] ELSE 0
  BY DEF Basis
<1>3. \A q \in Products : b[q][0] = cost[q][d] /\ b[q][0] \in Nat
  BY <1>1, <1>2, CostsAreNat
<1>4. \A q \in Products : /\ Bucket(q, d, job) = b[q][0]
                          /\ (d \in Found(q, job) <=> b[q][0] # 0)
  <2> SUFFICES ASSUME NEW q \in Products
               PROVE  Bucket(q, d, job) = b[q][0] /\ (d \in Found(q, job) <=> b[q][0] # 0)
    OBVIOUS
  <2> DEFINE z == <<q, d>>
  <2>1. z \in Keys /\ z[1] = q /\ z[2] = d
    BY <1>1 DEF Keys
  <2>2. (z[2] \in Found(z[1], job) <=> Has(z)) /\ Bucket(z[1], z[2], job) = cost[z[1]][z[2]]
    BY <2>1, DayIsFound
  <2>3. Has(z) <=> b[q][0] # 0
    BY <1>3, <2>1 DEF Has, HasItem
  <2> QED BY <1>3, <2>1, <2>2, <2>3
<1>5. c = b[p][0] /\ c \in Nat
  BY <1>1, <1>3, <1>4
<1> HIDE DEF b, c
<1>6. ASSUME NEW k \in 1 .. Period
      PROVE  /\ k < d /\ d - k \in Days /\ b[p][k] = cost[p][d - k]
             /\ d - k \in Found(p, job) /\ Bucket(p, d - k, job) = cost[p][d - k]
  <2>1. b[p][k] # 0 /\ k \in 0 .. Period /\ k \in Nat
    BY <1>1 DEF Plain, b
  <2>2. k < d /\ b[p][k] = cost[p][d - k]
    BY <1>1, <1>2, <2>1
  <2>3. d - k \in Days
    BY <1>1, <2>1, <2>2, Constants DEF Days
  <2>4. cost[p][d - k] \in Nat /\ HasItem(p, d - k)
    BY <1>1, <2>1, <2>2, <2>3, CostsAreNat DEF HasItem
  <2>5. job.begin - 3 * Period <= At(d - k, hour) /\ At(d - k, hour) <= job.end
    BY <1>1, <2>1 DEF At, Day
  <2>6. d - k \in Found(p, job)
    BY <2>3, <2>4, <2>5, FoundIs
  <2> QED BY <1>1, <2>2, <2>3, <2>6, BucketIs
<1>7. d \in Buckets(p, job) /\ i \in Int /\ i > Period
  <2>1. d - Period \in Found(p, job)
    BY <1>1, <1>6
  <2>2. FirstBucket(p, job) \in Int /\ FirstBucket(p, job) <= d - Period
    BY <1>1, <2>1, FirstBucketIs
  <2>3. d \in Buckets(p, job)
    BY <1>1, <2>1, <2>2, BucketsAre
  <2> QED BY <1>1, <2>2, <2>3
<1>8. prior = [k \in 1 .. Period |-> Bucket(p, d - Period + k - 1, job)]
  BY <1>1, <1>7, BeforeIs
<1> HIDE DEF i, prior
<1>9. \A k \in 1 .. Period : Bucket(p, d - Period + k - 1, job) = b[p][Period + 1 - k]
  <2> SUFFICES ASSUME NEW k \in 1 .. Period
               PROVE  Bucket(p, d - Period + k - 1, job) = b[p][Period + 1 - k]
    OBVIOUS
  <2>1. Period + 1 - k \in 1 .. Period /\ d - (Period + 1 - k) = d - Period + k - 1
    BY <1>1
  <2> QED BY <1>6, <2>1
<1>10. prior = earlier
  BY <1>8, <1>9
<1>11. [q \in Products |-> Bucket(q, d, job)] = [q \in Products |-> b[q][0]]
  BY <1>4
<1>12. DailyTotal(d, job) = SumFunction([q \in Products |-> b[q][0]])
  BY <1>11 DEF DailyTotal
<1>13. HighestSpender(p, d, job, order) <=> Cardinality({q \in Products : b[q][0] > c}) < MinRank
  <2> DEFINE Precedes(q) == \/ Bucket(q, d, job) > Bucket(p, d, job)
                            \/ /\ Bucket(q, d, job) = Bucket(p, d, job)
                               /\ order[q] < order[p]
  <2>1. ASSUME NEW q \in Products
        PROVE  d \in Buckets(q, job) /\ Precedes(q) <=> b[q][0] > c
    <3>1. Bucket(q, d, job) = b[q][0] /\ Bucket(p, d, job) = c /\ b[q][0] \in Nat
      BY <1>3, <1>4 DEF c
    <3>2. ASSUME b[q][0] > c PROVE d \in Buckets(q, job)
      <4>1. d \in Found(q, job)
        BY <1>4, <1>5, <3>1, <3>2
      <4> QED BY <1>1, <4>1, FirstBucketIs, BucketsAre
    <3>3. ASSUME b[q][0] = c, order[q] < order[p] PROVE FALSE
      <4>1. q = p
        BY <1>5, <3>3 DEF Plain, b
      <4>2. order[p] \in 1 .. Cardinality(Products)
        BY <1>1 DEF Orders
      <4> QED BY <3>3, <4>1, <4>2
    <3> QED BY <3>1, <3>2, <3>3
  <2>2. {q \in Products : d \in Buckets(q, job) /\ Precedes(q)} = {q \in Products : b[q][0] > c}
    BY <2>1
  <2> QED BY <2>2 DEF HighestSpender
<1>14. i > 1
  BY <1>1, <1>7
<1>15. NoDisturbance(p, d, job, order, prior) <=>
           /\ AtLeast(c * Unit - SumFunction([q \in Products |-> b[q][0]]) * MinPart, Unit, prior)
           /\ c >= MinCost
           /\ Cardinality({q \in Products : b[q][0] > c}) < MinRank
  BY <1>12, <1>13 DEF NoDisturbance, c
<1>16. Analysed(p, d, job, order).abnormal =
           (i > 1 /\ Above(c, 1, prior) /\ NoDisturbance(p, d, job, order, prior))
  BY DEF Analysed, i, prior, c
<1>17. Verdict(b, p) = (/\ Above(c, 1, prior)
                        /\ AtLeast(c * Unit - SumFunction([q \in Products |-> b[q][0]]) * MinPart, Unit, prior)
                        /\ c >= MinCost
                        /\ Cardinality({q \in Products : b[q][0] > c}) < MinRank)
  BY <1>5, <1>10 DEF Verdict
<1> HIDE DEF p, d
<1>18. (i > 1 /\ Above(c, 1, prior) /\ NoDisturbance(p, d, job, order, prior)) =
           (/\ Above(c, 1, prior)
            /\ AtLeast(c * Unit - SumFunction([q \in Products |-> b[q][0]]) * MinPart, Unit, prior)
            /\ c >= MinCost
            /\ Cardinality({q \in Products : b[q][0] > c}) < MinRank)
  BY <1>14, <1>15
<1> QED BY <1>16, <1>17, <1>18 DEF b, p, d

LEMMA InitVerdicts == Init => VerdictsInv
BY DEF Init, Empty, VerdictsInv, VerdictsIn, NoJob

LEMMA FetchVerdicts == ASSUME CoreInv, VerdictsInv, NEW order \in Orders, Fetch(order) PROVE VerdictsInv'
<1> DEFINE D == AnomaliesData(job, order)
<1>1. job.pc = "fetch" /\ job'.data = D /\ UNCHANGED <<docs, shown>>
  BY FetchIs
<1>2. /\ DOMAIN D \subseteq Keys
      /\ \A x \in DOMAIN D : /\ job.begin <= At(x[2], 0) /\ x[2] <= Day(job.end)
                             /\ D[x].basis = Basis(x[2])
                             /\ D[x] = Analysed(x[1], x[2], job, order)
  BY <1>1, DataIs DEF IsDocs
<1> HIDE DEF D
<1>3. VerdictsIn(D)
  BY <1>1, <1>2, AnalysedVerdict DEF VerdictsIn
<1> QED BY <1>1, <1>3 DEF VerdictsInv

LEMMA SaveVerdicts == ASSUME CoreInv, VerdictsInv, NEW lost, Save(lost) PROVE VerdictsInv'
<1>1. PICK new : Saves(lost, new)
  BY SaveIs
<1>2. /\ \A x \in DOMAIN new : x \in DOMAIN job.data /\ new[x] = job.data[x]
      /\ docs' = Replaced(docs, new) /\ shown' = shown
      /\ job.pc = "save" /\ job'.pc = "recur"
  BY <1>1 DEF Saves
<1>3. /\ DOMAIN docs' = DOMAIN docs \cup DOMAIN new
      /\ \A x \in DOMAIN new : docs'[x] = new[x]
      /\ \A x \in DOMAIN docs : x \notin DOMAIN new => docs'[x] = docs[x]
  <2>1. /\ DOMAIN Replaced(docs, new) = DOMAIN docs \cup DOMAIN new
        /\ \A x \in DOMAIN new : Replaced(docs, new)[x] = new[x]
        /\ \A x \in DOMAIN docs : x \notin DOMAIN new => Replaced(docs, new)[x] = docs[x]
    BY ReplacedAt
  <2> QED BY <1>2, <2>1
<1>4. VerdictsIn(job.data) /\ VerdictsIn(docs) /\ VerdictsIn(shown)
  BY <1>2 DEF VerdictsInv
<1>5. ASSUME NEW x \in DOMAIN docs', Plain(docs'[x].basis, x[1])
      PROVE  docs'[x].abnormal = Verdict(docs'[x].basis, x[1])
  <2>1. CASE x \in DOMAIN new
    BY <1>2, <1>3, <1>4, <1>5, <2>1 DEF VerdictsIn
  <2>2. CASE x \notin DOMAIN new
    BY <1>3, <1>4, <1>5, <2>2 DEF VerdictsIn
  <2> QED BY <2>1, <2>2
<1>6. VerdictsIn(docs')
  BY <1>5 DEF VerdictsIn
<1> QED BY <1>2, <1>4, <1>6 DEF VerdictsInv

LEMMA RecurVerdicts == ASSUME CoreInv, VerdictsInv, Recur PROVE VerdictsInv'
<1>1. /\ ToMark \subseteq DOMAIN shown /\ DOMAIN docs' = DOMAIN docs
      /\ \A x \in ToMark : docs'[x].abnormal = shown[x].abnormal /\ docs'[x].basis = shown[x].basis
      /\ \A x \in DOMAIN docs : x \notin ToMark => docs'[x] = docs[x]
      /\ job'.pc = "register" /\ shown' = shown
  BY RecurIs
<1>2. VerdictsIn(docs) /\ VerdictsIn(shown)
  BY DEF VerdictsInv
<1>3. ASSUME NEW x \in DOMAIN docs', Plain(docs'[x].basis, x[1])
      PROVE  docs'[x].abnormal = Verdict(docs'[x].basis, x[1])
  <2>1. CASE x \in ToMark
    BY <1>1, <1>2, <1>3, <2>1 DEF VerdictsIn
  <2>2. CASE x \notin ToMark
    BY <1>1, <1>2, <1>3, <2>2 DEF VerdictsIn
  <2> QED BY <2>1, <2>2
<1>4. VerdictsIn(docs')
  BY <1>3 DEF VerdictsIn
<1> QED BY <1>1, <1>2, <1>4 DEF VerdictsInv

LEMMA SameVerdicts ==
    ASSUME VerdictsInv, UNCHANGED docs, shown' \in {docs, shown},
           job'.pc = "save" => UNCHANGED job
    PROVE  VerdictsInv'
BY DEF VerdictsInv, VerdictsIn

LEMMA NextVerdicts == CoreInv /\ VerdictsInv /\ [Next]_vars => VerdictsInv'
<1> SUFFICES ASSUME CoreInv, VerdictsInv, [Next]_vars PROVE VerdictsInv'
  OBVIOUS
<1>1. CASE Tick
  BY <1>1, SameVerdicts DEF Tick
<1>2. ASSUME NEW b \in Bills, Ingest(b) PROVE VerdictsInv'
  BY <1>2, SameVerdicts DEF Ingest
<1>3. CASE Refresh
  BY <1>3, SameVerdicts DEF Refresh
<1>4. CASE Start
  BY <1>4, SameVerdicts DEF Start
<1>5. ASSUME NEW order \in Orders, Fetch(order) PROVE VerdictsInv'
  BY <1>5, FetchVerdicts
<1>6. ASSUME NEW lost \in SUBSET Products, Save(lost) PROVE VerdictsInv'
  BY <1>6, SaveVerdicts
<1>7. CASE Recur
  BY <1>7, RecurVerdicts
<1>8. CASE Register
  BY <1>8, SameVerdicts DEF Register, NoJob
<1>9. CASE Fail
  BY <1>9, SameVerdicts DEF Fail, NoJob
<1>10. CASE UNCHANGED vars
  BY <1>10, SameVerdicts DEF vars
<1> QED BY <1>1, <1>2, <1>3, <1>4, <1>5, <1>6, <1>7, <1>8, <1>9, <1>10 DEF Next

LEMMA VerdictStep ==
    ASSUME VerdictsInv, VerdictsInv', NEW x \in DOMAIN docs \cap DOMAIN docs',
           docs[x].basis = docs'[x].basis, docs[x].abnormal # docs'[x].abnormal
    PROVE  Gap(x) \/ Tie(x)
<1> DEFINE b == docs[x].basis
<1>1. ASSUME Plain(b, x[1]) PROVE FALSE
  <2>1. docs[x].abnormal = Verdict(b, x[1])
    BY <1>1 DEF VerdictsInv, VerdictsIn
  <2>2. VerdictsIn(docs')
    BY DEF VerdictsInv
  <2>3. docs'[x].abnormal = Verdict(b, x[1])
    BY <1>1, <2>2 DEF VerdictsIn
  <2> QED BY <2>1, <2>3
<1> QED BY <1>1 DEF Plain, Gap, Tie

\* A verdict does not depend on when it is found: of the same costs of the day and of the days
\* before, a later detection says the same, but for gaps and ties (analyseAnomalies,
\* productClearDisturbances, and the days that createQueryTimeRange adds).
THEOREM VerdictIsStableHolds == Spec => VerdictIsStable
<1>1. Init => CoreInv /\ VerdictsInv
  BY InitCore, InitVerdicts
<1>2. CoreInv /\ VerdictsInv /\ [Next]_vars => (CoreInv /\ VerdictsInv)'
  BY NextCore, NextVerdicts
<1>3. VerdictsInv /\ VerdictsInv' =>
          [\A x \in DOMAIN docs \cap DOMAIN docs' :
              docs[x].basis = docs'[x].basis /\ docs[x].abnormal # docs'[x].abnormal =>
                  Gap(x) \/ Tie(x)]_vars
  BY VerdictStep
<1> QED BY <1>1, <1>2, <1>3, PTL DEF Spec, VerdictIsStable

\* Induction over the subsets of a finite set, for a set of subsets.
LEMMA SubsetInduction ==
    ASSUME NEW S, IsFiniteSet(S), NEW P \in SUBSET (SUBSET S), {} \in P,
           \A s \in SUBSET S : s # {} /\ (\A t \in SUBSET s : t # s => t \in P) => s \in P
    PROVE  P = SUBSET S
<1> SUFFICES ASSUME P # SUBSET S PROVE FALSE
  OBVIOUS
<1> DEFINE Sizes == {Cardinality(s) : s \in (SUBSET S) \ P}
<1>1. \A s \in SUBSET S : IsFiniteSet(s) /\ Cardinality(s) \in Nat
  BY FS_Subset, FS_CardinalityType
<1>2. Sizes \in SUBSET Nat /\ Sizes # {}
  BY <1>1
<1>3. PICK n \in Sizes : \A m \in Sizes : n <= m
  <2> HIDE DEF Sizes
  <2> QED BY <1>2, NatMin
<1>4. PICK s \in (SUBSET S) \ P : n = Cardinality(s)
  BY <1>3
<1>5. ASSUME NEW t \in SUBSET s, t # s PROVE t \in P
  <2>1. t \in SUBSET S /\ Cardinality(t) \in Nat /\ Cardinality(s) \in Nat
    BY <1>1
  <2>2. Cardinality(t) < Cardinality(s)
    BY <1>1, <1>5, <2>1, FS_Subset
  <2>3. t \notin P => Cardinality(t) \in Sizes
    BY <2>1
  <2> QED BY <1>3, <1>4, <2>1, <2>2, <2>3
<1> QED BY <1>4, <1>5

\* What a recursive definition takes from a set when it goes through it one by one.
Defines(f, S, base, pick, step) ==
    f = [s \in SUBSET S |-> IF s = {} THEN base ELSE step[<<pick[s], f[s \ {pick[s]}]>>]]

\* Two functions that a recursion over the subsets of S defines are one.
LEMMA Unique ==
    ASSUME NEW S, IsFiniteSet(S), NEW base, NEW pick, NEW step, \A s \in SUBSET S : s # {} => pick[s] \in s,
           NEW T \in SUBSET S, NEW f, NEW g, Defines(f, S, base, pick, step), Defines(g, T, base, pick, step)
    PROVE  \A s \in SUBSET T : g[s] = f[s]
<1> DEFINE Q == {u \in SUBSET T : g[u] = f[u]}
<1>1. IsFiniteSet(T)
  BY FS_Subset
<1>2. {} \in Q
  BY DEF Defines
<1>3. ASSUME NEW u \in SUBSET T, u # {}, \A v \in SUBSET u : v # u => v \in Q PROVE u \in Q
  <2>1. pick[u] \in u
    BY <1>3
  <2>2. u \ {pick[u]} \in Q
    BY <1>3, <2>1
  <2>3. g[u] = step[<<pick[u], g[u \ {pick[u]}]>>]
    BY <1>3 DEF Defines
  <2>4. f[u] = step[<<pick[u], f[u \ {pick[u]}]>>]
    BY <1>3 DEF Defines
  <2> QED BY <2>2, <2>3, <2>4
<1>4. Q = SUBSET T
  <2> HIDE DEF Q
  <2>1. Q \in SUBSET (SUBSET T)
    BY DEF Q
  <2> QED BY <1>1, <1>2, <1>3, <2>1, SubsetInduction
<1> QED BY <1>4

\* A recursive definition that takes one element after the other from a finite set.
LEMMA Recursion ==
    ASSUME NEW S, IsFiniteSet(S), NEW Z, NEW base \in Z,
           NEW pick, \A s \in SUBSET S : s # {} => pick[s] \in s,
           NEW step \in [S \X Z -> Z]
    PROVE  \E f \in [SUBSET S -> Z] : Defines(f, S, base, pick, step)
<1> DEFINE Good(s, f) == f \in [SUBSET s -> Z] /\ Defines(f, s, base, pick, step)
           P == {s \in SUBSET S : \E f : Good(s, f)}
<1>1. {} \in P
  <2> DEFINE f == [t \in SUBSET {} |-> base]
  <2>1. Good({}, f)
    BY DEF Defines
  <2> QED BY <2>1
<1>3. ASSUME NEW s \in SUBSET S, s # {}, \A t \in SUBSET s : t # s => t \in P PROVE s \in P
  <2> DEFINE r == s \ {pick[s]}
  <2>1. pick[s] \in s /\ r \in SUBSET s /\ r # s
    BY <1>3
  <2>2. PICK g : Good(r, g)
    BY <1>3, <2>1
  <2> DEFINE H(t) == CHOOSE h : Good(t, h)
             f == [t \in SUBSET s |-> IF t = {} THEN base ELSE
                      IF t = s THEN step[<<pick[s], g[r]>>] ELSE H(t)[t]]
  <2>3. \A t \in SUBSET s : t # s => Good(t, H(t))
    <3> SUFFICES ASSUME NEW t \in SUBSET s, t # s PROVE Good(t, H(t))
      OBVIOUS
    <3>1. \E h : Good(t, h)
      BY <1>3
    <3> HIDE DEF Good
    <3> QED BY <3>1
  <2>4. \A t \in SUBSET s : t # s => f[t] = H(t)[t]
    <3> SUFFICES ASSUME NEW t \in SUBSET s, t # s PROVE f[t] = H(t)[t]
      OBVIOUS
    <3>1. CASE t = {}
      <4>1. Defines(H(t), t, base, pick, step) /\ f[t] = base /\ t \in SUBSET t
        BY <2>3, <3>1
      <4> HIDE DEF H, f
      <4> QED BY <3>1, <4>1 DEF Defines
    <3>2. CASE t # {}
      BY <3>2
    <3> QED BY <3>1, <3>2
  <2>5. \A t \in SUBSET s : t # s => \A u \in SUBSET t : f[u] = H(t)[u]
    <3> SUFFICES ASSUME NEW t \in SUBSET s, t # s, NEW u \in SUBSET t PROVE f[u] = H(t)[u]
      OBVIOUS
    <3>1. u \in SUBSET s /\ u # s /\ t \in SUBSET S
      OBVIOUS
    <3>2. Good(t, H(t)) /\ Good(u, H(u))
      BY <2>3, <3>1
    <3>3. H(u)[u] = H(t)[u]
      <4>1. u \in SUBSET u /\ u \in SUBSET t /\ IsFiniteSet(t) /\ \A v \in SUBSET t : v # {} => pick[v] \in v
        BY <3>1, FS_Subset
      <4> HIDE DEF H
      <4> QED BY <3>2, <4>1, Unique
    <3> QED BY <2>4, <3>1, <3>3
  <2>6. ASSUME NEW t \in SUBSET s, t # {}
        PROVE  f[t] = step[<<pick[t], f[t \ {pick[t]}]>>]
    <3>1. pick[t] \in t
      BY <2>6
    <3>2. CASE t = s
      <4>1. f[s] = step[<<pick[s], g[r]>>]
        BY <2>6, <3>2
      <4>2. r \in SUBSET S /\ Good(r, H(r))
        <5> HIDE DEF Good, H, r
        <5> QED BY <2>1, <2>3
      <4>3. g[r] = H(r)[r]
        <5>1. r \in SUBSET r /\ IsFiniteSet(r) /\ \A u \in SUBSET r : u # {} => pick[u] \in u
          BY <2>1, FS_Subset
        <5> HIDE DEF H, r
        <5> QED BY <2>2, <4>2, <5>1, Unique
      <4>4. f[r] = H(r)[r]
        BY <2>1, <2>4
      <4> QED BY <3>2, <4>1, <4>3, <4>4
    <3>3. CASE t # s
      <4>1. Good(t, H(t)) /\ t \in SUBSET t /\ t \ {pick[t]} \in SUBSET t
        BY <2>3, <3>3
      <4>2. H(t)[t] = step[<<pick[t], H(t)[t \ {pick[t]}]>>]
        <5> HIDE DEF H
        <5> QED BY <2>6, <4>1 DEF Defines
      <4>3. f[t] = H(t)[t] /\ f[t \ {pick[t]}] = H(t)[t \ {pick[t]}]
        BY <2>5, <3>3, <4>1
      <4> QED BY <4>2, <4>3
    <3> QED BY <3>2, <3>3
  <2>7. f \in [SUBSET s -> Z]
    <3>1. ASSUME NEW t \in SUBSET s PROVE f[t] \in Z
      <4>1. CASE t = s
        <5>1. g[r] \in Z /\ pick[s] \in S
          BY <2>1, <2>2
        <5> QED BY <1>3, <4>1, <5>1
      <4>2. CASE t # s
        <5>1. H(t) \in [SUBSET t -> Z] /\ t \in SUBSET t
          BY <2>3, <4>2
        <5>2. f[t] = H(t)[t]
          BY <2>4, <4>2
        <5> HIDE DEF f, H
        <5> QED BY <5>1, <5>2
      <4> QED BY <4>1, <4>2
    <3> QED BY <3>1
  <2>8. Defines(f, s, base, pick, step)
    <3> DEFINE b(t) == IF t = {} THEN base ELSE step[<<pick[t], f[t \ {pick[t]}]>>]
    <3>1. \A t \in SUBSET s : f[t] = b(t)
      <4>1. f[{}] = base
        OBVIOUS
      <4> HIDE DEF f
      <4> QED BY <2>6, <4>1
    <3> HIDE DEF b
    <3>2. f = [t \in SUBSET s |-> f[t]]
      OBVIOUS
    <3> HIDE DEF f
    <3>3. f = [t \in SUBSET s |-> b(t)]
      BY <3>1, <3>2
    <3> QED BY <3>3 DEF b, Defines
  <2>9. Good(s, f)
    <3> HIDE DEF f
    <3> QED BY <2>7, <2>8
  <2> QED BY <2>9
<1>4. P = SUBSET S
  <2> HIDE DEF P
  <2>1. P \in SUBSET (SUBSET S)
    BY DEF P
  <2> QED BY <1>1, <1>3, <2>1, SubsetInduction
<1>5. S \in P
  BY <1>4
<1> QED BY <1>5

\* Induction up to n.
LEMMA UpTo ==
    ASSUME NEW n \in Nat, NEW P, 0 \in P, \A k \in 1 .. n : k - 1 \in P => k \in P
    PROVE  0 .. n \subseteq P
<1> DEFINE Bad == {k \in 0 .. n : k \notin P}
<1>1. ASSUME Bad # {} PROVE FALSE
  <2>1. PICK k \in Bad : \A j \in Bad : k <= j
    <3>1. Bad \in SUBSET Nat
      OBVIOUS
    <3> HIDE DEF Bad
    <3> QED BY <1>1, <3>1, NatMin
  <2>2. k \in 1 .. n /\ k - 1 \in 0 .. n
    BY <2>1
  <2>3. k - 1 \notin Bad
    BY <2>1, <2>2
  <2> QED BY <2>1, <2>2, <2>3
<1> QED BY <1>1

\* The largest of the first k numbers, and what is left without it.
LEMMA MaxOfPrefix == ASSUME NEW k \in Nat, k # 0 PROVE Max(1 .. k) = k /\ (1 .. k) \ {k} = 1 .. k - 1
<1>1. k \in 1 .. k /\ \A y \in 1 .. k : k >= y
  OBVIOUS
<1>2. \A x \in 1 .. k : (\A y \in 1 .. k : x >= y) => x = k
  BY <1>1
<1>3. Max(1 .. k) \in 1 .. k /\ \A y \in 1 .. k : Max(1 .. k) >= y
  BY <1>1 DEF Max
<1> QED BY <1>2, <1>3

\* Max picks a member of what it is given.
LEMMA MaxIn == ASSUME NEW n \in Nat, NEW s \in SUBSET (1 .. n), s # {} PROVE Max(s) \in s
<1> DEFINE T == {n - x : x \in s}
<1>0. \A x \in s : x \in Int /\ n - x \in Nat
  <2>1. \A x \in s : x \in 1 .. n
    OBVIOUS
  <2> QED BY <2>1
<1>1. T \in SUBSET Nat /\ T # {}
  BY <1>0
<1>2. PICK d \in T : \A e \in T : d <= e
  <2> HIDE DEF T
  <2> QED BY <1>1, NatMin
<1>3. PICK x \in s : d = n - x
  BY <1>2
<1>4. ASSUME NEW y \in s PROVE x >= y
  <2>1. n - y \in T
    OBVIOUS
  <2>2. n - x <= n - y
    BY <1>2, <1>3, <2>1
  <2> QED BY <1>0, <2>2
<1> QED BY <1>4 DEF Max

\* The recursion of FoldLeft.
FoldsLeft(f, n, base, step) ==
    f = [s \in SUBSET (1 .. n) |-> IF s = {} THEN base ELSE step[<<Max(s), f[s \ {Max(s)}]>>]]

\* The recursion of FoldLeft has a solution.
LEMMA LeftRecursion ==
    ASSUME NEW n \in Nat, NEW Z, NEW base \in Z, NEW step \in [(1 .. n) \X Z -> Z]
    PROVE  \E f \in [SUBSET (1 .. n) -> Z] : FoldsLeft(f, n, base, step)
<1> DEFINE pick == [s \in SUBSET (1 .. n) |-> Max(s)]
<1>1. IsFiniteSet(1 .. n)
  BY FS_Interval
<1>2. \A s \in SUBSET (1 .. n) : s # {} => pick[s] \in s
  BY MaxIn
<1>3. PICK f \in [SUBSET (1 .. n) -> Z] : Defines(f, 1 .. n, base, pick, step)
  <2> HIDE DEF pick
  <2> QED BY <1>1, <1>2, Recursion
<1> QED BY <1>3 DEF Defines, FoldsLeft

-----------------------------------------------------------------------------
(* Sums over finite sets *)

\* The recursion of MapThenSumSet.
Sums(k, f, S) ==
    k = [s \in SUBSET S |-> IF s = {} THEN 0
                            ELSE f[CHOOSE x \in s : TRUE] + k[s \ {CHOOSE x \in s : TRUE}]]

TotalOf(f, S) == (CHOOSE k : Sums(k, f, S))[S]

\* The recursion of MapThenSumSet has a solution.
LEMMA SumExists ==
    ASSUME NEW S, IsFiniteSet(S), NEW f, \A x \in S : f[x] \in Int
    PROVE  \E k \in [SUBSET S -> Int] : Sums(k, f, S)
<1> DEFINE pick == [s \in SUBSET S |-> CHOOSE x \in s : TRUE]
           step == [x \in S \X Int |-> f[x[1]] + x[2]]
<1>1. \A s \in SUBSET S : s # {} => pick[s] \in s
  OBVIOUS
<1>2. step \in [S \X Int -> Int]
  OBVIOUS
<1>3. PICK k \in [SUBSET S -> Int] : Defines(k, S, 0, pick, step)
  <2>1. 0 \in Int
    OBVIOUS
  <2> HIDE DEF pick, step
  <2> QED BY <1>1, <1>2, <2>1, Recursion
<1>4. ASSUME NEW s \in SUBSET S, s # {}
      PROVE  step[<<pick[s], k[s \ {pick[s]}]>>] = f[CHOOSE x \in s : TRUE] + k[s \ {CHOOSE x \in s : TRUE}]
  <2>1. pick[s] = (CHOOSE x \in s : TRUE)
    OBVIOUS
  <2>2. pick[s] \in S /\ k[s \ {pick[s]}] \in Int
    BY <1>1, <1>4
  <2>3. step[<<pick[s], k[s \ {pick[s]}]>>] = f[pick[s]] + k[s \ {pick[s]}]
    <3> HIDE DEF pick
    <3> QED BY <2>2
  <2> HIDE DEF step, pick
  <2> QED BY <2>1, <2>3
<1> HIDE DEF step, pick
<1> QED BY <1>3, <1>4 DEF Defines, Sums

\* The solution only depends on the terms: it is that of any smaller set, on its subsets.
LEMMA SumUnique ==
    ASSUME NEW S, IsFiniteSet(S), NEW f, NEW g, NEW T \in SUBSET S, \A x \in T : g[x] = f[x],
           NEW k, NEW h, Sums(k, f, S), Sums(h, g, T)
    PROVE  \A s \in SUBSET T : h[s] = k[s]
<1> DEFINE Q == {u \in SUBSET T : h[u] = k[u]}
<1>1. IsFiniteSet(T)
  BY FS_Subset
<1>2. {} \in Q
  BY DEF Sums
<1>3. ASSUME NEW u \in SUBSET T, u # {}, \A v \in SUBSET u : v # u => v \in Q PROVE u \in Q
  <2> DEFINE x == CHOOSE x \in u : TRUE
  <2>1. x \in u
    BY <1>3
  <2>2. k[u] = f[x] + k[u \ {x}] /\ h[u] = g[x] + h[u \ {x}]
    BY <1>3 DEF Sums
  <2> HIDE DEF x
  <2>3. u \ {x} \in Q
    BY <1>3, <2>1
  <2> QED BY <2>1, <2>2, <2>3
<1>4. Q = SUBSET T
  <2> HIDE DEF Q
  <2>1. Q \in SUBSET (SUBSET T)
    BY DEF Q
  <2> QED BY <1>1, <1>2, <1>3, <2>1, SubsetInduction
<1> QED BY <1>4

\* A total may be read off any solution.
LEMMA TotalIs ==
    ASSUME NEW S, IsFiniteSet(S), NEW f, \A x \in S : f[x] \in Int, NEW k, Sums(k, f, S), NEW T \in SUBSET S
    PROVE  TotalOf(f, T) = k[T]
<1> DEFINE h == CHOOSE h : Sums(h, f, T)
<1>1. IsFiniteSet(T) /\ \A x \in T : f[x] \in Int
  BY FS_Subset
<1>2. \E j : Sums(j, f, T)
  BY <1>1, SumExists
<1>3. Sums(h, f, T)
  BY <1>2
<1>4. TotalOf(f, T) = h[T]
  BY DEF TotalOf
<1> HIDE DEF h
<1> QED BY <1>3, <1>4, SumUnique

\* Nothing adds up to nothing.
LEMMA TotalEmpty == ASSUME NEW f PROVE TotalOf(f, {}) = 0
<1>1. IsFiniteSet({})
  BY FS_EmptySet
<1>2. PICK k : Sums(k, f, {})
  BY <1>1, SumExists
<1>3. TotalOf(f, {}) = k[{}]
  BY <1>1, <1>2, TotalIs
<1> QED BY <1>2, <1>3 DEF Sums

\* A total does not depend on which term is added last.
LEMMA TotalAdd ==
    ASSUME NEW S, IsFiniteSet(S), NEW f, \A x \in S : f[x] \in Int, NEW x \in S
    PROVE  /\ TotalOf(f, S) = f[x] + TotalOf(f, S \ {x})
           /\ TotalOf(f, S) \in Int /\ TotalOf(f, S \ {x}) \in Int
<1>1. PICK k \in [SUBSET S -> Int] : Sums(k, f, S)
  BY SumExists
<1> DEFINE Q == {u \in SUBSET S : \A y \in u : k[u] = f[y] + k[u \ {y}]}
<1>2. {} \in Q
  OBVIOUS
<1>3. ASSUME NEW u \in SUBSET S, u # {}, \A v \in SUBSET u : v # u => v \in Q PROVE u \in Q
  <2> DEFINE c == CHOOSE c \in u : TRUE
  <2>1. c \in u
    BY <1>3
  <2>2. k[u] = f[c] + k[u \ {c}]
    BY <1>1, <1>3 DEF Sums
  <2> HIDE DEF c
  <2> SUFFICES ASSUME NEW y \in u PROVE k[u] = f[y] + k[u \ {y}]
    OBVIOUS
  <2>3. CASE y = c
    BY <2>2, <2>3
  <2>4. CASE y # c
    <3>1. u \ {c} \in Q /\ u \ {y} \in Q
      BY <1>3, <2>1
    <3>2. k[u \ {c}] = f[y] + k[(u \ {c}) \ {y}]
      BY <2>4, <3>1
    <3>3. k[u \ {y}] = f[c] + k[(u \ {y}) \ {c}]
      BY <2>1, <2>4, <3>1
    <3>4. (u \ {c}) \ {y} = (u \ {y}) \ {c} /\ (u \ {y}) \ {c} \in SUBSET S
      OBVIOUS
    <3>5. f[y] \in Int /\ f[c] \in Int /\ k[(u \ {y}) \ {c}] \in Int
      BY <2>1, <3>4
    <3>6. k[(u \ {c}) \ {y}] = k[(u \ {y}) \ {c}]
      BY <3>4
    <3> DEFINE a == k[(u \ {y}) \ {c}]
    <3>7. k[u] = f[c] + (f[y] + a) /\ k[u \ {y}] = f[c] + a
      BY <2>2, <3>2, <3>3, <3>6
    <3>8. a \in Int
      BY <3>5
    <3> HIDE DEF a
    <3> QED BY <3>5, <3>7, <3>8
  <2> QED BY <2>3, <2>4
<1>4. Q = SUBSET S
  <2> HIDE DEF Q
  <2>1. Q \in SUBSET (SUBSET S)
    BY DEF Q
  <2> QED BY <1>2, <1>3, <2>1, SubsetInduction
<1>5. S \in Q
  BY <1>4
<1>6. k[S] = f[x] + k[S \ {x}]
  BY <1>5
<1>7. TotalOf(f, S) = k[S] /\ TotalOf(f, S \ {x}) = k[S \ {x}]
  BY <1>1, TotalIs
<1> QED BY <1>6, <1>7

LEMMA TotalType ==
    ASSUME NEW S, IsFiniteSet(S), NEW f, \A x \in S : f[x] \in Int
    PROVE  TotalOf(f, S) \in Int
<1>1. CASE S = {}
  BY <1>1, TotalEmpty
<1>2. CASE S # {}
  BY <1>2, TotalAdd
<1> QED BY <1>1, <1>2

\* Equal terms have equal totals.
LEMMA TotalSame ==
    ASSUME NEW S, IsFiniteSet(S), NEW f, NEW g, \A x \in S : f[x] \in Int /\ g[x] = f[x]
    PROVE  TotalOf(f, S) = TotalOf(g, S)
<1>1. PICK k : Sums(k, f, S)
  BY SumExists
<1>2. PICK h : Sums(h, g, S)
  BY SumExists
<1>3. TotalOf(f, S) = k[S] /\ TotalOf(g, S) = h[S]
  BY <1>1, <1>2, TotalIs
<1>4. h[S] = k[S]
  BY <1>1, <1>2, SumUnique
<1> QED BY <1>3, <1>4

\* Terms that are not greater have a total that is not.
LEMMA TotalLe ==
    ASSUME NEW S, IsFiniteSet(S), NEW f, NEW g,
           \A x \in S : f[x] \in Int /\ g[x] \in Int /\ f[x] <= g[x]
    PROVE  TotalOf(f, S) <= TotalOf(g, S)
<1> DEFINE Q == {u \in SUBSET S : TotalOf(f, u) <= TotalOf(g, u)}
<1>1. {} \in Q
  BY TotalEmpty
<1>2. ASSUME NEW u \in SUBSET S, u # {}, \A v \in SUBSET u : v # u => v \in Q PROVE u \in Q
  <2>1. PICK x \in u : TRUE
    BY <1>2
  <2>2. IsFiniteSet(u)
    BY FS_Subset
  <2>3. /\ TotalOf(f, u) = f[x] + TotalOf(f, u \ {x}) /\ TotalOf(f, u \ {x}) \in Int
        /\ TotalOf(g, u) = g[x] + TotalOf(g, u \ {x}) /\ TotalOf(g, u \ {x}) \in Int
    BY <2>2, TotalAdd
  <2>4. u \ {x} \in Q /\ x \in S
    BY <1>2
  <2> QED BY <2>3, <2>4
<1>3. Q = SUBSET S
  <2> HIDE DEF Q
  <2>1. Q \in SUBSET (SUBSET S)
    BY DEF Q
  <2> QED BY <1>1, <1>2, <2>1, SubsetInduction
<1> QED BY <1>3

\* The total of a set is that of a part and that of the rest.
LEMMA TotalSplit ==
    ASSUME NEW S, IsFiniteSet(S), NEW f, \A x \in S : f[x] \in Int, NEW A \in SUBSET S
    PROVE  /\ TotalOf(f, S) = TotalOf(f, A) + TotalOf(f, S \ A)
           /\ TotalOf(f, A) \in Int /\ TotalOf(f, S \ A) \in Int
<1> DEFINE Q == {u \in SUBSET A : TotalOf(f, u \cup (S \ A)) = TotalOf(f, u) + TotalOf(f, S \ A)}
<1>1. IsFiniteSet(A) /\ IsFiniteSet(S \ A) /\ \A u \in SUBSET A : IsFiniteSet(u) /\ IsFiniteSet(u \cup (S \ A))
  BY FS_Subset, FS_Union
<1>2. TotalOf(f, A) \in Int /\ TotalOf(f, S \ A) \in Int
  BY <1>1, TotalType
<1>3. {} \in Q
  <2>1. {} \cup (S \ A) = S \ A
    OBVIOUS
  <2> QED BY <1>2, <2>1, TotalEmpty
<1>4. ASSUME NEW u \in SUBSET A, u # {}, \A v \in SUBSET u : v # u => v \in Q PROVE u \in Q
  <2>1. PICK x \in u : TRUE
    BY <1>4
  <2> DEFINE U == u \cup (S \ A)
             r == u \ {x}
  <2>2. U \ {x} = r \cup (S \ A) /\ x \in U /\ U \in SUBSET S
    OBVIOUS
  <2>3. TotalOf(f, U) = f[x] + TotalOf(f, U \ {x}) /\ TotalOf(f, U \ {x}) \in Int
    BY <1>1, <2>2, TotalAdd
  <2>4. TotalOf(f, u) = f[x] + TotalOf(f, r) /\ TotalOf(f, r) \in Int
    BY <1>1, TotalAdd
  <2>5. TotalOf(f, r \cup (S \ A)) = TotalOf(f, r) + TotalOf(f, S \ A) /\ f[x] \in Int
    BY <1>4
  <2> DEFINE a == TotalOf(f, S \ A)
             b == TotalOf(f, r)
  <2>6. TotalOf(f, U) = f[x] + (b + a) /\ TotalOf(f, u) = f[x] + b /\ a \in Int /\ b \in Int
    <3> HIDE DEF r, U
    <3> QED BY <1>2, <2>2, <2>3, <2>4, <2>5
  <2>7. TotalOf(f, U) = TotalOf(f, u) + a
    <3> HIDE DEF a, b, U
    <3> QED BY <2>5, <2>6
  <2> QED BY <2>7
<1>5. Q = SUBSET A
  <2> HIDE DEF Q
  <2>1. Q \in SUBSET (SUBSET A)
    BY DEF Q
  <2> QED BY <1>1, <1>3, <1>4, <2>1, SubsetInduction
<1>6. A \in Q /\ A \cup (S \ A) = S
  BY <1>5
<1> QED BY <1>2, <1>6

LEMMA TotalZero ==
    ASSUME NEW S, IsFiniteSet(S), NEW f, \A x \in S : f[x] = 0
    PROVE  TotalOf(f, S) = 0
<1> DEFINE Q == {u \in SUBSET S : TotalOf(f, u) = 0}
<1>1. {} \in Q
  BY TotalEmpty
<1>2. ASSUME NEW u \in SUBSET S, u # {}, \A v \in SUBSET u : v # u => v \in Q PROVE u \in Q
  <2>1. PICK x \in u : TRUE
    BY <1>2
  <2>2. IsFiniteSet(u)
    BY FS_Subset
  <2>3. TotalOf(f, u) = f[x] + TotalOf(f, u \ {x})
    BY <2>2, TotalAdd
  <2>4. TotalOf(f, u \ {x}) = 0 /\ f[x] = 0
    BY <1>2
  <2> QED BY <2>3, <2>4
<1>3. Q = SUBSET S
  <2> HIDE DEF Q
  <2>1. Q \in SUBSET (SUBSET S)
    BY DEF Q
  <2> QED BY <1>1, <1>2, <2>1, SubsetInduction
<1> QED BY <1>3

LEMMA TotalNat ==
    ASSUME NEW S, IsFiniteSet(S), NEW f, \A x \in S : f[x] \in Nat
    PROVE  TotalOf(f, S) \in Nat
<1> DEFINE zero == [x \in S |-> 0]
<1>1. TotalOf(zero, S) = 0
  <2>1. \A x \in S : zero[x] = 0
    OBVIOUS
  <2> HIDE DEF zero
  <2> QED BY <2>1, TotalZero
<1>2. TotalOf(zero, S) <= TotalOf(f, S)
  <2>1. \A x \in S : zero[x] \in Int /\ f[x] \in Int /\ zero[x] <= f[x]
    OBVIOUS
  <2> HIDE DEF zero
  <2> QED BY <2>1, TotalLe
<1>3. TotalOf(f, S) \in Int
  BY TotalType
<1> QED BY <1>1, <1>2, <1>3

\* A function has finitely many values on a finite set.
LEMMA FiniteImage == ASSUME NEW S, IsFiniteSet(S), NEW b PROVE IsFiniteSet({b[x] : x \in S})
<1> DEFINE T == {b[x] : x \in S}
           f == [x \in S |-> b[x]]
<1>1. f \in Surjection(S, T)
  BY DEF Surjection
<1> QED BY <1>1, FS_Surjection

\* A sum over indices is one over what they stand for.
LEMMA TotalImage ==
    ASSUME NEW S, IsFiniteSet(S), NEW b, \A x, y \in S : b[x] = b[y] => x = y,
           NEW f, NEW g, \A x \in S : f[b[x]] \in Int /\ g[x] = f[b[x]]
    PROVE  TotalOf(g, S) = TotalOf(f, {b[x] : x \in S})
<1> DEFINE Q == {u \in SUBSET S : TotalOf(g, u) = TotalOf(f, {b[x] : x \in u})}
<1>1. {} \in Q
  <2>1. {b[x] : x \in {}} = {}
    OBVIOUS
  <2> QED BY <2>1, TotalEmpty
<1>2. ASSUME NEW u \in SUBSET S, u # {}, \A v \in SUBSET u : v # u => v \in Q PROVE u \in Q
  <2>1. PICK x \in u : TRUE
    BY <1>2
  <2> DEFINE U == {b[y] : y \in u}
             r == u \ {x}
  <2>2. IsFiniteSet(u) /\ \A y \in u : g[y] \in Int
    BY FS_Subset
  <2>3. TotalOf(g, u) = g[x] + TotalOf(g, r)
    BY <2>2, TotalAdd
  <2>4. IsFiniteSet(U)
    BY <2>2, FiniteImage
  <2>5. \A z \in U : f[z] \in Int
    OBVIOUS
  <2>6. U \ {b[x]} = {b[y] : y \in r} /\ b[x] \in U
    OBVIOUS
  <2>7. TotalOf(f, U) = f[b[x]] + TotalOf(f, U \ {b[x]})
    <3> HIDE DEF U
    <3> QED BY <2>4, <2>5, <2>6, TotalAdd
  <2>8. TotalOf(g, r) = TotalOf(f, {b[y] : y \in r})
    BY <1>2
  <2>9. g[x] = f[b[x]]
    OBVIOUS
  <2>10. TotalOf(g, u) = TotalOf(f, U)
    <3> HIDE DEF U, r
    <3> QED BY <2>3, <2>6, <2>7, <2>8, <2>9
  <2> QED BY <2>10
<1>3. Q = SUBSET S
  <2> HIDE DEF Q
  <2>1. Q \in SUBSET (SUBSET S)
    BY DEF Q
  <2> QED BY <1>1, <1>2, <2>1, SubsetInduction
<1> QED BY <1>3

-----------------------------------------------------------------------------
(* What a user may read *)

Ids == {row.identity : row \in ToSet(tables.accounts)}
Row == [identity : Ids, owner : Users]
Indexed == [accounts : SUBSET Ids, indexes : SUBSET Users]

\* The user has added the account.
Owns(u, x) == \E row \in UserAccounts(tables, u) : row.identity = x

\* Each account is there in one index, which a row grants: the user's own, if there is a row.
Sourced(u, ai, f) ==
    /\ f \in [ai.accounts -> Users]
    /\ ai.indexes = {f[x] : x \in ai.accounts}
    /\ \A x \in ai.accounts : Grants(u, x, f[x]) # {} /\ (Owns(u, x) => f[x] = u)

IsSourced(u, ai) == ai \in Indexed /\ \E f : Sourced(u, ai, f)

\* The values and the indices of a sequence.
LEMMA ValuesAre == ASSUME NEW S, NEW s \in Seq(S) PROVE \A i \in DOMAIN s : i \in Nat /\ s[i] \in S
OBVIOUS

\* The rows of the tables.
LEMMA RowsAre ==
    ASSUME tables \in Tables, NEW u \in Users
    PROVE  /\ \A i \in DOMAIN tables.accounts : tables.accounts[i] \in Row
           /\ UserAccounts(tables, u) \subseteq Row
           /\ SharesOf(tables, u) \subseteq Nat
           /\ \A k \in SharesOf(tables, u) :
                  SharedAccounts(tables, u)[k] \in Row /\ SharedAccounts(tables, u)[k] \in ToSet(tables.accounts)
<1>1. tables.accounts \in Seq(Row) /\ tables.shares \in Seq([account : DOMAIN tables.accounts, user : Users])
  BY QueriesAssumption DEF IsTables, Row, Ids
<1>2. \A i \in DOMAIN tables.accounts : tables.accounts[i] \in Row
  BY <1>1, ValuesAre
<1>3. \A k \in DOMAIN tables.shares : k \in Nat /\ tables.shares[k] \in [account : DOMAIN tables.accounts, user : Users]
  BY <1>1, ValuesAre
<1>4. UserAccounts(tables, u) \subseteq Row
  BY <1>2 DEF UserAccounts, ToSet
<1>5. ASSUME NEW k \in SharesOf(tables, u) PROVE k \in Nat /\ SharedAccounts(tables, u)[k] \in Row /\ SharedAccounts(tables, u)[k] \in ToSet(tables.accounts)
  <2>1. SharedAccounts(tables, u)[k] = tables.accounts[tables.shares[k].account] /\ k \in DOMAIN tables.shares
    BY DEF SharedAccounts, SharesOf
  <2>2. tables.shares[k].account \in DOMAIN tables.accounts /\ k \in Nat
    BY <1>3, <2>1
  <2> QED BY <1>2, <2>1, <2>2 DEF ToSet
<1> QED BY <1>2, <1>4, <1>5

\* Which accounts are granted, and in which indexes.
LEMMA GrantsAre ==
    ASSUME tables \in Tables, NEW u \in Users
    PROVE  /\ \A x : Owns(u, x) => Grants(u, x, u) # {}
           /\ \A k \in SharesOf(tables, u) : LET row == SharedAccounts(tables, u)[k] IN Grants(u, row.identity, row.owner) # {}
           /\ \A x, o : Grants(u, x, o) # {} =>
                  \/ o = u /\ Owns(u, x)
                  \/ \E k \in SharesOf(tables, u) : SharedAccounts(tables, u)[k].identity = x
<1>1. ASSUME NEW x, Owns(u, x) PROVE Grants(u, x, u) # {}
  <2>1. PICK i \in DOMAIN tables.accounts : tables.accounts[i].owner = u /\ tables.accounts[i].identity = x
    BY <1>1 DEF Owns, UserAccounts, ToSet
  <2>2. tables.accounts[i] = [identity |-> x, owner |-> u]
    BY <2>1, RowsAre DEF Row
  <2> QED BY <2>2 DEF Grants
<1>2. ASSUME NEW k \in SharesOf(tables, u)
      PROVE  LET row == SharedAccounts(tables, u)[k] IN Grants(u, row.identity, row.owner) # {}
  <2> DEFINE i == tables.shares[k].account
             row == SharedAccounts(tables, u)[k]
  <2>1. tables.shares \in Seq([account : DOMAIN tables.accounts, user : Users])
    BY QueriesAssumption DEF IsTables
  <2>2. k \in DOMAIN tables.shares /\ tables.shares[k].user = u /\ row = tables.accounts[i]
    BY DEF SharesOf, SharedAccounts
  <2>3. i \in DOMAIN tables.accounts /\ tables.shares[k] = [account |-> i, user |-> u]
    <3>1. tables.shares[k] \in [account : DOMAIN tables.accounts, user : Users]
      BY <2>1, <2>2, ValuesAre
    <3> QED BY <2>2, <3>1
  <2>4. row = [identity |-> row.identity, owner |-> row.owner]
    BY RowsAre DEF Row
  <2>5. i \in Grants(u, row.identity, row.owner)
    <3> HIDE DEF row
    <3> QED BY <2>2, <2>3, <2>4 DEF Grants
  <2> QED BY <2>5
<1>3. ASSUME NEW x, NEW o, Grants(u, x, o) # {}
      PROVE  \/ o = u /\ Owns(u, x)
             \/ \E k \in SharesOf(tables, u) : SharedAccounts(tables, u)[k].identity = x
  <2>1. PICK i \in DOMAIN tables.accounts :
            /\ tables.accounts[i] = [identity |-> x, owner |-> o]
            /\ o = u \/ \E k \in DOMAIN tables.shares : tables.shares[k] = [account |-> i, user |-> u]
    BY <1>3 DEF Grants
  <2>2. CASE o = u
    BY <2>1, <2>2 DEF Owns, UserAccounts, ToSet
  <2>3. CASE \E k \in DOMAIN tables.shares : tables.shares[k] = [account |-> i, user |-> u]
    <3>1. PICK k \in DOMAIN tables.shares : tables.shares[k] = [account |-> i, user |-> u]
      BY <2>3
    <3>2. k \in SharesOf(tables, u) /\ tables.shares[k].account = i
      BY <3>1 DEF SharesOf
    <3>3. SharedAccounts(tables, u)[k].identity = x
      BY <2>1, <3>2 DEF SharedAccounts
    <3> QED BY <3>2, <3>3
  <2> QED BY <2>1, <2>2, <2>3
<1> QED BY <1>1, <1>2, <1>3

\* Own rows are added: all of them are in the index of the user.
LEMMA AddOwn ==
    ASSUME tables \in Tables, NEW u \in Users, NEW ai, IsSourced(u, ai), NEW rows \in SUBSET UserAccounts(tables, u)
    PROVE  /\ IsSourced(u, AddAccounts(ai, rows))
           /\ AddAccounts(ai, rows).accounts = ai.accounts \cup {row.identity : row \in rows}
<1> DEFINE X == {row.identity : row \in rows}
           new == AddAccounts(ai, rows)
<1>1. PICK f : Sourced(u, ai, f)
  BY DEF IsSourced
<1> DEFINE g == [x \in ai.accounts \cup X |-> IF x \in X THEN u ELSE f[x]]
<1>2. \A row \in rows : row.owner = u /\ row.identity \in Ids /\ Owns(u, row.identity)
  <2>1. \A row \in rows : row \in Row /\ row.owner = u
    BY RowsAre DEF UserAccounts
  <2> QED BY <2>1 DEF Row, Owns
<1>3. new.accounts = ai.accounts \cup X /\ new.indexes = ai.indexes \cup {row.owner : row \in rows}
  BY DEF AddAccounts
<1>4. {row.owner : row \in rows} = {u : x \in X}
  BY <1>2
<1>5. \A x \in X : x \in Ids /\ Owns(u, x)
  BY <1>2
<1>6. new \in Indexed
  <2>1. ai \in Indexed
    BY DEF IsSourced
  <2>2. new = [accounts |-> ai.accounts \cup X, indexes |-> ai.indexes \cup {u : x \in X}]
    BY <1>3, <1>4 DEF AddAccounts
  <2> HIDE DEF new, X
  <2> QED BY <1>5, <2>1, <2>2 DEF Indexed
<1>7. g \in [new.accounts -> Users]
  BY <1>1, <1>3 DEF Sourced
<1> HIDE DEF new, X
<1>8. new.indexes = {g[x] : x \in new.accounts}
  <2>1. ai.indexes = {f[x] : x \in ai.accounts}
    BY <1>1 DEF Sourced
  <2>2. \A x \in ai.accounts : g[x] = f[x]
    BY <1>1, <1>5 DEF Sourced
  <2>3. \A x \in X : g[x] = u
    OBVIOUS
  <2> HIDE DEF g
  <2> QED BY <1>3, <1>4, <2>1, <2>2, <2>3
<1>9. \A x \in new.accounts : Grants(u, x, g[x]) # {} /\ (Owns(u, x) => g[x] = u)
  <2>1. \A x \in X : Grants(u, x, u) # {} /\ g[x] = u
    BY <1>5, GrantsAre
  <2>2. \A x \in ai.accounts \ X : g[x] = f[x] /\ Grants(u, x, f[x]) # {} /\ (Owns(u, x) => f[x] = u)
    BY <1>1 DEF Sourced
  <2> HIDE DEF g
  <2> QED BY <1>3, <2>1, <2>2
<1>10. Sourced(u, new, g)
  <2> HIDE DEF g
  <2> QED BY <1>7, <1>8, <1>9 DEF Sourced
<1>11. IsSourced(u, new)
  BY <1>6, <1>10 DEF IsSourced
<1> QED BY <1>3, <1>11 DEF new, X

\* Shared rows are added: each account that is not there once, in the index of its first row.
LEMMA AddSharedIs ==
    ASSUME tables \in Tables, NEW u \in Users, NEW ai, IsSourced(u, ai), NEW rows,
           DOMAIN rows \subseteq SharesOf(tables, u), \A k \in DOMAIN rows : rows[k] = SharedAccounts(tables, u)[k],
           \A k \in DOMAIN rows : Owns(u, rows[k].identity) => rows[k].identity \in ai.accounts
    PROVE  /\ IsSourced(u, AddShared(ai, rows))
           /\ AddShared(ai, rows).accounts = ai.accounts \cup {rows[k].identity : k \in DOMAIN rows}
<1> DEFINE K == {k \in DOMAIN rows : ~IsAccountDuplicate(ai, rows, k)}
           X == {rows[k].identity : k \in K}
           new == AddShared(ai, rows)
<1>1. PICK f : Sourced(u, ai, f)
  BY DEF IsSourced
<1> DEFINE first(x) == CHOOSE k \in K : rows[k].identity = x
           g == [x \in ai.accounts \cup X |-> IF x \in ai.accounts THEN f[x] ELSE rows[first(x)].owner]
<1>2. \A k \in DOMAIN rows : /\ k \in Nat /\ rows[k] \in Row
                             /\ Grants(u, rows[k].identity, rows[k].owner) # {}
  BY RowsAre, GrantsAre
<1>3. new.accounts = ai.accounts \cup X /\ new.indexes = ai.indexes \cup {rows[k].owner : k \in K}
  <2>1. new = [accounts |-> ai.accounts \cup {row.identity : row \in {rows[k] : k \in K}},
               indexes  |-> ai.indexes \cup {row.owner : row \in {rows[k] : k \in K}}]
    BY DEF AddShared, AddAccounts
  <2>2. {row.identity : row \in {rows[k] : k \in K}} = X /\ {row.owner : row \in {rows[k] : k \in K}} = {rows[k].owner : k \in K}
    OBVIOUS
  <2> HIDE DEF new, K, X
  <2> QED BY <2>1, <2>2
<1>4. \A j, k \in K : rows[j].identity = rows[k].identity => j = k
  BY <1>2 DEF IsAccountDuplicate
<1>5. \A k \in K : rows[k].identity \notin ai.accounts
  BY DEF IsAccountDuplicate
<1>6. \A k \in K : first(rows[k].identity) = k
  <2>1. \A k \in K : first(rows[k].identity) \in K /\ rows[first(rows[k].identity)].identity = rows[k].identity
    OBVIOUS
  <2> HIDE DEF first, K
  <2> QED BY <1>4, <2>1
<1>7. \A k \in K : g[rows[k].identity] = rows[k].owner
  <2>1. \A k \in K : rows[k].identity \in ai.accounts \cup X /\ rows[k].identity \notin ai.accounts
    BY <1>5
  <2> HIDE DEF first, K, X
  <2> QED BY <1>6, <2>1
<1>8. \A x \in ai.accounts : g[x] = f[x]
  OBVIOUS
<1>9. \A x \in X : \E k \in K : x = rows[k].identity
  OBVIOUS
<1>10. new \in Indexed
  <2>1. ai \in Indexed
    BY DEF IsSourced
  <2>2. X \subseteq Ids /\ {rows[k].owner : k \in K} \subseteq Users
    BY <1>2 DEF Row
  <2>3. new = [accounts |-> new.accounts, indexes |-> new.indexes]
    BY DEF AddShared, AddAccounts
  <2> HIDE DEF new, X, K
  <2> QED BY <1>3, <2>1, <2>2, <2>3 DEF Indexed
<1>11. ASSUME NEW k \in DOMAIN rows PROVE rows[k].identity \in new.accounts
  <2> DEFINE J == {j \in DOMAIN rows : rows[j].identity = rows[k].identity}
  <2>1. J \in SUBSET Nat /\ J # {}
    BY <1>2
  <2>2. PICK j \in J : \A i \in J : j <= i
    <3> HIDE DEF J
    <3> QED BY <2>1, NatMin
  <2>3. \A i \in J : ~(i < j)
    BY <2>1, <2>2
  <2>4. rows[j].identity \in ai.accounts \/ j \in K
    BY <2>2, <2>3 DEF IsAccountDuplicate
  <2>5. rows[j].identity = rows[k].identity
    BY <2>2
  <2>6. j \in K => rows[j].identity \in X
    OBVIOUS
  <2> HIDE DEF K, X, new
  <2> QED BY <1>3, <2>4, <2>5, <2>6
<1>12. new.accounts = ai.accounts \cup {rows[k].identity : k \in DOMAIN rows}
  <2>1. X \subseteq {rows[k].identity : k \in DOMAIN rows}
    OBVIOUS
  <2> HIDE DEF new, X
  <2> QED BY <1>3, <1>11, <2>1
<1>13. \A k \in K : k \in DOMAIN rows
  OBVIOUS
<1> HIDE DEF g, first, K, new
<1>14. g \in [new.accounts -> Users]
  <2>1. \A x \in new.accounts : g[x] \in Users
    <3>1. \A x \in ai.accounts : f[x] \in Users
      BY <1>1 DEF Sourced
    <3>2. \A k \in K : rows[k].owner \in Users
      BY <1>2, <1>13 DEF Row
    <3> HIDE DEF X
    <3> QED BY <1>3, <1>7, <1>8, <1>9, <3>1, <3>2
  <2>2. g = [x \in new.accounts |-> g[x]]
    BY <1>3 DEF g
  <2> QED BY <2>1, <2>2
<1>15. new.indexes = {g[x] : x \in new.accounts}
  <2>1. ai.indexes = {f[x] : x \in ai.accounts}
    BY <1>1 DEF Sourced
  <2>2. {rows[k].owner : k \in K} = {g[x] : x \in X}
    BY <1>7
  <2> HIDE DEF X
  <2> QED BY <1>3, <1>8, <2>1, <2>2
<1>16. \A x \in new.accounts : Grants(u, x, g[x]) # {} /\ (Owns(u, x) => g[x] = u)
  <2>1. ASSUME NEW x \in X PROVE Grants(u, x, g[x]) # {} /\ ~Owns(u, x)
    <3>1. PICK k \in K : x = rows[k].identity
      BY <1>9
    <3> QED BY <1>2, <1>5, <1>7, <1>13, <3>1
  <2>2. \A x \in ai.accounts : g[x] = f[x] /\ Grants(u, x, f[x]) # {} /\ (Owns(u, x) => f[x] = u)
    BY <1>1, <1>8 DEF Sourced
  <2> QED BY <1>3, <2>1, <2>2
<1>17. IsSourced(u, new)
  BY <1>10, <1>14, <1>15, <1>16 DEF Sourced, IsSourced
<1> QED BY <1>12, <1>17 DEF new

\* Nothing has been found yet.
LEMMA NothingSourced == ASSUME NEW u \in Users PROVE IsSourced(u, Nothing) /\ Nothing.accounts = {}
<1> DEFINE f == [x \in {} |-> u]
<1>1. Sourced(u, Nothing, f)
  BY DEF Sourced, Nothing
<1>2. Nothing \in Indexed
  BY DEF Nothing, Indexed
<1> QED BY <1>1, <1>2 DEF IsSourced, Nothing

\* Without a list all accounts of the user are there.
LEMMA AllAre ==
    ASSUME tables \in Tables, NEW u \in Users
    PROVE  LET all == AllAccountsAndIndexes(tables, u)
           IN IsSourced(u, all) /\ \A x : x \in all.accounts <=> \E o : Grants(u, x, o) # {}
<1> DEFINE mine == AddAccounts(Nothing, UserAccounts(tables, u))
           rows == SharedAccounts(tables, u)
           all  == AllAccountsAndIndexes(tables, u)
<1>1. IsSourced(u, mine) /\ mine.accounts = {row.identity : row \in UserAccounts(tables, u)}
  <2>1. UserAccounts(tables, u) \in SUBSET UserAccounts(tables, u)
    OBVIOUS
  <2> QED BY <2>1, NothingSourced, AddOwn
<1>2. \A x : x \in mine.accounts <=> Owns(u, x)
  BY <1>1 DEF Owns
<1>3. DOMAIN rows = SharesOf(tables, u)
  BY DEF SharedAccounts
<1> HIDE DEF mine, rows
<1>4. IsSourced(u, AddShared(mine, rows)) /\ AddShared(mine, rows).accounts = mine.accounts \cup {rows[k].identity : k \in DOMAIN rows}
  <2>1. DOMAIN rows \subseteq SharesOf(tables, u) /\ \A k \in DOMAIN rows : rows[k] = SharedAccounts(tables, u)[k]
    BY <1>3 DEF rows
  <2>2. \A k \in DOMAIN rows : Owns(u, rows[k].identity) => rows[k].identity \in mine.accounts
    BY <1>2
  <2> QED BY <1>1, <2>1, <2>2, AddSharedIs
<1>5. AddShared(mine, rows) = all
  BY DEF mine, rows, AllAccountsAndIndexes
<1>6. ASSUME NEW x PROVE x \in all.accounts <=> \E o : Grants(u, x, o) # {}
  <2>1. x \in all.accounts <=> Owns(u, x) \/ \E k \in DOMAIN rows : rows[k].identity = x
    BY <1>2, <1>4, <1>5
  <2>2. (\E k \in DOMAIN rows : rows[k].identity = x) => \E o : Grants(u, x, o) # {}
    BY <1>3, GrantsAre DEF rows
  <2>3. Owns(u, x) => \E o : Grants(u, x, o) # {}
    BY GrantsAre
  <2>4. (\E o : Grants(u, x, o) # {}) => Owns(u, x) \/ \E k \in DOMAIN rows : rows[k].identity = x
    BY <1>3, GrantsAre DEF rows
  <2> QED BY <2>1, <2>2, <2>3, <2>4
<1> QED BY <1>4, <1>5, <1>6

\* One account of a list is added.
LEMMA MatchIs ==
    ASSUME tables \in Tables, NEW u \in Users, NEW ai, IsSourced(u, ai),
           NEW x \in AllAccountsAndIndexes(tables, u).accounts
    PROVE  LET new == Match(tables, u, ai, x) IN IsSourced(u, new) /\ new.accounts = ai.accounts \cup {x}
<1> DEFINE own == {row \in UserAccounts(tables, u) : row.identity = x}
           K == {k \in SharesOf(tables, u) : SharedAccounts(tables, u)[k].identity = x}
           rows == [k \in K |-> SharedAccounts(tables, u)[k]]
           new == Match(tables, u, ai, x)
<1>1. new = IF own # {} THEN AddAccounts(ai, own) ELSE AddShared(ai, rows)
  <2>1. DOMAIN SharedAccounts(tables, u) = SharesOf(tables, u)
    BY DEF SharedAccounts
  <2>2. RestrictValues(SharedAccounts(tables, u), LAMBDA row: row.identity = x) = rows
    BY <2>1 DEF RestrictValues, Restrict
  <2> HIDE DEF rows
  <2> QED BY <2>2 DEF Match
<1>2. CASE own # {}
  <2>1. own \in SUBSET UserAccounts(tables, u) /\ {row.identity : row \in own} = {x}
    BY <1>2
  <2> HIDE DEF own, rows
  <2>2. IsSourced(u, AddAccounts(ai, own)) /\ AddAccounts(ai, own).accounts = ai.accounts \cup {row.identity : row \in own}
    BY <2>1, AddOwn
  <2> QED BY <1>1, <1>2, <2>1, <2>2
<1>3. CASE own = {}
  <2>1. ~Owns(u, x)
    BY <1>3 DEF Owns
  <2>2. K # {}
    BY <2>1, AllAre, GrantsAre
  <2>3. \A k \in K : rows[k] = SharedAccounts(tables, u)[k] /\ rows[k].identity = x /\ k \in SharesOf(tables, u)
    OBVIOUS
  <2>4. DOMAIN rows = K
    OBVIOUS
  <2> HIDE DEF own, rows, K
  <2>5. IsSourced(u, AddShared(ai, rows)) /\ AddShared(ai, rows).accounts = ai.accounts \cup {rows[k].identity : k \in DOMAIN rows}
    BY <2>1, <2>3, <2>4, AddSharedIs
  <2>6. {rows[k].identity : k \in DOMAIN rows} = {x}
    BY <2>2, <2>3, <2>4
  <2> QED BY <1>1, <1>3, <2>5, <2>6
<1> HIDE DEF own
<1> QED BY <1>2, <1>3

Matched(u, base, list) == FoldLeft(LAMBDA ai, x: Match(tables, u, ai, x), base, list)

\* The accounts of a list are added one after the other.
LEMMA MatchedOneByOne ==
    ASSUME tables \in Tables, NEW u \in Users, NEW list \in Seq(AllAccountsAndIndexes(tables, u).accounts)
    PROVE  \E F : /\ F[0] = Nothing
                  /\ \A k \in 1 .. Len(list) : F[k] = Match(tables, u, F[k - 1], list[k])
                  /\ Matched(u, Nothing, list) = F[Len(list)]
<1> DEFINE n == Len(list)
           Z == {ai \in Indexed : IsSourced(u, ai)}
           step == [x \in (1 .. n) \X Z |-> Match(tables, u, x[2], list[x[1]])]
           Body(k) == [s \in SUBSET (1 .. n) |-> IF s = {} THEN Nothing ELSE Match(tables, u, k[s \ {Max(s)}], list[Max(s)])]
           K == CHOOSE k : k = Body(k)
           F == [k \in 0 .. n |-> K[1 .. k]]
<1>1. n \in Nat /\ DOMAIN list = 1 .. n /\ \A k \in 1 .. n : list[k] \in AllAccountsAndIndexes(tables, u).accounts
  OBVIOUS
<1>2. step \in [(1 .. n) \X Z -> Z]
  <2>1. ASSUME NEW k \in 1 .. n, NEW ai \in Z PROVE Match(tables, u, ai, list[k]) \in Z
    <3>1. IsSourced(u, Match(tables, u, ai, list[k]))
      BY <1>1, MatchIs
    <3> QED BY <3>1 DEF IsSourced
  <2> HIDE DEF Z, n
  <2> QED BY <2>1
<1>3. Nothing \in Z
  BY NothingSourced DEF IsSourced
<1>4. PICK h \in [SUBSET (1 .. n) -> Z] : FoldsLeft(h, n, Nothing, step)
  <2> HIDE DEF step, n, Z
  <2> QED BY <1>1, <1>2, <1>3, LeftRecursion
<1>5. h = Body(h)
  <2>1. ASSUME NEW s \in SUBSET (1 .. n), s # {}
        PROVE  step[<<Max(s), h[s \ {Max(s)}]>>] = Match(tables, u, h[s \ {Max(s)}], list[Max(s)])
    <3>1. Max(s) \in 1 .. n /\ h[s \ {Max(s)}] \in Z
      BY <1>1, <2>1, MaxIn
    <3> HIDE DEF Z
    <3> QED BY <3>1
  <2> HIDE DEF step
  <2> QED BY <1>4, <2>1 DEF FoldsLeft
<1>6. K = Body(K)
  <2> HIDE DEF Body
  <2> QED BY <1>5
<1>7. Matched(u, Nothing, list) = K[DOMAIN list]
  BY <1>1 DEF Matched, FoldLeft, MapThenFoldSet
<1>8. F[0] = Nothing /\ \A k \in 1 .. n : F[k] = Match(tables, u, F[k - 1], list[k])
  <2>1. ASSUME NEW k \in 0 .. n PROVE F[k] = K[1 .. k] /\ (1 .. k) \in SUBSET (1 .. n)
    BY <1>1
  <2>2. 1 .. 0 = {}
    OBVIOUS
  <2>3. ASSUME NEW k \in 1 .. n PROVE F[k] = Match(tables, u, F[k - 1], list[k])
    <3>1. k \in Nat /\ k # 0 /\ k \in 0 .. n /\ k - 1 \in 0 .. n /\ 1 .. k # {}
      BY <1>1
    <3>2. K[1 .. k] = Match(tables, u, K[(1 .. k) \ {Max(1 .. k)}], list[Max(1 .. k)])
      <4> HIDE DEF K
      <4> QED BY <1>6, <2>1, <3>1
    <3> HIDE DEF K, F
    <3> QED BY <2>1, <3>1, <3>2, MaxOfPrefix
  <2>4. F[0] = Nothing
    <3> HIDE DEF K
    <3> QED BY <1>1, <1>6, <2>2
  <2> QED BY <2>3, <2>4
<1>9. F[n] = K[DOMAIN list]
  BY <1>1
<1> HIDE DEF F, K
<1> QED BY <1>7, <1>8, <1>9

\* What a list gives: its accounts, each in one index.
LEMMA MatchedAre ==
    ASSUME tables \in Tables, NEW u \in Users, NEW list \in Seq(AllAccountsAndIndexes(tables, u).accounts)
    PROVE  LET ai == Matched(u, Nothing, list) IN IsSourced(u, ai) /\ ai.accounts = ToSet(list)
<1> DEFINE n == Len(list)
<1>1. PICK F : /\ F[0] = Nothing
               /\ \A k \in 1 .. n : F[k] = Match(tables, u, F[k - 1], list[k])
               /\ Matched(u, Nothing, list) = F[n]
  BY MatchedOneByOne
<1>2. n \in Nat /\ DOMAIN list = 1 .. n /\ \A k \in 1 .. n : list[k] \in AllAccountsAndIndexes(tables, u).accounts
  OBVIOUS
<1> DEFINE P == {k \in 0 .. n : IsSourced(u, F[k]) /\ F[k].accounts = {list[j] : j \in 1 .. k}}
<1> HIDE DEF n
<1>3. 0 \in P
  <2>1. {list[j] : j \in 1 .. 0} = {}
    OBVIOUS
  <2> QED BY <1>1, <1>2, <2>1, NothingSourced
<1>4. ASSUME NEW k \in 1 .. n, k - 1 \in P PROVE k \in P
  <2>1. IsSourced(u, F[k - 1]) /\ F[k - 1].accounts = {list[j] : j \in 1 .. k - 1}
    BY <1>4
  <2>2. IsSourced(u, F[k]) /\ F[k].accounts = F[k - 1].accounts \cup {list[k]}
    <3>1. F[k] = Match(tables, u, F[k - 1], list[k]) /\ list[k] \in AllAccountsAndIndexes(tables, u).accounts
      BY <1>1, <1>2
    <3>2. ASSUME NEW ai, IsSourced(u, ai), NEW x \in AllAccountsAndIndexes(tables, u).accounts
          PROVE  /\ IsSourced(u, Match(tables, u, ai, x))
                 /\ Match(tables, u, ai, x).accounts = ai.accounts \cup {x}
      BY <3>2, MatchIs
    <3> DEFINE a == F[k - 1]
               y == list[k]
    <3>3. F[k] = Match(tables, u, a, y) /\ IsSourced(u, a) /\ y \in AllAccountsAndIndexes(tables, u).accounts
      BY <2>1, <3>1
    <3> HIDE DEF a, y
    <3>4. IsSourced(u, Match(tables, u, a, y)) /\ Match(tables, u, a, y).accounts = a.accounts \cup {y}
      BY <3>2, <3>3
    <3>5. IsSourced(u, F[k]) /\ F[k].accounts = a.accounts \cup {y}
      BY <3>3, <3>4
    <3> QED BY <3>5 DEF a, y
  <2>3. {list[j] : j \in 1 .. k} = {list[j] : j \in 1 .. k - 1} \cup {list[k]}
    <3>1. 1 .. k = (1 .. k - 1) \cup {k}
      BY <1>2
    <3> QED BY <3>1
  <2> QED BY <1>2, <2>1, <2>2, <2>3
<1>5. 0 .. n \subseteq P
  <2> HIDE DEF P
  <2> QED BY <1>2, <1>3, <1>4, UpTo
<1>6. n \in P
  BY <1>2, <1>5
<1> QED BY <1>1, <1>2, <1>6 DEF ToSet

\* An answer that is no error is sourced, and has the accounts that were asked for.
LEMMA AccountsAndIndexesAre ==
    ASSUME tables \in Tables, NEW u \in Users, NEW S, NEW list \in Seq(S),
           AccountsAndIndexes(tables, u, list) # Refused
    PROVE  LET ai  == AccountsAndIndexes(tables, u, list)
               all == AllAccountsAndIndexes(tables, u)
           IN /\ IsSourced(u, ai) /\ ai.indexes # {}
              /\ ai.accounts = IF list = <<>> THEN all.accounts ELSE ToSet(list)
              /\ ai.accounts \subseteq all.accounts
<1> DEFINE ai == AccountsAndIndexes(tables, u, list)
           all == AllAccountsAndIndexes(tables, u)
<1>1. CASE list = <<>>
  <2>1. ai = all /\ ai.indexes # {}
    BY <1>1 DEF AccountsAndIndexes
  <2>2. IsSourced(u, all)
    BY AllAre
  <2> HIDE DEF ai, all
  <2> QED BY <1>1, <2>1, <2>2 DEF ai, all
<1>2. CASE list # <<>>
  <2>1. ToSet(list) \subseteq all.accounts /\ ai = Matched(u, Nothing, list)
    BY <1>2 DEF AccountsAndIndexes, Matched
  <2>2. list \in Seq(all.accounts)
    <3>1. \A i \in 1 .. Len(list) : list[i] \in all.accounts
      BY <2>1 DEF ToSet
    <3> HIDE DEF all
    <3> QED BY <3>1
  <2>3. IsSourced(u, ai) /\ ai.accounts = ToSet(list)
    BY <2>1, <2>2, MatchedAre
  <2>4. list[1] \in ToSet(list)
    BY <1>2 DEF ToSet
  <2>5. ai.indexes # {}
    <3> HIDE DEF ai
    <3>1. PICK f : Sourced(u, ai, f)
      BY <2>3 DEF IsSourced
    <3>2. f[list[1]] \in ai.indexes
      BY <2>3, <2>4, <3>1 DEF Sourced
    <3> QED BY <3>2
  <2> HIDE DEF ai, all
  <2> QED BY <1>2, <2>1, <2>3, <2>5 DEF ai, all
<1> QED BY <1>1, <1>2

LEMMA ListsAre == ASSUME NEW S, NEW list \in Lists(S) PROVE list \in Seq(S)
<1>1. /\ <<>> \in Seq(S)
      /\ \A x, y \in S : <<x>> \in Seq(S) /\ <<x, y>> \in Seq(S)
  OBVIOUS
<1>2. list = <<>> \/ (\E x \in S : list = <<x>>) \/ \E x, y \in S : list = <<x, y>>
  BY DEF Lists
<1> QED BY <1>1, <1>2

\* What a user may read follows from the tables, whatever is asked for.
AccessOfAll == \A u \in Users :
    CountedOnce(u) /\ \A S : \A list \in Seq(S) : AccessIsGranted(u, list)

LEMMA AccessFollows == tables \in Tables => AccessOfAll /\ AccessIsExact
<1> SUFFICES ASSUME tables \in Tables PROVE AccessOfAll /\ AccessIsExact
  OBVIOUS
<1>1. ASSUME NEW u \in Users, NEW S, NEW list \in Seq(S) PROVE AccessIsGranted(u, list)
  <2> DEFINE ai  == AccountsAndIndexes(tables, u, list)
             all == AllAccountsAndIndexes(tables, u)
  <2>1. SUFFICES ASSUME ai # Refused
                 PROVE  /\ ai.indexes # {}
                        /\ \A x \in ai.accounts : \E o \in ai.indexes : Grants(u, x, o) # {}
                        /\ \A o \in ai.indexes : \E x \in ai.accounts : Grants(u, x, o) # {}
                        /\ ai.accounts \subseteq all.accounts
    BY DEF AccessIsGranted
  <2>2. IsSourced(u, ai) /\ ai.indexes # {} /\ ai.accounts \subseteq all.accounts
    BY <2>1, AccountsAndIndexesAre
  <2> HIDE DEF ai, all
  <2>3. PICK f : Sourced(u, ai, f)
    BY <2>2 DEF IsSourced
  <2> QED BY <2>2, <2>3 DEF Sourced
<1>2. ASSUME NEW u \in Users PROVE CountedOnce(u)
  <2> DEFINE all == AllAccountsAndIndexes(tables, u)
  <2>1. PICK f : Sourced(u, all, f)
    BY AllAre DEF IsSourced
  <2>2. SUFFICES ASSUME NEW x \in all.accounts, NEW o \in all.indexes, NEW p \in all.indexes, o # p
                 PROVE  \E y \in all.accounts \ {x}, i \in {o, p} : Grants(u, y, i) # {}
    BY DEF CountedOnce
  <2> HIDE DEF all
  <2>3. PICK y \in all.accounts, z \in all.accounts : f[y] = o /\ f[z] = p
    BY <2>1 DEF Sourced
  <2>4. Grants(u, y, o) # {} /\ Grants(u, z, p) # {} /\ (y # x \/ z # x)
    BY <2>1, <2>2, <2>3 DEF Sourced
  <2> QED BY <2>3, <2>4
<1>3. AccessOfAll
  BY <1>1, <1>2, Zenon DEF AccessOfAll
<1>4. ASSUME NEW u \in Users, NEW list \in Lists(AllAccountsAndIndexes(tables, u).accounts)
      PROVE  AccessIsGranted(u, list)
  <2>1. list \in Seq(AllAccountsAndIndexes(tables, u).accounts)
    BY ListsAre
  <2> QED BY <1>1, <2>1, Zenon
<1> QED BY <1>2, <1>3, <1>4, Zenon DEF AccessIsExact

-----------------------------------------------------------------------------
(* The levels of anomalies *)

Square(s) == [i \in DOMAIN s |-> s[i] * s[i]]

\* The sum and the sum of the squares of a sequence.
LEMMA TotalsAre ==
    ASSUME NEW s \in Seq(Nat)
    PROVE  /\ Total(s) = TotalOf(s, DOMAIN s) /\ Squares(s) = TotalOf(Square(s), DOMAIN s)
           /\ IsFiniteSet(DOMAIN s) /\ Cardinality(DOMAIN s) = Len(s)
           /\ \A i \in DOMAIN s : s[i] \in Nat /\ Square(s)[i] \in Nat /\ Square(s)[i] = s[i] * s[i]
<1> DEFINE D == DOMAIN s
           q == Square(s)
<1>1. IsFiniteSet(D) /\ Cardinality(D) = Len(s)
  <2>1. D = 1 .. Len(s) /\ Len(s) \in Nat
    OBVIOUS
  <2> HIDE DEF D
  <2> DEFINE n == Len(s)
  <2>2. n \in Int /\ 1 \in Int /\ n >= 0
    BY <2>1
  <2> HIDE DEF n
  <2>3. IsFiniteSet(1 .. n) /\ Cardinality(1 .. n) = IF 1 > n THEN 0 ELSE n - 1 + 1
    BY <2>2, FS_Interval, Zenon
  <2>4. Cardinality(1 .. n) = n
    BY <2>2, <2>3
  <2> QED BY <2>1, <2>3, <2>4 DEF n
<1>2. \A i \in D : s[i] \in Nat /\ q[i] \in Nat /\ q[i] = s[i] * s[i]
  <2>1. \A i \in D : s[i] \in Nat
    BY ValuesAre
  <2>2. \A n \in Nat : n * n \in Nat
    OBVIOUS
  <2> QED BY <2>1, <2>2 DEF Square
<1>3. Total(s) = TotalOf(s, D)
  <2> DEFINE Body(k) == [S \in SUBSET D |-> IF S = {} THEN 0
                            ELSE s[CHOOSE x \in S : TRUE] + k[S \ {CHOOSE x \in S : TRUE}]]
             K == CHOOSE k : k = Body(k)
  <2>1. PICK k : Sums(k, s, D)
    <3>1. \A i \in D : s[i] \in Int
      BY <1>2
    <3> HIDE DEF D
    <3> QED BY <1>1, <3>1, SumExists
  <2>2. k = Body(k)
    BY <2>1 DEF Sums
  <2>3. K = Body(K)
    <3> HIDE DEF Body
    <3> QED BY <2>2
  <2>4. Sums(K, s, D)
    <3> HIDE DEF K
    <3> QED BY <2>3 DEF Sums
  <2>5. TotalOf(s, D) = K[D]
    <3> HIDE DEF K
    <3> QED BY <1>1, <1>2, <2>4, TotalIs
  <2>6. Total(s) = K[D]
    BY DEF Total, FoldSeq, FoldFunction, FoldFunctionOnSet, MapThenFoldSet
  <2> QED BY <2>5, <2>6
<1>4. Squares(s) = TotalOf(q, D)
  <2> DEFINE Body(k) == [S \in SUBSET D |-> IF S = {} THEN 0
                            ELSE s[CHOOSE x \in S : TRUE] * s[CHOOSE x \in S : TRUE] + k[S \ {CHOOSE x \in S : TRUE}]]
             K == CHOOSE k : k = Body(k)
  <2>1. PICK k : Sums(k, q, D)
    <3>1. \A i \in D : q[i] \in Int
      BY <1>2
    <3> HIDE DEF D, q
    <3> QED BY <1>1, <3>1, SumExists
  <2>2. \A h : Body(h) = [S \in SUBSET D |-> IF S = {} THEN 0
                            ELSE q[CHOOSE x \in S : TRUE] + h[S \ {CHOOSE x \in S : TRUE}]]
    <3>1. \A S \in SUBSET D : S # {} => q[CHOOSE x \in S : TRUE] = s[CHOOSE x \in S : TRUE] * s[CHOOSE x \in S : TRUE]
      <4> SUFFICES ASSUME NEW S \in SUBSET D, S # {}
                   PROVE  q[CHOOSE x \in S : TRUE] = s[CHOOSE x \in S : TRUE] * s[CHOOSE x \in S : TRUE]
        OBVIOUS
      <4>1. (CHOOSE x \in S : TRUE) \in D
        OBVIOUS
      <4> HIDE DEF q, D
      <4> QED BY <1>2, <4>1
    <3> SUFFICES ASSUME NEW h
                 PROVE  Body(h) = [S \in SUBSET D |-> IF S = {} THEN 0
                            ELSE q[CHOOSE x \in S : TRUE] + h[S \ {CHOOSE x \in S : TRUE}]]
      OBVIOUS
    <3> DEFINE b(S) == IF S = {} THEN 0 ELSE s[CHOOSE x \in S : TRUE] * s[CHOOSE x \in S : TRUE] + h[S \ {CHOOSE x \in S : TRUE}]
               c(S) == IF S = {} THEN 0 ELSE q[CHOOSE x \in S : TRUE] + h[S \ {CHOOSE x \in S : TRUE}]
    <3>2. \A S \in SUBSET D : b(S) = c(S)
      <4> HIDE DEF q, D
      <4> QED BY <3>1
    <3>3. [S \in SUBSET D |-> b(S)] = [S \in SUBSET D |-> c(S)]
      <4> HIDE DEF b, c, D
      <4> QED BY <3>2
    <3> QED BY <3>3
  <2>3. k = Body(k)
    <3> HIDE DEF Body
    <3> QED BY <2>1, <2>2 DEF Sums
  <2>4. K = Body(K)
    <3> HIDE DEF Body
    <3> QED BY <2>3
  <2>5. Sums(K, q, D)
    <3> HIDE DEF K, Body
    <3> QED BY <2>2, <2>4 DEF Sums
  <2>6. TotalOf(q, D) = K[D]
    <3>1. \A i \in D : q[i] \in Int
      BY <1>2
    <3> HIDE DEF K, D, q
    <3> QED BY <1>1, <2>5, <3>1, TotalIs
  <2>7. Squares(s) = K[D]
    BY DEF Squares, FoldSeq, FoldFunction, FoldFunctionOnSet, MapThenFoldSet
  <2> QED BY <2>6, <2>7
<1> QED BY <1>1, <1>2, <1>3, <1>4

LEMMA SquareIsNat == ASSUME NEW x \in Int PROVE x * x \in Nat
<1>1. x >= 0 \/ -x >= 0
  OBVIOUS
<1>2. x >= 0 => x * x >= 0
  OBVIOUS
<1>3. -x >= 0 => (-x) * (-x) >= 0
  OBVIOUS
<1>4. (-x) * (-x) = x * x
  OBVIOUS
<1> QED BY <1>1, <1>2, <1>3, <1>4

\* The square of the distance from the average, one more term.
LEMMA OneMoreTerm ==
    ASSUME NEW n \in Int, NEW t \in Int, NEW a \in Int, NEW q \in Int, NEW b \in Int, NEW m \in Int
    PROVE  n * n * (a * a + q) - 2 * n * t * (a + b) + (1 + m) * t * t
               = (n * n * q - 2 * n * t * b + m * t * t) + (n * a - t) * (n * a - t)
OBVIOUS

LEMMA Distribute ==
    ASSUME NEW n \in Int, NEW q \in Int, NEW t \in Int
    PROVE  n * (n * q - t * t) = n * n * q - 2 * n * t * t + n * t * t
<1>1. n * (n * q - t * t) = n * (n * q) - n * (t * t)
  OBVIOUS
<1>2. n * (n * q) = n * n * q /\ n * (t * t) = n * t * t /\ 2 * n * t * t = 2 * (n * t * t)
  OBVIOUS
<1>3. n * n * q \in Int /\ n * t * t \in Int
  OBVIOUS
<1> QED BY <1>1, <1>2, <1>3

\* The variance of a sequence is not negative.
LEMMA SigmaIsNat == ASSUME NEW s \in Seq(Nat) PROVE Sigma(s) \in Nat /\ Total(s) \in Nat
<1> DEFINE D == DOMAIN s
           n == Len(s)
           t == Total(s)
           q == Square(s)
           W(u) == n * n * TotalOf(q, u) - 2 * n * t * TotalOf(s, u) + Cardinality(u) * t * t
           P == {u \in SUBSET D : W(u) >= 0}
<1>1. n \in Nat /\ t \in Nat /\ IsFiniteSet(D) /\ n = Cardinality(D) /\ Squares(s) \in Nat
  BY TotalsAre, TotalNat
<1>2. \A i \in D : s[i] \in Int /\ q[i] \in Int /\ q[i] = s[i] * s[i]
  BY TotalsAre
<1> HIDE DEF n, t, q, D
<1>3. {} \in P
  <2>1. TotalOf(q, {}) = 0 /\ TotalOf(s, {}) = 0 /\ Cardinality({}) = 0
    BY TotalEmpty, FS_EmptySet
  <2>2. W({}) = 0
    BY <1>1, <2>1
  <2> QED BY <2>2
<1>4. ASSUME NEW u \in SUBSET D, u # {}, \A v \in SUBSET u : v # u => v \in P PROVE u \in P
  <2>1. PICK x \in u : TRUE
    BY <1>4
  <2> DEFINE r == u \ {x}
             A == TotalOf(q, r)
             B == TotalOf(s, r)
             m == Cardinality(r)
  <2>2. IsFiniteSet(u) /\ \A i \in u : s[i] \in Int /\ q[i] \in Int
    BY <1>1, <1>2, FS_Subset
  <2>3. TotalOf(q, u) = q[x] + A /\ TotalOf(s, u) = s[x] + B /\ A \in Int /\ B \in Int
    BY <2>2, TotalAdd
  <2>4. Cardinality(u) = 1 + m /\ m \in Int
    <3>1. IsFiniteSet(r) /\ x \notin r /\ r \cup {x} = u
      BY <2>2, FS_Subset
    <3> HIDE DEF r
    <3>2. Cardinality(r \cup {x}) = Cardinality(r) + 1 /\ Cardinality(r) \in Nat
      BY <3>1, FS_AddElement, FS_CardinalityType
    <3>3. Cardinality(u) = m + 1 /\ m \in Nat
      BY <3>1, <3>2
    <3> HIDE DEF m
    <3> QED BY <3>3
  <2>5. W(r) >= 0
    BY <1>4
  <2>6. s[x] \in Int /\ q[x] = s[x] * s[x]
    BY <1>2
  <2> DEFINE a == s[x]
             w == n * n * A - 2 * n * t * B + m * t * t
  <2>7. W(u) = n * n * (a * a + A) - 2 * n * t * (a + B) + (1 + m) * t * t
    BY <2>3, <2>4, <2>6
  <2>8. W(u) = w + (n * a - t) * (n * a - t)
    <3>1. a \in Int /\ n \in Int /\ t \in Int
      BY <1>1, <2>6
    <3> HIDE DEF W, A, B, m, a
    <3>2. n * n * (a * a + A) - 2 * n * t * (a + B) + (1 + m) * t * t
              = (n * n * A - 2 * n * t * B + m * t * t) + (n * a - t) * (n * a - t)
      BY <2>3, <2>4, <3>1, OneMoreTerm
    <3> QED BY <2>7, <3>2
  <2>9. w >= 0 /\ w \in Int
    <3>1. w = W(r)
      OBVIOUS
    <3>2. w \in Int
      <4> HIDE DEF A, B, m
      <4>1. n \in Int /\ t \in Int
        BY <1>1
      <4>2. n * n * A \in Int /\ 2 * n * t * B \in Int /\ m * t * t \in Int
        BY <2>3, <2>4, <4>1
      <4> QED BY <4>2
    <3> HIDE DEF w, W
    <3> QED BY <2>5, <3>1, <3>2
  <2>10. (n * a - t) * (n * a - t) \in Nat
    <3>1. n * a - t \in Int
      BY <1>1, <2>6
    <3> HIDE DEF a
    <3> QED BY <3>1, SquareIsNat
  <2>11. W(u) >= 0
    <3> HIDE DEF W, w, a
    <3> QED BY <2>8, <2>9, <2>10
  <2> QED BY <2>11
<1>5. P = SUBSET D
  <2> HIDE DEF P
  <2>1. P \in SUBSET (SUBSET D)
    BY DEF P
  <2> QED BY <1>1, <1>3, <1>4, <2>1, SubsetInduction
<1>6. W(D) >= 0
  BY <1>5
<1>7. TotalOf(q, D) = Squares(s) /\ TotalOf(s, D) = t
  BY TotalsAre DEF q, D, t
<1> DEFINE Q == Squares(s)
<1>8. n * n * Q - 2 * n * t * t + n * t * t >= 0
  <2> HIDE DEF Q
  <2> QED BY <1>1, <1>6, <1>7 DEF Q
<1>9. Sigma(s) = n * Q - t * t
  BY DEF Sigma, n, t
<1>10. n * (n * Q - t * t) >= 0
  <2>1. n * (n * Q - t * t) = n * n * Q - 2 * n * t * t + n * t * t
    <3>1. Q \in Int /\ n \in Int /\ t \in Int
      BY <1>1
    <3> HIDE DEF Q
    <3> QED BY <3>1, Distribute
  <2> HIDE DEF Q
  <2> QED BY <1>8, <2>1
<1>11. CASE n = 0
  <2>1. D = {}
    BY <1>1, <1>11, FS_EmptySet
  <2>2. t = 0
    BY <1>7, <2>1, TotalEmpty
  <2> HIDE DEF Q
  <2> QED BY <1>1, <1>9, <1>11, <2>2 DEF t, Q
<1>12. CASE n # 0
  <2> DEFINE y == n * Q - t * t
  <2>1. y \in Int
    <3> HIDE DEF Q
    <3> QED BY <1>1 DEF Q
  <2>2. n * y >= 0
    BY <1>10
  <2> HIDE DEF y
  <2>3. y >= 0
    BY <1>1, <1>12, <2>1, <2>2
  <2> QED BY <1>1, <1>9, <2>1, <2>3 DEF y, t
<1> QED BY <1>11, <1>12

\* The documents that a search finds are of products and days, with values.
ShownIs ==
    \A x \in DOMAIN shown :
        /\ x \in Keys /\ shown[x].value \in Nat /\ shown[x].maxExpected \in Seq(Nat)
        /\ shown[x].abnormal \in BOOLEAN /\ shown[x].recurrent \in BOOLEAN

LEMMA ProductIsNat == ASSUME NEW x \in Nat, NEW y \in Nat PROVE x * y \in Nat
OBVIOUS

LEMMA ProductLe == ASSUME NEW x \in Nat, NEW y \in Nat, NEW z \in Nat, x <= y PROVE x * z <= y * z
<1>1. (y - x) * z >= 0
  BY ProductIsNat
<1>2. (y - x) * z = y * z - x * z
  OBVIOUS
<1>3. x * z \in Nat /\ y * z \in Nat
  BY ProductIsNat
<1> QED BY <1>1, <1>2, <1>3

LEMMA SquareLe == ASSUME NEW x \in Nat, NEW y \in Nat, x <= y PROVE x * x <= y * y
<1>1. x * x <= y * x /\ y * x <= y * y
  <2>1. x * x <= y * x
    BY ProductLe
  <2>2. x * y <= y * y
    BY ProductLe
  <2>3. x * y = y * x
    OBVIOUS
  <2> QED BY <2>1, <2>2, <2>3
<1>2. x * x \in Nat /\ y * x \in Nat /\ y * y \in Nat
  BY ProductIsNat
<1> QED BY <1>1, <1>2

\* A cost that reaches a part of a band reaches each smaller part.
LEMMA LessIsReached ==
    ASSUME NEW a \in Nat, NEW b \in Nat, NEW c \in Nat, b <= c, NEW s \in Seq(Nat), AtLeast(a, c, s)
    PROVE  AtLeast(a, b, s)
<1> DEFINE n == Len(s)
           t == Total(s)
           g(x) == a * Unit * n - x * t * Upper
           e(x) == x * Unit * Deviation
<1>1. n \in Nat /\ t \in Nat /\ Sigma(s) \in Nat /\ Unit \in Nat /\ Upper \in Nat /\ Deviation \in Nat
  BY SigmaIsNat, AnomaliesAssumption
<1>2. g(c) >= 0 /\ g(c) * g(c) * n >= e(c) * e(c) * Sigma(s)
  BY DEF AtLeast
<1>3. AtLeast(a, b, s) <=> g(b) >= 0 /\ g(b) * g(b) * n >= e(b) * e(b) * Sigma(s)
  BY DEF AtLeast
<1> HIDE DEF n, t
<1>4. \A x \in Nat : g(x) \in Int /\ e(x) \in Nat
  <2>1. \A x \in Nat : a * Unit * n \in Nat /\ x * t * Upper \in Nat /\ x * Unit * Deviation \in Nat
    BY <1>1, ProductIsNat
  <2>2. ASSUME NEW x \in Nat PROVE g(x) \in Int /\ e(x) \in Nat
    <3>1. a * Unit * n \in Nat /\ x * t * Upper \in Nat /\ e(x) \in Nat
      BY <2>1
    <3> QED BY <3>1
  <2> HIDE DEF g, e
  <2> QED BY <2>2
<1>5. g(c) <= g(b)
  <2>1. b * t <= c * t /\ b * t \in Nat /\ c * t \in Nat
    BY <1>1, ProductLe, ProductIsNat
  <2>2. b * t * Upper <= c * t * Upper
    BY <1>1, <2>1, ProductLe
  <2>3. b * t * Upper \in Nat /\ c * t * Upper \in Nat /\ a * Unit * n \in Nat
    BY <1>1, <2>1, ProductIsNat
  <2> QED BY <2>2, <2>3
<1>6. e(b) <= e(c)
  <2>1. b * Unit <= c * Unit /\ b * Unit \in Nat /\ c * Unit \in Nat
    BY <1>1, ProductLe, ProductIsNat
  <2> QED BY <1>1, <2>1, ProductLe
<1> DEFINE gb == g(b)
           gc == g(c)
           eb == e(b)
           ec == e(c)
<1>7. gb \in Nat /\ gc \in Nat /\ eb \in Nat /\ ec \in Nat /\ gc <= gb /\ eb <= ec
  BY <1>2, <1>4, <1>5, <1>6
<1>8. gc * gc * n >= ec * ec * Sigma(s)
  BY <1>2
<1> HIDE DEF g, e
<1> HIDE DEF gb, gc, eb, ec
<1>9. gc * gc <= gb * gb /\ eb * eb <= ec * ec /\ gb * gb \in Nat /\ gc * gc \in Nat /\ eb * eb \in Nat /\ ec * ec \in Nat
  BY <1>7, SquareLe, ProductIsNat
<1>10. gc * gc * n <= gb * gb * n /\ eb * eb * Sigma(s) <= ec * ec * Sigma(s)
  BY <1>1, <1>9, ProductLe
<1>11. /\ gc * gc * n \in Nat /\ gb * gb * n \in Nat
       /\ eb * eb * Sigma(s) \in Nat /\ ec * ec * Sigma(s) \in Nat
  BY <1>1, <1>9, ProductIsNat
<1>12. gb * gb * n >= eb * eb * Sigma(s)
  BY <1>8, <1>10, <1>11
<1> QED BY <1>3, <1>7, <1>12 DEF gb, eb

\* The level is the highest that is reached.
LEMMA LevelIsHighest ==
    ASSUME NEW doc, doc.value \in Nat, doc.maxExpected \in Seq(Nat)
    PROVE  LevelOf(doc) \in Nat /\ LevelIs(LevelOf(doc), doc)
<1> DEFINE n == Len(Levels)
           R(i) == AtLeast(doc.value * Unit, Levels[i + 1], doc.maxExpected)
           B == {i \in 1 .. n - 1 : ~ R(i)} \cup {n}
           m == Min(B)
<1>1. n \in Nat /\ n > 0 /\ \A i \in 1 .. n : Levels[i] \in Nat
  BY QueriesAssumption
<1>2. \A i, j \in 1 .. n : i <= j => Levels[i] <= Levels[j]
  <2>1. DOMAIN Levels = 1 .. n
    BY QueriesAssumption
  <2> QED BY <2>1, QueriesAssumption
<1>3. LevelOf(doc) = m - 1
  BY DEF LevelOf
<1>4. m \in B /\ (\A i \in B : m <= i) /\ m \in 1 .. n
  <2>1. B \in SUBSET Int /\ B # {} /\ (\A i \in B : 1 <= i) /\ B \subseteq 1 .. n
    <3> HIDE DEF R, n
    <3> QED BY <1>1
  <2>2. 1 \in Int
    OBVIOUS
  <2> HIDE DEF B
  <2>3. m \in B /\ \A i \in B : m <= i
    BY <2>1, <2>2, MinIs
  <2> QED BY <2>1, <2>3
<1> HIDE DEF m
<1>5. m = 1 \/ R(m - 1)
  <2> SUFFICES ASSUME m # 1 PROVE R(m - 1)
    OBVIOUS
  <2>1. m - 1 \in 1 .. n - 1 /\ ~ (m <= m - 1)
    BY <1>1, <1>4
  <2> HIDE DEF R, n
  <2> QED BY <1>4, <2>1
<1>6. ASSUME NEW j \in m .. n - 1 PROVE ~ R(j)
  <2>1. m # n /\ m \in 1 .. n /\ j \in 1 .. n - 1 /\ m + 1 \in 1 .. n /\ j + 1 \in 1 .. n /\ m + 1 <= j + 1
    BY <1>1, <1>4
  <2>2. ~ R(m)
    <3> HIDE DEF R
    <3> QED BY <1>4, <2>1
  <2>3. Levels[m + 1] \in Nat /\ Levels[j + 1] \in Nat /\ Levels[m + 1] <= Levels[j + 1]
    BY <1>1, <1>2, <2>1
  <2>4. doc.value * Unit \in Nat
    BY ProductIsNat, AnomaliesAssumption
  <2> QED BY <2>2, <2>3, <2>4, LessIsReached
<1>7. ReachesLevel(m - 1, doc)
  <2>1. m = 1 => m - 1 = 0
    OBVIOUS
  <2> QED BY <1>5, <2>1 DEF ReachesLevel
<1>8. ASSUME NEW j \in (m - 1) + 1 .. n - 1 PROVE ~ ReachesLevel(j, doc)
  <2>1. j \in m .. n - 1 /\ j # 0
    BY <1>1, <1>4
  <2>2. ~ R(j)
    BY <1>6, <2>1
  <2> QED BY <2>1, <2>2 DEF ReachesLevel
<1>9. LevelIs(m - 1, doc)
  BY <1>7, <1>8 DEF LevelIs
<1>10. m - 1 \in Nat
  BY <1>1, <1>4
<1> QED BY <1>3, <1>9, <1>10

\* A filter hides what it should.
LEMMA FilterHides ==
    ASSUME NEW f \in Filters, Valid(f), NEW x \in Keys, NEW doc, doc.abnormal = TRUE
    PROVE  \/ Apply({f}, x, doc) <=> ~ f.disabled /\ Hides(f, x, doc, LevelOf(doc))
           \/ Weekday(x[2]) = 0 /\ f.rule = "week_day"
<1>1. Apply({f}, x, doc) <=> ~ f.disabled /\ Applies(f, x, doc)
  BY DEF Apply
<1>2. f.rule \in Rules
  BY QueriesAssumption
<1>3. CASE f.rule = "week_day"
  <2>1. f.data \subseteq 0 .. 6
    BY <1>3 DEF Valid, ValidArray
  <2>2. Weekday(x[2]) \in 0 .. 6
    <3>1. x[2] \in Nat /\ FirstWeekday \in Nat
      BY QueriesAssumption, AnomaliesAssumption DEF Keys, Days
    <3> QED BY <3>1 DEF Weekday
  <2> DEFINE w == Weekday(x[2])
  <2>3. w # 0 => (w - 1 \notin f.data <=> \A n \in f.data : (w - Monday - n) % 7 # 0)
    <3> SUFFICES ASSUME w # 0 PROVE \A n \in f.data : w - 1 = n <=> (w - Monday - n) % 7 = 0
      OBVIOUS
    <3> TAKE n \in f.data
    <3>1. n \in 0 .. 6 /\ w \in 1 .. 6
      BY <2>1, <2>2
    <3> HIDE DEF w
    <3> QED BY <3>1 DEF Monday
  <2>4. Applies(f, x, doc) <=> w - 1 \notin f.data
    BY <1>3 DEF Applies, WeekDayFilter
  <2>5. Hides(f, x, doc, LevelOf(doc)) <=> \A n \in f.data : (w - Monday - n) % 7 # 0
    BY <1>3 DEF Hides
  <2> HIDE DEF w
  <2> QED BY <1>1, <1>3, <2>3, <2>4, <2>5 DEF w
<1>4. CASE f.rule = "month_day"
  <2>1. Applies(f, x, doc) <=> MonthDay(x[2]) \notin f.data
    BY <1>4 DEF Applies, MonthDayFilter
  <2>2. Hides(f, x, doc, LevelOf(doc)) <=> \A n \in f.data : MonthDay(x[2]) # n
    BY <1>4 DEF Hides
  <2> QED BY <1>1, <2>1, <2>2
<1>5. CASE f.rule = "cost_max"
  BY <1>1, <1>5 DEF Applies, Hides, CostMax
<1>6. CASE f.rule = "cost_min"
  BY <1>1, <1>6 DEF Applies, Hides, CostMin
<1>7. CASE f.rule = "expected_cost_max"
  BY <1>1, <1>7 DEF Applies, Hides, ExpectedCostMax
<1>8. CASE f.rule = "expected_cost_min"
  BY <1>1, <1>8 DEF Applies, Hides, ExpectedCostMin
<1>9. CASE f.rule = "level"
  BY <1>1, <1>9 DEF Applies, Hides, LevelFilter
<1>10. CASE f.rule = "product"
  BY <1>1, <1>10 DEF Applies, Hides, ProductFilter
<1> QED BY <1>2, <1>3, <1>4, <1>5, <1>6, <1>7, <1>8, <1>9, <1>10 DEF Rules

LEMMA OneIsSeq == ASSUME NEW S, NEW x \in S PROVE <<x>> \in Seq(S)
OBVIOUS

\* Who may read the account reads its documents.
LEMMA ReaderIsAnswered ==
    ASSUME tables \in Tables, NEW u \in Users, Reads(u)
    PROVE  LET ai == AccountsAndIndexes(tables, u, <<Identity>>)
           IN ai # Refused /\ Identity \in ai.accounts /\ Owner \in ai.indexes
<1> DEFINE list == <<Identity>>
           ai   == AccountsAndIndexes(tables, u, list)
           all  == AllAccountsAndIndexes(tables, u)
<1>1. Owner \in Users /\ Grants(u, Identity, Owner) # {} /\ \A o \in Users : Grants(u, Identity, o) # {} => o = Owner
  BY DEF Reads
<1>2. Identity \in all.accounts
  BY <1>1, AllAre
<1>3. ToSet(list) = {Identity} /\ list # <<>>
  BY DEF ToSet
<1>4. ai = Matched(u, Nothing, list)
  BY <1>2, <1>3 DEF AccountsAndIndexes, Matched
<1>5. list \in Seq(all.accounts)
  <2> HIDE DEF all
  <2> QED BY <1>2, OneIsSeq
<1>6. IsSourced(u, ai) /\ ai.accounts = {Identity}
  BY <1>3, <1>4, <1>5, MatchedAre
<1> HIDE DEF ai
<1>7. ai # Refused
  BY <1>6, QueriesAssumption DEF IsSourced, Indexed, Ids
<1>8. PICK f : Sourced(u, ai, f)
  BY <1>6 DEF IsSourced
<1>9. f[Identity] = Owner
  BY <1>1, <1>6, <1>8 DEF Sourced
<1>10. Owner \in ai.indexes
  BY <1>6, <1>8, <1>9 DEF Sourced
<1> QED BY <1>6, <1>7, <1>10 DEF ai

\* Every anomaly is told.
LEMMA AlertFollows == tables \in Tables /\ ShownIs => AlertIsAnswered
<1> SUFFICES ASSUME tables \in Tables, ShownIs
             PROVE  LET A == {y \in DOMAIN shown : shown[y].abnormal} IN
                    /\ \A u \in {v \in Users : Reads(v)} :
                           LET a == AnomaliesAnswer(u, <<Identity>>, 1, Horizon, {})
                           IN a # Refused /\ A \subseteq DOMAIN a /\ \A x \in A : LevelIs(a[x].level, shown[x])
                    /\ \A x \in A, f \in {g \in Filters : Valid(g)} :
                           \/ Apply({f}, x, shown[x]) <=> ~ f.disabled /\ Hides(f, x, shown[x], LevelOf(shown[x]))
                           \/ Weekday(x[2]) = 0 /\ f.rule = "week_day"
  BY DEF AlertIsAnswered
<1> DEFINE A == {y \in DOMAIN shown : shown[y].abnormal}
<1>1. ASSUME NEW u \in Users, Reads(u)
      PROVE  LET a == AnomaliesAnswer(u, <<Identity>>, 1, Horizon, {})
             IN a # Refused /\ A \subseteq DOMAIN a /\ \A x \in A : LevelIs(a[x].level, shown[x])
  <2> DEFINE ai == AccountsAndIndexes(tables, u, <<Identity>>)
             S  == RemoveNormalProduct(Hits(ai, 1, Horizon))
             a  == AnomaliesAnswer(u, <<Identity>>, 1, Horizon, {})
             Answer(x) == [abnormal  |-> shown[x].abnormal,
                          recurrent |-> shown[x].recurrent,
                          filtered  |-> Apply({}, x, shown[x]),
                          level     |-> IF shown[x].abnormal THEN LevelOf(shown[x]) ELSE 0]
  <2>1. ai # Refused /\ Identity \in ai.accounts /\ Owner \in ai.indexes
    BY <1>1, ReaderIsAnswered
  <2>2. a = [x \in S |-> Answer(x)]
    BY <2>1 DEF AnomaliesAnswer
  <2>3. Hits(ai, 1, Horizon) = DOMAIN shown
    <3>1. \A x \in DOMAIN shown : 1 <= x[2] /\ x[2] <= Horizon
      BY AnomaliesAssumption DEF ShownIs, Keys, Days
    <3> HIDE DEF ai
    <3> QED BY <2>1, <3>1 DEF Hits
  <2>4. A \subseteq S /\ S \subseteq DOMAIN shown /\ S \in SUBSET Keys
    <3> HIDE DEF ai
    <3> QED BY <2>3 DEF RemoveNormalProduct, ShownIs
  <2> HIDE DEF S, a, ai
  <2>5. \A x \in DOMAIN shown : LevelOf(shown[x]) \in Nat /\ LevelIs(LevelOf(shown[x]), shown[x])
    BY LevelIsHighest DEF ShownIs
  <2>6. ASSUME NEW x \in S PROVE Answer(x) \in Alert
    <3>1. Apply({}, x, shown[x]) \in BOOLEAN
      BY DEF Apply
    <3>2. shown[x].abnormal \in BOOLEAN /\ shown[x].recurrent \in BOOLEAN
      BY <2>4 DEF ShownIs
    <3>3. (IF shown[x].abnormal THEN LevelOf(shown[x]) ELSE 0) \in Nat
      BY <2>4, <2>5
    <3> QED BY <3>1, <3>2, <3>3 DEF Alert
  <2>7. a \in [S -> Alert]
    <3> HIDE DEF Answer
    <3> QED BY <2>2, <2>6
  <2>8. a # Refused
    BY <2>4, <2>7, QueriesAssumption
  <2>9. ASSUME NEW x \in A PROVE LevelIs(a[x].level, shown[x])
    <3>1. a[x].level = LevelOf(shown[x])
      <4>1. a[x] = Answer(x)
        BY <2>2, <2>4
      <4> QED BY <4>1
    <3> QED BY <2>5, <3>1
  <2>10. A \subseteq DOMAIN a
    BY <2>2, <2>4
  <2> HIDE DEF A
  <2> QED BY <2>8, <2>9, <2>10 DEF a
<1>2. ASSUME NEW x \in A, NEW f \in Filters, Valid(f)
      PROVE  \/ Apply({f}, x, shown[x]) <=> ~ f.disabled /\ Hides(f, x, shown[x], LevelOf(shown[x]))
             \/ Weekday(x[2]) = 0 /\ f.rule = "week_day"
  BY <1>2, FilterHides DEF ShownIs
<1> HIDE DEF A
<1> QED BY <1>1, <1>2 DEF A

-----------------------------------------------------------------------------
(* Sums of costs *)

\* A finite set of integers is bounded.
LEMMA FiniteBounds ==
    ASSUME NEW S, IsFiniteSet(S), \A s \in S : s \in Int
    PROVE  \E b \in Nat : \A s \in S : -b <= s /\ s <= b
<1> DEFINE P == {u \in SUBSET S : \E b \in Nat : \A s \in u : -b <= s /\ s <= b}
<1>1. {} \in P
  OBVIOUS
<1>2. ASSUME NEW u \in SUBSET S, u # {}, \A v \in SUBSET u : v # u => v \in P PROVE u \in P
  <2>1. PICK x \in u : TRUE
    BY <1>2
  <2>2. u \ {x} \in P
    BY <1>2, <2>1
  <2>3. PICK b \in Nat : \A s \in u \ {x} : -b <= s /\ s <= b
    BY <2>2
  <2>4. x \in Int
    OBVIOUS
  <2>5. PICK c \in Nat : -c <= x /\ x <= c /\ b <= c
    <3>1. CASE x <= b /\ -b <= x
      BY <3>1
    <3>2. CASE x > b
      BY <2>4, <3>2, x \in Nat
    <3>3. CASE x < -b
      BY <2>4, <3>3, -x \in Nat
    <3> QED BY <2>4, <3>1, <3>2, <3>3
  <2>6. \A s \in u : -c <= s /\ s <= c
    <3> SUFFICES ASSUME NEW s \in u PROVE -c <= s /\ s <= c
      OBVIOUS
    <3>1. CASE s = x
      BY <2>5, <3>1
    <3>2. CASE s # x
      <4>1. -b <= s /\ s <= b /\ s \in Int
        BY <2>3, <3>2
      <4> QED BY <2>5, <4>1
    <3> QED BY <3>1, <3>2
  <2> QED BY <2>6
<1>3. P = SUBSET S
  <2> HIDE DEF P
  <2>1. P \in SUBSET (SUBSET S)
    BY DEF P
  <2> QED BY <1>1, <1>2, <2>1, SubsetInduction
<1>4. S \in P
  BY <1>3
<1> QED BY <1>4

\* A sum over the classes of a finite set is one over the set.
LEMMA TotalPartition ==
    ASSUME NEW S, IsFiniteSet(S), NEW f, \A x \in S : f[x] \in Int,
           NEW K, IsFiniteSet(K), NEW key, \A x \in S : key[x] \in K,
           NEW g, \A k \in K : g[k] = TotalOf(f, {x \in S : key[x] = k})
    PROVE  TotalOf(g, K) = TotalOf(f, S)
<1> DEFINE In(u) == {x \in S : key[x] \in u}
           Q == {u \in SUBSET K : TotalOf(g, u) = TotalOf(f, In(u))}
<1>1. \A k \in K : g[k] \in Int
  <2> SUFFICES ASSUME NEW k \in K PROVE g[k] \in Int
    OBVIOUS
  <2> DEFINE T == {x \in S : key[x] = k}
  <2>1. T \subseteq S /\ IsFiniteSet(T) /\ \A x \in T : f[x] \in Int
    BY FS_Subset
  <2> HIDE DEF T
  <2>2. TotalOf(f, T) \in Int
    BY <2>1, TotalType
  <2> QED BY <2>2 DEF T
<1>2. {} \in Q
  <2>1. In({}) = {}
    OBVIOUS
  <2> HIDE DEF In
  <2> QED BY <2>1, TotalEmpty
<1>3. ASSUME NEW u \in SUBSET K, u # {}, \A v \in SUBSET u : v # u => v \in Q PROVE u \in Q
  <2>1. PICK k \in u : TRUE
    BY <1>3
  <2> DEFINE r == u \ {k}
             T == {x \in S : key[x] = k}
  <2>2. IsFiniteSet(u) /\ \A j \in u : g[j] \in Int
    BY <1>1, FS_Subset
  <2>3. TotalOf(g, u) = g[k] + TotalOf(g, r)
    BY <2>2, TotalAdd
  <2>4. TotalOf(g, r) = TotalOf(f, In(r))
    BY <1>3
  <2>5. IsFiniteSet(In(u)) /\ (\A x \in In(u) : f[x] \in Int) /\ T \in SUBSET In(u) /\ In(u) \ T = In(r)
    BY FS_Subset
  <2>6. g[k] = TotalOf(f, T)
    OBVIOUS
  <2> HIDE DEF In, T, r
  <2>7. TotalOf(f, In(u)) = TotalOf(f, T) + TotalOf(f, In(u) \ T)
    BY <2>5, TotalSplit
  <2>8. TotalOf(g, u) = TotalOf(f, In(u))
    BY <2>3, <2>4, <2>5, <2>6, <2>7
  <2> QED BY <2>8
<1>4. Q = SUBSET K
  <2> HIDE DEF Q
  <2>1. Q \in SUBSET (SUBSET K)
    BY DEF Q
  <2> QED BY <1>2, <1>3, <2>1, SubsetInduction
<1>5. TotalOf(g, K) = TotalOf(f, In(K))
  BY <1>4
<1>6. In(K) = S
  OBVIOUS
<1> QED BY <1>5, <1>6

\* SumOf is a total.
LEMMA SumOfIsTotal ==
    ASSUME NEW f, IsFiniteSet(DOMAIN f), \A x \in DOMAIN f : f[x] \in Int
    PROVE  SumOf(f) = TotalOf(f, DOMAIN f)
<1> DEFINE D == DOMAIN f
           Body(k) == [s \in SUBSET D |-> IF s = {} THEN 0
                          ELSE f[CHOOSE x \in s : TRUE] + k[s \ {CHOOSE x \in s : TRUE}]]
           K == CHOOSE k : k = Body(k)
<1>1. PICK k : Sums(k, f, D)
  BY SumExists
<1>2. k = Body(k)
  BY <1>1 DEF Sums
<1>3. K = Body(K)
  <2> HIDE DEF Body
  <2> QED BY <1>2
<1>4. Sums(K, f, D)
  <2> HIDE DEF K
  <2> QED BY <1>3 DEF Sums
<1>5. TotalOf(f, D) = K[D]
  <2> HIDE DEF K, D
  <2> QED BY <1>4, TotalIs DEF D
<1>6. SumOf(f) = K[D]
  BY DEF SumOf, MapThenSumSet, MapThenFoldSet
<1> QED BY <1>5, <1>6

CostOf == [i \in LineItems |-> i.cost]

\* CostSum is a total.
LEMMA CostSumIsTotal ==
    ASSUME NEW S \in SUBSET LineItems
    PROVE  /\ CostSum(S) = TotalOf(CostOf, S) /\ CostSum(S) \in Int
           /\ IsFiniteSet(S) /\ \A i \in S : CostOf[i] \in Int
<1> DEFINE f == CostOf
           Body(k) == [s \in SUBSET S |-> IF s = {} THEN 0
                          ELSE (CHOOSE x \in s : TRUE).cost + k[s \ {CHOOSE x \in s : TRUE}]]
           K == CHOOSE k : k = Body(k)
<1>1. IsFiniteSet(S) /\ \A x \in S : f[x] = x.cost /\ f[x] \in Int
  BY LineItemsAssumption, FS_Subset DEF CostOf
<1>2. \A k : Body(k) = [s \in SUBSET S |-> IF s = {} THEN 0
                          ELSE f[CHOOSE x \in s : TRUE] + k[s \ {CHOOSE x \in s : TRUE}]]
  <2>1. \A s \in SUBSET S : s # {} => f[CHOOSE x \in s : TRUE] = (CHOOSE x \in s : TRUE).cost
    BY <1>1
  <2> HIDE DEF f
  <2> QED BY <2>1
<1> HIDE DEF f
<1>3. PICK k : Sums(k, f, S)
  BY <1>1, SumExists
<1>4. k = Body(k)
  <2> HIDE DEF Body
  <2> QED BY <1>2, <1>3 DEF Sums
<1>5. K = Body(K)
  <2> HIDE DEF Body
  <2> QED BY <1>4
<1>6. Sums(K, f, S)
  <2> HIDE DEF Body, K
  <2> QED BY <1>2, <1>5 DEF Sums
<1>7. TotalOf(f, S) = K[S]
  <2> HIDE DEF K
  <2> QED BY <1>1, <1>6, TotalIs
<1>8. CostSum(S) = K[S]
  BY DEF CostSum, MapThenSumSet, MapThenFoldSet
<1>9. TotalOf(f, S) \in Int
  BY <1>1, TotalType
<1> QED BY <1>1, <1>7, <1>8, <1>9 DEF f

\* The costs of the classes of line items add up.
LEMMA CostsOfClasses ==
    ASSUME NEW S \in SUBSET LineItems, NEW key, NEW g, IsFiniteSet(DOMAIN g),
           \A i \in S : key[i] \in DOMAIN g, \A k \in DOMAIN g : g[k] = CostSum({i \in S : key[i] = k})
    PROVE  SumOf(g) = CostSum(S)
<1>1. \A k : {i \in S : key[i] = k} \in SUBSET LineItems
  OBVIOUS
<1>2. \A k \in DOMAIN g : g[k] \in Int /\ g[k] = TotalOf(CostOf, {i \in S : key[i] = k})
  BY <1>1, CostSumIsTotal
<1>3. SumOf(g) = TotalOf(g, DOMAIN g)
  BY <1>2, SumOfIsTotal
<1>4. IsFiniteSet(S) /\ (\A i \in S : CostOf[i] \in Int) /\ CostSum(S) = TotalOf(CostOf, S)
  BY CostSumIsTotal
<1>5. TotalOf(g, DOMAIN g) = TotalOf(CostOf, S)
  BY <1>2, <1>4, TotalPartition
<1> QED BY <1>3, <1>4, <1>5

-----------------------------------------------------------------------------
(* Dates, and costs from period to period *)

LEMMA DivIs ==
    ASSUME NEW t \in Int, NEW d \in Nat, d > 0
    PROVE  t \div d \in Int /\ d * (t \div d) <= t /\ t < d * (t \div d) + d
OBVIOUS

LEMMA DivIsNat ==
    ASSUME NEW t \in Nat, NEW d \in Nat, d > 0
    PROVE  t \div d \in Nat /\ d * (t \div d) <= t /\ t < d * (t \div d) + d
OBVIOUS

LEMMA TimesLess ==
    ASSUME NEW d \in Nat, NEW p \in Int, NEW q \in Int, p < q
    PROVE  d * p + d <= d * q /\ d * p \in Int /\ d * q \in Int
<1>1. d * (q - p - 1) >= 0
  BY q - p - 1 \in Nat, ProductIsNat
<1>2. d * (q - p - 1) = d * q - d * p - d
  OBVIOUS
<1>3. d * p \in Int /\ d * q \in Int
  OBVIOUS
<1> QED BY <1>1, <1>2, <1>3

\* Earlier moments are in earlier periods.
LEMMA DivMonotone ==
    ASSUME NEW s \in Nat, NEW t \in Nat, s <= t, NEW d \in Nat, d > 0
    PROVE  s \div d <= t \div d
<1> DEFINE p == t \div d
           q == s \div d
<1>1. p \in Nat /\ t < d * p + d /\ q \in Nat /\ d * q <= s
  BY DivIsNat
<1> HIDE DEF p, q
<1>2. p < q => d * p + d <= d * q /\ d * p \in Int /\ d * q \in Int
  BY <1>1, TimesLess
<1>3. ~ (p < q)
  BY <1>1, <1>2
<1> QED BY <1>1, <1>3 DEF p, q

\* A moment is in one of the days if it is between their first and last moments.
LEMMA DivBetween ==
    ASSUME NEW t \in Nat, NEW d \in Nat, d > 0, NEW b \in Nat, NEW e \in Nat
    PROVE  t \div d \in b .. e <=> b * d <= t /\ t <= (e + 1) * d - 1
<1> DEFINE q == t \div d
<1>1. q \in Nat /\ d * q <= t /\ t < d * q + d
  BY DivIsNat
<1> HIDE DEF q
<1>2. b * d = d * b /\ (e + 1) * d = d * (e + 1) /\ d * (e + 1) \in Int /\ d * b \in Int /\ d * q \in Int
  BY <1>1
<1>3. d * (q + 1) = d * q + d /\ e + 1 \in Int /\ q + 1 \in Int
  BY <1>1
<1>4. q < b => d * q + d <= d * b
  BY <1>1, TimesLess
<1>5. b < q => d * b + d <= d * q
  BY <1>1, TimesLess
<1>6. q < e + 1 => d * q + d <= d * (e + 1)
  BY <1>1, <1>3, TimesLess
<1>7. e + 1 < q => d * (e + 1) + d <= d * q
  BY <1>1, <1>3, TimesLess
<1>8. CASE q < b
  BY <1>1, <1>2, <1>4, <1>8 DEF q
<1>9. CASE q >= b
  <2>1. d * b <= d * q
    BY <1>1, <1>2, <1>5, <1>9
  <2>2. CASE q <= e
    <3>1. d * q + d <= d * (e + 1)
      BY <1>1, <1>6, <2>2
    <3> QED BY <1>1, <1>2, <1>9, <2>1, <2>2, <3>1 DEF q
  <2>3. CASE q > e
    <3>1. d * (e + 1) <= d * q
      BY <1>1, <1>2, <1>3, <1>7, <2>3
    <3>2. ~ (t <= d * (e + 1) - 1)
      BY <1>1, <1>2, <3>1
    <3> QED BY <1>1, <1>2, <2>3, <3>2 DEF q
  <2> QED BY <1>1, <2>2, <2>3
<1> QED BY <1>1, <1>8, <1>9

LEMMA Periods ==
    /\ "day" \in DOMAIN Span /\ "week" \in DOMAIN Span /\ "month" \in DOMAIN Span
    /\ \A p \in DOMAIN Span : Span[p] \in Nat /\ Span[p] > 0
    /\ \A range \in Ranges : range[1] \in Nat /\ range[2] \in Nat
BY CostsAssumption

\* The dates of a query are the days that are asked for.
LEMMA FilteredIsAsked ==
    ASSUME NEW ai, NEW range \in Ranges
    PROVE  /\ Filtered(ai, range) = Asked(ai, range) /\ Filtered(ai, range) \in SUBSET LineItems
           /\ DateBegin(range) \in Nat /\ DateEnd(range) \in Nat
<1> DEFINE d == Span["day"]
<1>1. d \in Nat /\ d > 0 /\ range[1] \in Nat /\ range[2] \in Nat
  BY Periods
<1> HIDE DEF d
<1>2. ASSUME NEW i \in LineItems
      PROVE  i.time \div d \in range[1] .. range[2] <=> DateBegin(range) <= i.time /\ i.time <= DateEnd(range)
  <2>1. i.time \in Nat
    BY LineItemsAssumption
  <2> QED BY <1>1, <2>1, DivBetween DEF DateBegin, DateEnd, d
<1>3. Filtered(ai, range) = Asked(ai, range)
  BY <1>2 DEF Filtered, Asked, d
<1>4. range[1] * d \in Nat /\ (range[2] + 1) * d \in Nat /\ (range[2] + 1) * d >= d
  <2>1. range[2] * d \in Nat /\ (range[2] + 1) * d = range[2] * d + d
    BY <1>1, ProductIsNat
  <2> QED BY <1>1, <2>1, ProductIsNat
<1>5. DateBegin(range) \in Nat /\ DateEnd(range) \in Nat
  BY <1>1, <1>4 DEF DateBegin, DateEnd, d
<1> QED BY <1>3, <1>5 DEF Filtered

\* After a cost, a variation is negative if less is paid.
LEMMA VariationIs ==
    ASSUME NEW before \in Int, before > 0, NEW after \in Int
    PROVE  PercentVariation(before, after) < 0 <=> after < before
<1> DEFINE x == (after - before) * 100
           q == x \div before
<1>1. PercentVariation(before, after) = q
  <2>1. before # 0 /\ before > 0
    OBVIOUS
  <2> HIDE DEF q
  <2> QED BY <2>1 DEF PercentVariation, q
<1>2. x \in Int /\ before \in Nat /\ (x < 0 <=> after < before)
  OBVIOUS
<1> HIDE DEF x
<1>3. q \in Int /\ before * q <= x /\ x < before * q + before
  BY <1>2, DivIs
<1> HIDE DEF q
<1>4. q < 0 => before * q + before <= before * 0
  BY <1>2, <1>3, TimesLess
<1>5. 0 < q => before * 0 + before <= before * q
  BY <1>2, <1>3, TimesLess
<1>6. before * 0 = 0 /\ (q = 0 => before * q = 0) /\ before * q \in Int
  BY <1>3
<1>7. q < 0 <=> x < 0
  BY <1>2, <1>3, <1>4, <1>5, <1>6
<1> QED BY <1>1, <1>2, <1>7

\* The histogram of a usage type has the costs of its line items.
LEMMA PointsAddUp ==
    ASSUME NEW ai, NEW range \in Ranges, NEW T \in SUBSET Filtered(ai, range), NEW period \in DOMAIN Span
    PROVE  LET d == PricePoints(T, period, range) IN
           /\ DOMAIN d = DateBegin(range) \div Span[period] .. DateEnd(range) \div Span[period]
           /\ SumOf([n \in DOMAIN d |-> d[n].cost]) = CostSum(T)
           /\ \A n \in DOMAIN d : n - 1 \in DOMAIN d /\ d[n - 1].cost > 0 =>
                  (d[n].variation < 0 <=> d[n].cost < d[n - 1].cost)
<1> DEFINE first   == DateBegin(range) \div Span[period]
           end     == DateEnd(range) \div Span[period]
           Paid(n) == CostSum(InBucket(period, n, T))
           d       == PricePoints(T, period, range)
           g       == [n \in DOMAIN d |-> d[n].cost]
           key     == [i \in T |-> KeyOf(period, i)]
<1>1. d = [n \in first .. end |->
              [cost      |-> Paid(n),
               variation |-> IF n = first THEN 0 ELSE PercentVariation(Paid(n - 1), Paid(n))]]
  BY DEF PricePoints
<1>2. T \in SUBSET LineItems /\ \A i \in T : i.time \in Nat /\ DateBegin(range) <= i.time /\ i.time <= DateEnd(range)
  BY LineItemsAssumption DEF Filtered
<1>3. first \in Nat /\ end \in Nat
  BY FilteredIsAsked, Periods, DivIsNat
<1>4. ASSUME NEW i \in T PROVE key[i] \in first .. end
  <2>1. key[i] = i.time \div Span[period]
    BY DEF KeyOf
  <2>2. first <= i.time \div Span[period] /\ i.time \div Span[period] <= end /\ i.time \div Span[period] \in Nat
    BY <1>2, FilteredIsAsked, Periods, DivMonotone, DivIsNat
  <2> HIDE DEF first, end, key
  <2> QED BY <1>3, <2>1, <2>2
<1>5. \A n : Paid(n) = CostSum({i \in T : key[i] = n}) /\ Paid(n) \in Int
  <2> SUFFICES ASSUME NEW n PROVE Paid(n) = CostSum({i \in T : key[i] = n}) /\ Paid(n) \in Int
    OBVIOUS
  <2>1. InBucket(period, n, T) = {i \in T : key[i] = n}
    BY DEF InBucket
  <2>2. InBucket(period, n, T) \in SUBSET LineItems
    BY <1>2 DEF InBucket
  <2> QED BY <2>1, <2>2, CostSumIsTotal
<1> HIDE DEF d, Paid, key, first, end
<1>6. DOMAIN d = first .. end /\ DOMAIN g = first .. end
  BY <1>1
<1>7. \A n \in first .. end : d[n].cost = Paid(n) /\ g[n] = Paid(n)
  BY <1>1
<1>8. IsFiniteSet(first .. end)
  BY <1>3, FS_Interval
<1> HIDE DEF g
<1>9. SumOf(g) = CostSum(T)
  <2>1. IsFiniteSet(DOMAIN g) /\ \A i \in T : key[i] \in DOMAIN g
    BY <1>4, <1>6, <1>8
  <2>2. \A n \in DOMAIN g : g[n] = CostSum({i \in T : key[i] = n})
    BY <1>5, <1>6, <1>7
  <2> QED BY <1>2, <2>1, <2>2, CostsOfClasses
<1>10. ASSUME NEW n \in DOMAIN d, n - 1 \in DOMAIN d, d[n - 1].cost > 0
       PROVE  d[n].variation < 0 <=> d[n].cost < d[n - 1].cost
  <2>1. n # first
    BY <1>3, <1>6, <1>10
  <2>2. d[n].variation = PercentVariation(Paid(n - 1), Paid(n))
    BY <1>1, <1>6, <2>1
  <2>3. d[n].cost = Paid(n) /\ d[n - 1].cost = Paid(n - 1)
    BY <1>6, <1>7, <1>10
  <2> QED BY <1>5, <1>10, <2>2, <2>3, VariationIs
<1> QED BY <1>6, <1>9, <1>10 DEF d, g, first, end

LEMMA DiffsAdd == ASSUME NEW ai, Reaches(ai), NEW range \in Ranges PROVE DiffsAddUp(ai, range)
<1> SUFFICES ASSUME NEW period \in {"day", "week", "month"}
             PROVE  LET d == DiffData(ai, range, period) IN
                    /\ \A u, v \in DOMAIN d : DOMAIN d[u] = DOMAIN d[v]
                    /\ \A u \in DOMAIN d :
                        /\ SumOf([n \in DOMAIN d[u] |-> d[u][n].cost])
                               = CostSum({i \in Asked(ai, range) : i.usage = u})
                        /\ \A n \in DOMAIN d[u] : n - 1 \in DOMAIN d[u] /\ d[u][n - 1].cost > 0 =>
                               (d[u][n].variation < 0 <=> d[u][n].cost < d[u][n - 1].cost)
  BY DEF DiffsAddUp
<1> DEFINE d == DiffData(ai, range, period)
           S == Filtered(ai, range)
           T(u) == {i \in S : i.usage = u}
<1>1. period \in DOMAIN Span
  BY Periods
<1>2. d = [u \in {i.usage : i \in S} |-> PricePoints(T(u), period, range)]
  BY DEF DiffData
<1>3. S = Asked(ai, range)
  BY FilteredIsAsked
<1>4. ASSUME NEW u \in DOMAIN d
      PROVE  /\ DOMAIN d[u] = DateBegin(range) \div Span[period] .. DateEnd(range) \div Span[period]
             /\ SumOf([n \in DOMAIN d[u] |-> d[u][n].cost]) = CostSum({i \in Asked(ai, range) : i.usage = u})
             /\ \A n \in DOMAIN d[u] : n - 1 \in DOMAIN d[u] /\ d[u][n - 1].cost > 0 =>
                    (d[u][n].variation < 0 <=> d[u][n].cost < d[u][n - 1].cost)
  <2>1. d[u] = PricePoints(T(u), period, range)
    BY <1>2
  <2>2. T(u) \in SUBSET S /\ T(u) = {i \in Asked(ai, range) : i.usage = u}
    BY <1>3
  <2> DEFINE V == T(u)
             e == PricePoints(V, period, range)
  <2>3. V \in SUBSET Filtered(ai, range)
    OBVIOUS
  <2>4. d[u] = e /\ V = {i \in Asked(ai, range) : i.usage = u}
    BY <2>1, <2>2
  <2> HIDE DEF T, d, V
  <2>5. /\ DOMAIN e = DateBegin(range) \div Span[period] .. DateEnd(range) \div Span[period]
        /\ SumOf([n \in DOMAIN e |-> e[n].cost]) = CostSum(V)
        /\ \A n \in DOMAIN e : n - 1 \in DOMAIN e /\ e[n - 1].cost > 0 =>
               (e[n].variation < 0 <=> e[n].cost < e[n - 1].cost)
    BY <1>1, <2>3, PointsAddUp
  <2> HIDE DEF e
  <2> QED BY <2>4, <2>5
<1> HIDE DEF d
<1> QED BY <1>4 DEF d

-----------------------------------------------------------------------------
(* Costs by the values of tags *)

\* The buckets of an aggregation are finitely many, and there is one for each line item.
LEMMA KeysCover ==
    ASSUME NEW S \in SUBSET LineItems, NEW c
    PROVE  IsFiniteSet(BucketKeys(c, S)) /\ \A i \in S : KeyOf(c, i) \in BucketKeys(c, S)
<1> DEFINE key  == [i \in S |-> KeyOf(c, i)]
           keys == {KeyOf(c, i) : i \in S}
<1>1. IsFiniteSet(S) /\ keys = {key[i] : i \in S}
  BY CostSumIsTotal
<1>2. IsFiniteSet(keys)
  <2> HIDE DEF keys, key
  <2> QED BY <1>1, FiniteImage
<1>3. \A i \in S : KeyOf(c, i) \in keys
  OBVIOUS
<1>4. CASE c \in DOMAIN Span /\ S # {}
  <2>1. \A k \in keys : k \in Nat /\ k \in Int
    <3>1. \A i \in S : KeyOf(c, i) \in Nat
      <4> SUFFICES ASSUME NEW i \in S PROVE KeyOf(c, i) \in Nat
        OBVIOUS
      <4>1. i.time \in Nat /\ Span[c] \in Nat /\ Span[c] > 0
        BY <1>4, LineItemsAssumption, Periods
      <4>2. KeyOf(c, i) = i.time \div Span[c]
        BY <1>4 DEF KeyOf
      <4> QED BY <4>1, <4>2, DivIsNat
    <3> QED BY <3>1
  <2>2. BucketKeys(c, S) = Min(keys) .. Max(keys) /\ keys # {}
    BY <1>4 DEF BucketKeys
  <2> HIDE DEF keys
  <2>3. PICK b \in Nat : \A k \in keys : k <= b
    BY <1>2, <2>1, FiniteBounds
  <2>4. keys \in SUBSET Int /\ b \in Int /\ \A k \in keys : 0 <= k
    BY <2>1
  <2>5. Min(keys) \in keys /\ \A k \in keys : Min(keys) <= k
    BY <2>2, <2>4, MinIs
  <2>6. Max(keys) \in keys /\ \A k \in keys : k <= Max(keys)
    BY <2>2, <2>3, <2>4, MaxIs
  <2>7. IsFiniteSet(Min(keys) .. Max(keys))
    BY <2>1, <2>5, <2>6, FS_Interval
  <2>8. keys \subseteq Min(keys) .. Max(keys)
    BY <2>1, <2>5, <2>6
  <2> QED BY <1>3, <2>2, <2>7, <2>8
<1>5. CASE ~ (c \in DOMAIN Span /\ S # {})
  <2>1. BucketKeys(c, S) = keys
    BY <1>5 DEF BucketKeys
  <2> QED BY <1>2, <1>3, <2>1
<1> QED BY <1>4, <1>5

\* The costs of the buckets of an aggregation add up.
LEMMA BucketsAddUp ==
    ASSUME NEW S \in SUBSET LineItems, NEW c
    PROVE  SumOf([x \in BucketKeys(c, S) |-> CostSum(InBucket(c, x, S))]) = CostSum(S)
<1> DEFINE key == [i \in S |-> KeyOf(c, i)]
           g   == [x \in BucketKeys(c, S) |-> CostSum(InBucket(c, x, S))]
<1>1. IsFiniteSet(DOMAIN g) /\ \A i \in S : key[i] \in DOMAIN g
  BY KeysCover
<1>2. \A k \in DOMAIN g : g[k] = CostSum({i \in S : key[i] = k})
  <2>1. \A k : InBucket(c, k, S) = {i \in S : key[i] = k}
    BY DEF InBucket
  <2>2. \A k \in DOMAIN g : g[k] = CostSum(InBucket(c, k, S))
    OBVIOUS
  <2> HIDE DEF g, key
  <2> QED BY <2>1, <2>2
<1> HIDE DEF key, g
<1>3. SumOf(g) = CostSum(S)
  BY <1>1, <1>2, CostsOfClasses
<1> QED BY <1>3 DEF g

\* The values of a tag.
ValuesOf(S, k) == {t[2] : t \in {s \in UNION {i.tags : i \in S} : s[1] = k}}

\* The costs by the values of a tag that each line item has.
LEMMA TagAddsUp ==
    ASSUME NEW S \in SUBSET LineItems, NEW k, \A i \in S : \E t \in i.tags : t[1] = k,
           NEW g, DOMAIN g = ValuesOf(S, k), \A v \in DOMAIN g : g[v] = CostSum({i \in S : <<k, v>> \in i.tags})
    PROVE  SumOf(g) = CostSum(S)
<1> DEFINE V == ValuesOf(S, k)
           Tag(i) == CHOOSE t \in i.tags : t[1] = k
           key == [i \in S |-> Tag(i)[2]]
<1>1. \A i \in S : Tag(i) \in i.tags /\ Tag(i)[1] = k
  OBVIOUS
<1>2. ASSUME NEW i \in S, NEW t \in i.tags PROVE t = <<t[1], t[2]>> /\ (t[1] = k => t = Tag(i))
  <2> HIDE DEF Tag
  <2> QED BY <1>1, LineItemsAssumption
<1>3. \A i \in S : key[i] = Tag(i)[2]
  OBVIOUS
<1> HIDE DEF Tag, key
<1>4. \A i \in S : key[i] \in V
  BY <1>1, <1>3 DEF ValuesOf
<1>5. \A v \in V : {i \in S : <<k, v>> \in i.tags} = {i \in S : key[i] = v}
  <2> SUFFICES ASSUME NEW v \in V, NEW i \in S PROVE <<k, v>> \in i.tags <=> key[i] = v
    OBVIOUS
  <2>1. ASSUME <<k, v>> \in i.tags PROVE key[i] = v
    <3>1. <<k, v>> = Tag(i)
      BY <1>2, <2>1
    <3> QED BY <1>3, <3>1
  <2>2. ASSUME key[i] = v PROVE <<k, v>> \in i.tags
    <3>1. Tag(i) = <<Tag(i)[1], Tag(i)[2]>> /\ Tag(i) \in i.tags /\ Tag(i)[1] = k
      BY <1>1, <1>2
    <3>2. Tag(i) = <<k, v>>
      BY <1>3, <2>2, <3>1
    <3> QED BY <3>1, <3>2
  <2> QED BY <2>1, <2>2
<1>6. V = {key[i] : i \in S}
  <2>1. ASSUME NEW v \in V PROVE \E i \in S : key[i] = v
    <3>1. PICK i \in S : \E t \in i.tags : t[1] = k /\ t[2] = v
      BY DEF ValuesOf
    <3>2. PICK t \in i.tags : t[1] = k /\ t[2] = v
      BY <3>1
    <3>3. t = Tag(i)
      BY <1>2, <3>2
    <3> QED BY <1>3, <3>2, <3>3
  <2> QED BY <1>4, <2>1
<1>7. IsFiniteSet(V)
  <2>1. IsFiniteSet(S)
    BY CostSumIsTotal
  <2>2. IsFiniteSet({key[i] : i \in S})
    BY <2>1, FiniteImage
  <2> QED BY <1>6, <2>2
<1>8. \A v \in DOMAIN g : g[v] = CostSum({i \in S : key[i] = v})
  BY <1>5
<1>9. IsFiniteSet(DOMAIN g) /\ \A i \in S : key[i] \in DOMAIN g
  BY <1>4, <1>7
<1> QED BY <1>8, <1>9, CostsOfClasses

LEMMA TagsAdd == ASSUME NEW ai, Reaches(ai), NEW range \in Ranges PROVE TagsAddUp(ai, range)
<1> SUFFICES ASSUME NEW c \in Simple, NEW keys, NEW k \in DOMAIN TagsValues(ai, range, keys, c)
             PROVE  LET d == TagsValues(ai, range, keys, c) IN
                    SumOf([v \in DOMAIN d[k] |-> SumOf(d[k][v])])
                        = CostSum({i \in Asked(ai, range) : \E t \in i.tags : t[1] = k})
  BY DEF TagsAddUp
<1> DEFINE S == {i \in Filtered(ai, range) : \E t \in i.tags : t[1] = k}
           V == ValuesOf(S, k)
           W(v) == {i \in S : <<k, v>> \in i.tags}
           row == [v \in V |-> [x \in BucketKeys(c, W(v)) |-> CostSum(InBucket(c, x, W(v)))]]
           g == [v \in V |-> SumOf(row[v])]
           d == TagsValues(ai, range, keys, c)
<1>1. d[k] = row
  BY DEF TagsValues, ValuesOf
<1>2. S = {i \in Asked(ai, range) : \E t \in i.tags : t[1] = k} /\ S \in SUBSET LineItems
  BY FilteredIsAsked
<1>3. ASSUME NEW v \in V PROVE g[v] = CostSum(W(v))
  <2> DEFINE T == W(v)
  <2>1. g[v] = SumOf([x \in BucketKeys(c, T) |-> CostSum(InBucket(c, x, T))])
    OBVIOUS
  <2>2. T \in SUBSET LineItems
    BY <1>2
  <2> HIDE DEF W, g, T
  <2> QED BY <2>1, <2>2, BucketsAddUp DEF T
<1>4. DOMAIN g = V /\ g = [v \in DOMAIN d[k] |-> SumOf(d[k][v])]
  <2>1. DOMAIN row = V
    OBVIOUS
  <2> HIDE DEF row, d, V
  <2> QED BY <1>1, <2>1
<1>5. \A v \in DOMAIN g : g[v] = CostSum({i \in S : <<k, v>> \in i.tags})
  BY <1>3
<1>6. \A i \in S : \E t \in i.tags : t[1] = k
  OBVIOUS
<1>7. DOMAIN g = ValuesOf(S, k)
  BY <1>4
<1> HIDE DEF S, V, g, d
<1>8. SumOf(g) = CostSum(S)
  BY <1>2, <1>5, <1>6, <1>7, TagAddsUp
<1> QED BY <1>2, <1>4, <1>8 DEF d

-----------------------------------------------------------------------------
(* Costs of the buckets of S3 *)

Info == [storage : Int, requests : Int, bandwidth : Int]
Resources == {i.resource : i \in LineItems}
S3Buckets == UNION {[D -> Info] : D \in SUBSET Resources}

\* What is known of a bucket.
InfoOf(b, r) == IF r \in DOMAIN b THEN b[r] ELSE NoCosts

LEMMA InfoIs ==
    ASSUME NEW b \in S3Buckets
    PROVE  DOMAIN b \subseteq Resources /\ b \in [DOMAIN b -> Info] /\ \A r : InfoOf(b, r) \in Info
<1>1. PICK D \in SUBSET Resources : b \in [D -> Info]
  BY DEF S3Buckets
<1>2. NoCosts \in Info
  BY DEF NoCosts, Info
<1>3. DOMAIN b = D /\ \A r \in D : b[r] \in Info
  BY <1>1
<1> QED BY <1>1, <1>2, <1>3 DEF InfoOf

\* The line items of a bucket.
InResource(S, r) == {i \in S : i.resource = r}

\* An answer to a request adds the costs of its line items to what is known of a bucket.
LEMMA ParsedIs ==
    ASSUME NEW b \in S3Buckets, NEW kind \in Kinds, NEW S \in SUBSET LineItems
    PROVE  LET new == Parsed(b, kind, S) IN
           /\ new \in S3Buckets
           /\ \A r : r \notin NotABucket =>
                  LET old == InfoOf(b, r)
                      sum == CostSum(InResource(S, r))
                  IN /\ kind = "storage" /\ old.storage = 0 => InfoOf(new, r) = [old EXCEPT !.storage = sum]
                     /\ kind = "requests" /\ old.requests = 0 => InfoOf(new, r) = [old EXCEPT !.requests = sum]
                     /\ kind \in {"bandwidthIn", "bandwidthOut"} =>
                            InfoOf(new, r) = [old EXCEPT !.bandwidth = old.bandwidth + sum]
<1> DEFINE names  == {i.resource : i \in S} \ NotABucket
           Sum(r) == CostSum(InResource(S, r))
           Val(r) == IF r \in names THEN AddUsage(InfoOf(b, r), kind, Sum(r)) ELSE InfoOf(b, r)
           new    == Parsed(b, kind, S)
<1>1. new = [r \in DOMAIN b \cup names |-> Val(r)]
  BY DEF Parsed, InfoOf, InResource
<1>2. \A r : InfoOf(b, r) \in Info /\ Sum(r) \in Int
  <2> SUFFICES ASSUME NEW r PROVE Sum(r) \in Int
    BY InfoIs
  <2>1. InResource(S, r) \in SUBSET LineItems
    BY DEF InResource
  <2> QED BY <2>1, CostSumIsTotal
<1>3. \A info \in Info, sum \in Int : AddUsage(info, kind, sum) \in Info
  <2> SUFFICES ASSUME NEW info \in Info, NEW sum \in Int PROVE AddUsage(info, kind, sum) \in Info
    OBVIOUS
  <2>1. kind = "storage" => AddUsage(info, kind, sum) = [info EXCEPT !.storage = sum]
    BY DEF AddUsage
  <2>2. kind = "requests" => AddUsage(info, kind, sum) = [info EXCEPT !.requests = sum]
    BY DEF AddUsage
  <2>3. kind # "storage" /\ kind # "requests" => AddUsage(info, kind, sum) = [info EXCEPT !.bandwidth = @ + sum]
    BY DEF AddUsage
  <2> QED BY <2>1, <2>2, <2>3 DEF Info
<1>4. \A r : Val(r) \in Info
  <2> SUFFICES ASSUME NEW r PROVE Val(r) \in Info
    OBVIOUS
  <2> HIDE DEF Sum, names
  <2> QED BY <1>2, <1>3
<1>5. DOMAIN b \cup names \in SUBSET Resources
  BY InfoIs DEF Resources
<1> HIDE DEF Val, names, new
<1>6. new \in [DOMAIN b \cup names -> Info]
  BY <1>1, <1>4
<1>7. new \in S3Buckets
  BY <1>5, <1>6 DEF S3Buckets
<1>8. ASSUME NEW r, r \notin NotABucket
      PROVE  LET old == InfoOf(b, r) IN
             /\ kind = "storage" /\ old.storage = 0 => InfoOf(new, r) = [old EXCEPT !.storage = Sum(r)]
             /\ kind = "requests" /\ old.requests = 0 => InfoOf(new, r) = [old EXCEPT !.requests = Sum(r)]
             /\ kind \in {"bandwidthIn", "bandwidthOut"} =>
                    InfoOf(new, r) = [old EXCEPT !.bandwidth = old.bandwidth + Sum(r)]
  <2> DEFINE old == InfoOf(b, r)
  <2>1. old \in Info
    BY InfoIs
  <2>2. InfoOf(new, r) = Val(r)
    <3>1. CASE r \in DOMAIN b \cup names
      BY <1>1, <3>1 DEF InfoOf
    <3>2. CASE r \notin DOMAIN b \cup names
      BY <1>1, <3>2 DEF InfoOf, Val
    <3> QED BY <3>1, <3>2
  <2>3. CASE r \in names
    <3>1. Val(r) = AddUsage(old, kind, Sum(r))
      BY <2>3 DEF Val
    <3> HIDE DEF old, Sum
    <3>2. kind = "storage" => AddUsage(old, kind, Sum(r)) = [old EXCEPT !.storage = Sum(r)]
      BY DEF AddUsage
    <3>3. kind = "requests" => AddUsage(old, kind, Sum(r)) = [old EXCEPT !.requests = Sum(r)]
      BY DEF AddUsage
    <3>4. kind \in {"bandwidthIn", "bandwidthOut"} => AddUsage(old, kind, Sum(r)) = [old EXCEPT !.bandwidth = @ + Sum(r)]
      BY DEF AddUsage
    <3> QED BY <2>1, <2>2, <3>1, <3>2, <3>3, <3>4 DEF Info, old
  <2>4. CASE r \notin names
    <3>1. Val(r) = old
      BY <2>4 DEF Val
    <3>2. Sum(r) = 0
      <4>1. InResource(S, r) = {}
        BY <1>8, <2>4 DEF InResource, names
      <4>2. CostSum({}) = TotalOf(CostOf, {}) /\ TotalOf(CostOf, {}) = 0
        BY CostSumIsTotal, TotalEmpty
      <4> QED BY <4>1, <4>2
    <3> HIDE DEF old, Sum
    <3> QED BY <2>1, <2>2, <3>1, <3>2 DEF Info, old
  <2> QED BY <2>3, <2>4
<1> QED BY <1>7, <1>8 DEF new

KindsInOrder == <<"storage", "requests", "bandwidthIn", "bandwidthOut">>

\* The four requests one after the other.
LEMMA RequestByRequest ==
    ASSUME NEW ai, Reaches(ai), NEW range \in Ranges
    PROVE  \E F : /\ F[0] = Empty
                  /\ \A k \in 1 .. 4 : F[k] = Parsed(F[k - 1], KindsInOrder[k], UsageOf(ai, range, KindsInOrder[k]))
                  /\ S3Costs(ai, range) = F[4]
<1> DEFINE list == KindsInOrder
           Z == S3Buckets
           Do(b, kind) == Parsed(b, kind, UsageOf(ai, range, kind))
           step == [x \in (1 .. 4) \X Z |-> Do(x[2], list[x[1]])]
           Body(k) == [s \in SUBSET (1 .. 4) |-> IF s = {} THEN Empty ELSE Do(k[s \ {Max(s)}], list[Max(s)])]
           K == CHOOSE k : k = Body(k)
           F == [k \in 0 .. 4 |-> K[1 .. k]]
<1>1. DOMAIN list = 1 .. 4 /\ \A k \in 1 .. 4 : list[k] \in Kinds
  BY DEF KindsInOrder, Kinds
<1>2. S3Costs(ai, range) = K[DOMAIN list]
  BY DEF S3Costs, FoldLeft, MapThenFoldSet, KindsInOrder
<1> HIDE DEF list
<1>3. step \in [(1 .. 4) \X Z -> Z]
  <2>1. ASSUME NEW k \in 1 .. 4, NEW b \in Z PROVE Do(b, list[k]) \in Z
    <3>1. UsageOf(ai, range, list[k]) \in SUBSET LineItems
      BY FilteredIsAsked DEF UsageOf
    <3> QED BY <1>1, <3>1, ParsedIs
  <2> HIDE DEF Z, Do
  <2> QED BY <2>1
<1>4. Empty \in Z
  <2>1. Empty \in [{} -> Info]
    BY DEF Empty
  <2> QED BY <2>1 DEF S3Buckets
<1>5. PICK h \in [SUBSET (1 .. 4) -> Z] : FoldsLeft(h, 4, Empty, step)
  <2>1. 4 \in Nat
    OBVIOUS
  <2> HIDE DEF step, Z
  <2> QED BY <1>3, <1>4, <2>1, LeftRecursion
<1>6. h = Body(h)
  <2>1. ASSUME NEW s \in SUBSET (1 .. 4), s # {}
        PROVE  step[<<Max(s), h[s \ {Max(s)}]>>] = Do(h[s \ {Max(s)}], list[Max(s)])
    <3>1. Max(s) \in 1 .. 4 /\ h[s \ {Max(s)}] \in Z
      BY <2>1, 4 \in Nat, MaxIn
    <3> HIDE DEF Z, Do
    <3> QED BY <3>1
  <2> HIDE DEF step, Do
  <2> QED BY <1>5, <2>1 DEF FoldsLeft
<1> HIDE DEF Do
<1>7. K = Body(K)
  <2> HIDE DEF Body
  <2> QED BY <1>6
<1>8. F[0] = Empty /\ \A k \in 1 .. 4 : F[k] = Do(F[k - 1], list[k])
  <2>1. ASSUME NEW k \in 0 .. 4 PROVE F[k] = K[1 .. k] /\ (1 .. k) \in SUBSET (1 .. 4)
    OBVIOUS
  <2>2. 1 .. 0 = {}
    OBVIOUS
  <2>3. ASSUME NEW k \in 1 .. 4 PROVE F[k] = Do(F[k - 1], list[k])
    <3>1. k \in Nat /\ k # 0 /\ k \in 0 .. 4 /\ k - 1 \in 0 .. 4 /\ 1 .. k # {}
      OBVIOUS
    <3>2. K[1 .. k] = Do(K[(1 .. k) \ {Max(1 .. k)}], list[Max(1 .. k)])
      <4> HIDE DEF K
      <4> QED BY <1>7, <2>1, <3>1
    <3> HIDE DEF K, F
    <3> QED BY <2>1, <3>1, <3>2, MaxOfPrefix
  <2>4. F[0] = Empty
    <3> HIDE DEF K
    <3> QED BY <1>7, <2>2
  <2> QED BY <2>3, <2>4
<1>9. F[4] = K[DOMAIN list]
  BY <1>1
<1> HIDE DEF F, K
<1> QED BY <1>2, <1>8, <1>9 DEF Do, list

\* What is told of a bucket: the costs of storage and of requests, and of the two directions.
LEMMA BucketIsTold ==
    ASSUME NEW ai, Reaches(ai), NEW range \in Ranges, NEW r, r \notin NotABucket
    PROVE  LET d       == S3Costs(ai, range)
               Spent(kind) == CostSum(InResource(UsageOf(ai, range, kind), r))
           IN InfoOf(d, r) = [storage   |-> Spent("storage"), requests |-> Spent("requests"),
                              bandwidth |-> Spent("bandwidthIn") + Spent("bandwidthOut")]
<1> DEFINE Spent(kind) == CostSum(InResource(UsageOf(ai, range, kind), r))
<1>1. PICK F : /\ F[0] = Empty
               /\ \A k \in 1 .. 4 : F[k] = Parsed(F[k - 1], KindsInOrder[k], UsageOf(ai, range, KindsInOrder[k]))
               /\ S3Costs(ai, range) = F[4]
  BY RequestByRequest
<1>2. ASSUME NEW kind \in Kinds PROVE UsageOf(ai, range, kind) \in SUBSET LineItems /\ Spent(kind) \in Int
  <2>1. UsageOf(ai, range, kind) \in SUBSET LineItems
    BY FilteredIsAsked DEF UsageOf
  <2>2. InResource(UsageOf(ai, range, kind), r) \in SUBSET LineItems
    BY <2>1 DEF InResource
  <2> QED BY <2>1, <2>2, CostSumIsTotal
<1>3. /\ F[1] = Parsed(F[0], "storage", UsageOf(ai, range, "storage"))
      /\ F[2] = Parsed(F[1], "requests", UsageOf(ai, range, "requests"))
      /\ F[3] = Parsed(F[2], "bandwidthIn", UsageOf(ai, range, "bandwidthIn"))
      /\ F[4] = Parsed(F[3], "bandwidthOut", UsageOf(ai, range, "bandwidthOut"))
  <2>1. /\ KindsInOrder[1] = "storage" /\ KindsInOrder[2] = "requests"
        /\ KindsInOrder[3] = "bandwidthIn" /\ KindsInOrder[4] = "bandwidthOut"
    BY DEF KindsInOrder
  <2>2. \A k \in 1 .. 4 : F[k] = Parsed(F[k - 1], KindsInOrder[k], UsageOf(ai, range, KindsInOrder[k]))
    BY <1>1
  <2>3. 1 \in 1 .. 4 /\ 2 \in 1 .. 4 /\ 3 \in 1 .. 4 /\ 4 \in 1 .. 4 /\ 1 - 1 = 0 /\ 2 - 1 = 1 /\ 3 - 1 = 2 /\ 4 - 1 = 3
    OBVIOUS
  <2> HIDE DEF KindsInOrder
  <2> QED BY <2>1, <2>2, <2>3
<1>4. {"storage", "requests", "bandwidthIn", "bandwidthOut"} \subseteq Kinds
  BY DEF Kinds
<1> HIDE DEF Spent
<1>5. F[0] \in S3Buckets /\ InfoOf(F[0], r) = NoCosts
  <2>1. Empty \in [{} -> Info] /\ DOMAIN Empty = {}
    BY DEF Empty
  <2> QED BY <1>1, <2>1 DEF S3Buckets, InfoOf
<1>6. F[1] \in S3Buckets /\ InfoOf(F[1], r) = [storage |-> Spent("storage"), requests |-> 0, bandwidth |-> 0]
  <2>1. F[1] \in S3Buckets /\ InfoOf(F[1], r) = [InfoOf(F[0], r) EXCEPT !.storage = Spent("storage")]
    <3>1. InfoOf(F[0], r).storage = 0
      BY <1>5 DEF NoCosts
    <3> QED BY <1>2, <1>3, <1>4, <1>5, <3>1, ParsedIs DEF Spent
  <2> QED BY <1>5, <2>1 DEF NoCosts
<1>7. F[2] \in S3Buckets /\ InfoOf(F[2], r) = [storage |-> Spent("storage"), requests |-> Spent("requests"), bandwidth |-> 0]
  <2>1. F[2] \in S3Buckets /\ InfoOf(F[2], r) = [InfoOf(F[1], r) EXCEPT !.requests = Spent("requests")]
    <3>1. InfoOf(F[1], r).requests = 0
      BY <1>6
    <3> QED BY <1>2, <1>3, <1>4, <1>6, <3>1, ParsedIs DEF Spent
  <2> QED BY <1>6, <2>1
<1>8. /\ F[3] \in S3Buckets
      /\ InfoOf(F[3], r) = [storage |-> Spent("storage"), requests |-> Spent("requests"), bandwidth |-> Spent("bandwidthIn")]
  <2>1. F[3] \in S3Buckets /\ InfoOf(F[3], r) = [InfoOf(F[2], r) EXCEPT !.bandwidth = InfoOf(F[2], r).bandwidth + Spent("bandwidthIn")]
    BY <1>2, <1>3, <1>4, <1>7, ParsedIs DEF Spent
  <2> QED BY <1>2, <1>4, <1>7, <2>1
<1>9. InfoOf(F[4], r) = [storage |-> Spent("storage"), requests |-> Spent("requests"),
                         bandwidth |-> Spent("bandwidthIn") + Spent("bandwidthOut")]
  <2>1. InfoOf(F[4], r) = [InfoOf(F[3], r) EXCEPT !.bandwidth = InfoOf(F[3], r).bandwidth + Spent("bandwidthOut")]
    BY <1>2, <1>3, <1>4, <1>8, ParsedIs DEF Spent
  <2> QED BY <1>8, <2>1
<1> QED BY <1>1, <1>9 DEF Spent

LEMMA KindsAreFinite == IsFiniteSet(Kinds)
<1> DEFINE f == KindsInOrder
<1>1. IsFiniteSet(1 .. 4)
  BY 1 \in Int, 4 \in Int, FS_Interval
<1>2. f[1] = "storage" /\ f[2] = "requests" /\ f[3] = "bandwidthIn" /\ f[4] = "bandwidthOut"
  BY DEF KindsInOrder
<1>3. Kinds = {f[k] : k \in 1 .. 4}
  <2> HIDE DEF f
  <2>1. 1 .. 4 = {1, 2, 3, 4}
    OBVIOUS
  <2> QED BY <1>2, <2>1 DEF Kinds
<1> HIDE DEF f
<1> QED BY <1>1, <1>3, FiniteImage

\* A sum over the four kinds.
LEMMA SumOfKinds ==
    ASSUME NEW g, DOMAIN g = Kinds, \A k \in Kinds : g[k] \in Int
    PROVE  SumOf(g) = g["storage"] + g["requests"] + g["bandwidthIn"] + g["bandwidthOut"]
<1> DEFINE A == {"bandwidthOut"}
           B == {"bandwidthIn", "bandwidthOut"}
           C == {"requests", "bandwidthIn", "bandwidthOut"}
<1>1. IsFiniteSet(A) /\ IsFiniteSet(B) /\ IsFiniteSet(C) /\ IsFiniteSet(Kinds)
  <2>1. IsFiniteSet(Kinds)
    BY KindsAreFinite
  <2>2. A \subseteq Kinds /\ B \subseteq Kinds /\ C \subseteq Kinds
    BY DEF Kinds
  <2> HIDE DEF A, B, C
  <2> QED BY <2>1, <2>2, FS_Subset
<1>2. A \ {"bandwidthOut"} = {} /\ B \ {"bandwidthIn"} = A /\ C \ {"requests"} = B /\ Kinds \ {"storage"} = C
  BY DEF Kinds
<1>3. /\ "bandwidthOut" \in A /\ "bandwidthIn" \in B /\ "requests" \in C /\ "storage" \in Kinds
      /\ A \subseteq Kinds /\ B \subseteq Kinds /\ C \subseteq Kinds
  BY DEF Kinds
<1> HIDE DEF A, B, C
<1>4. TotalOf(g, A) = g["bandwidthOut"] + TotalOf(g, {}) /\ TotalOf(g, {}) = 0
  BY <1>1, <1>2, <1>3, TotalAdd, TotalEmpty
<1>5. TotalOf(g, B) = g["bandwidthIn"] + TotalOf(g, A)
  BY <1>1, <1>2, <1>3, TotalAdd
<1>6. TotalOf(g, C) = g["requests"] + TotalOf(g, B)
  BY <1>1, <1>2, <1>3, TotalAdd
<1>7. TotalOf(g, Kinds) = g["storage"] + TotalOf(g, C)
  BY <1>1, <1>2, <1>3, TotalAdd
<1>8. SumOf(g) = TotalOf(g, Kinds)
  BY <1>1, SumOfIsTotal
<1>9. g["storage"] \in Int /\ g["requests"] \in Int /\ g["bandwidthIn"] \in Int /\ g["bandwidthOut"] \in Int
  BY DEF Kinds
<1> QED BY <1>4, <1>5, <1>6, <1>7, <1>8, <1>9

LEMMA S3Adds == ASSUME NEW ai, Reaches(ai), NEW range \in Ranges PROVE S3AddsUp(ai, range)
<1> SUFFICES ASSUME NEW r, r \notin NotABucket
             PROVE  LET d == S3Costs(ai, range) IN
                    (IF r \in DOMAIN d THEN d[r].storage + d[r].requests + d[r].bandwidth ELSE 0)
                        = CostSum({i \in Asked(ai, range) : /\ i.product = S3 /\ i.resource = r
                                                            /\ \E k \in Kinds : Patterns(k) \subseteq i.marks})
  BY DEF S3AddsUp
<1> DEFINE d == S3Costs(ai, range)
           U == {i \in Asked(ai, range) : /\ i.product = S3 /\ i.resource = r
                                          /\ \E k \in Kinds : Patterns(k) \subseteq i.marks}
           T(kind) == InResource(UsageOf(ai, range, kind), r)
           g == [k \in Kinds |-> CostSum(T(k))]
           Kind(i) == CHOOSE k \in Kinds : Patterns(k) \subseteq i.marks
           key == [i \in U |-> Kind(i)]
<1>1. U \in SUBSET LineItems /\ \A i \in U : i.product = S3
  BY DEF Asked
<1>2. \A i \in U : key[i] \in Kinds /\ Patterns(key[i]) \subseteq i.marks
  <2>1. \A i \in U : Kind(i) \in Kinds /\ Patterns(Kind(i)) \subseteq i.marks
    OBVIOUS
  <2> HIDE DEF Kind, U
  <2> QED BY <2>1
<1>3. ASSUME NEW k \in Kinds PROVE T(k) = {i \in U : key[i] = k}
  <2>1. T(k) = {i \in U : Patterns(k) \subseteq i.marks}
    BY FilteredIsAsked DEF InResource, UsageOf
  <2>2. ASSUME NEW i \in U PROVE Patterns(k) \subseteq i.marks <=> key[i] = k
    <3>1. ASSUME Patterns(k) \subseteq i.marks PROVE key[i] = k
      <4>1. Patterns(key[i]) \cup Patterns(k) \subseteq i.marks /\ key[i] \in Kinds /\ i \in LineItems /\ i.product = S3
        BY <1>1, <1>2, <3>1
      <4> HIDE DEF key
      <4> QED BY <4>1, LineItemsAssumption
    <3> HIDE DEF key, U
    <3> QED BY <1>2, <3>1
  <2> HIDE DEF T, key, U
  <2> QED BY <2>1, <2>2
<1>4. \A k \in Kinds : g[k] = CostSum({i \in U : key[i] = k}) /\ g[k] \in Int
  <2> SUFFICES ASSUME NEW k \in Kinds PROVE g[k] = CostSum({i \in U : key[i] = k}) /\ g[k] \in Int
    OBVIOUS
  <2>1. g[k] = CostSum(T(k)) /\ T(k) = {i \in U : key[i] = k}
    BY <1>3
  <2>2. T(k) \in SUBSET LineItems
    BY <1>1, <2>1
  <2> HIDE DEF T, g, U, key
  <2> QED BY <2>1, <2>2, CostSumIsTotal
<1>5. DOMAIN g = Kinds
  OBVIOUS
<1>6. g["storage"] = CostSum(T("storage")) /\ g["requests"] = CostSum(T("requests"))
      /\ g["bandwidthIn"] = CostSum(T("bandwidthIn")) /\ g["bandwidthOut"] = CostSum(T("bandwidthOut"))
  BY DEF Kinds
<1> HIDE DEF g, key, U
<1>7. SumOf(g) = CostSum(U)
  <2>1. IsFiniteSet(Kinds)
    BY KindsAreFinite
  <2>2. IsFiniteSet(DOMAIN g) /\ \A i \in U : key[i] \in DOMAIN g
    BY <1>2, <1>5, <2>1
  <2>3. \A k \in DOMAIN g : g[k] = CostSum({i \in U : key[i] = k})
    BY <1>4, <1>5
  <2> QED BY <1>1, <2>2, <2>3, CostsOfClasses
<1>8. SumOf(g) = g["storage"] + g["requests"] + g["bandwidthIn"] + g["bandwidthOut"]
  BY <1>4, <1>5, SumOfKinds
<1>9. InfoOf(d, r) = [storage   |-> g["storage"], requests |-> g["requests"],
                      bandwidth |-> g["bandwidthIn"] + g["bandwidthOut"]]
  BY <1>6, BucketIsTold
<1>10. \A k \in Kinds : g[k] \in Int
  BY <1>4
<1>11. g["storage"] \in Int /\ g["requests"] \in Int /\ g["bandwidthIn"] \in Int /\ g["bandwidthOut"] \in Int
  BY <1>10 DEF Kinds
<1>12. InfoOf(d, r).storage + InfoOf(d, r).requests + InfoOf(d, r).bandwidth = CostSum(U)
  BY <1>7, <1>8, <1>9, <1>11
<1>13. (IF r \in DOMAIN d THEN d[r].storage + d[r].requests + d[r].bandwidth ELSE 0)
           = InfoOf(d, r).storage + InfoOf(d, r).requests + InfoOf(d, r).bandwidth
  <2> HIDE DEF d
  <2> QED BY DEF InfoOf, NoCosts
<1> QED BY <1>12, <1>13 DEF U, d

-----------------------------------------------------------------------------
(* Costs by criteria *)

BucketNames == Int \cup {i[c] : i \in LineItems, c \in Simple}
CostBuckets == SUBSET (Seq(BucketNames) \X SUBSET LineItems)

\* Each of the line items S is in one of the buckets, whose paths differ.
IsPartition(B, S) ==
    /\ IsFiniteSet(B) /\ B \in CostBuckets
    /\ \A b, c \in B : b[1] = c[1] => b = c
    /\ \A b \in B : b[2] \subseteq S
    /\ \A i \in S : \E b \in B : i \in b[2]
    /\ \A b, c \in B : \A i : i \in b[2] /\ i \in c[2] => b = c

LEMMA PathsDiffer ==
    ASSUME NEW T, NEW p \in Seq(T), NEW q \in Seq(T), NEW k, NEW l, Append(p, k) = Append(q, l)
    PROVE  p = q /\ k = l
OBVIOUS

LEMMA KeysAreNames ==
    ASSUME NEW S \in SUBSET LineItems, NEW c \in Simple
    PROVE  BucketKeys(c, S) \subseteq BucketNames
<1>1. CASE c \in DOMAIN Span /\ S # {}
  <2>1. BucketKeys(c, S) \subseteq Int
    BY <1>1 DEF BucketKeys
  <2> QED BY <2>1 DEF BucketNames
<1>2. CASE c \in DOMAIN Span /\ S = {}
  BY <1>2 DEF BucketKeys
<1>3. CASE c \notin DOMAIN Span
  BY <1>3 DEF BucketKeys, KeyOf, BucketNames
<1> QED BY <1>1, <1>2, <1>3

\* A bucket of a bucket.
Part(b, c, k) == <<Append(b[1], k), InBucket(c, k, b[2])>>
Parts(b, c) == {Part(b, c, k) : k \in BucketKeys(c, b[2])}

LEMMA NestedIs ==
    ASSUME NEW B, NEW c
    PROVE  /\ Nested(B, c) = UNION {Parts(b, c) : b \in B}
           /\ \A n : n \in Nested(B, c) <=> \E b \in B : \E k \in BucketKeys(c, b[2]) : n = Part(b, c, k)
<1>1. Nested(B, c) = UNION {Parts(b, c) : b \in B}
  BY DEF Nested, Parts, Part
<1>2. \A n, b : n \in Parts(b, c) <=> \E k \in BucketKeys(c, b[2]) : n = Part(b, c, k)
  BY DEF Parts
<1> QED BY <1>1, <1>2

\* Buckets of buckets stay buckets.
LEMMA NestedType ==
    ASSUME NEW B \in CostBuckets, NEW c \in Simple
    PROVE  /\ Nested(B, c) \in CostBuckets
           /\ \A b \in B : b[1] \in Seq(BucketNames) /\ b[2] \in SUBSET LineItems /\ b = <<b[1], b[2]>>
<1>1. \A b \in B : b[1] \in Seq(BucketNames) /\ b[2] \in SUBSET LineItems /\ b = <<b[1], b[2]>>
  BY DEF CostBuckets
<1>2. ASSUME NEW b \in B, NEW k \in BucketKeys(c, b[2]) PROVE Part(b, c, k) \in Seq(BucketNames) \X SUBSET LineItems
  <2>1. k \in BucketNames
    BY <1>1, KeysAreNames
  <2>2. Append(b[1], k) \in Seq(BucketNames)
    BY <1>1, <2>1
  <2>3. InBucket(c, k, b[2]) \in SUBSET LineItems
    BY <1>1 DEF InBucket
  <2> QED BY <2>2, <2>3 DEF Part
<1>3. \A n \in Nested(B, c) : n \in Seq(BucketNames) \X SUBSET LineItems
  BY <1>2, NestedIs
<1> QED BY <1>1, <1>3 DEF CostBuckets

\* A criterion more.
LEMMA NestedPartition ==
    ASSUME NEW S \in SUBSET LineItems, NEW B, IsPartition(B, S), NEW c \in Simple
    PROVE  IsPartition(Nested(B, c), S)
<1> DEFINE N == Nested(B, c)
<1>1. /\ IsFiniteSet(B) /\ B \in CostBuckets
      /\ \A a, b \in B : a[1] = b[1] => a = b
      /\ \A b \in B : b[2] \subseteq S
      /\ \A i \in S : \E b \in B : i \in b[2]
      /\ \A a, b \in B : \A i : i \in a[2] /\ i \in b[2] => a = b
  BY DEF IsPartition
<1>2. \A b \in B : b[1] \in Seq(BucketNames) /\ b[2] \in SUBSET LineItems
  BY <1>1, NestedType
<1>3. IsFiniteSet(N)
  <2>1. ASSUME NEW b \in B PROVE IsFiniteSet(Parts(b, c))
    <3> DEFINE f == [k \in BucketKeys(c, b[2]) |-> Part(b, c, k)]
    <3>1. IsFiniteSet(BucketKeys(c, b[2]))
      BY <1>2, KeysCover
    <3>2. Parts(b, c) = {f[k] : k \in BucketKeys(c, b[2])}
      BY DEF Parts
    <3> HIDE DEF f
    <3>3. IsFiniteSet({f[k] : k \in BucketKeys(c, b[2])})
      BY <3>1, FiniteImage
    <3> QED BY <3>2, <3>3
  <2> DEFINE f == [b \in B |-> Parts(b, c)]
             U == {f[b] : b \in B}
  <2>2. U = {Parts(b, c) : b \in B} /\ \A T \in U : IsFiniteSet(T)
    BY <2>1
  <2>3. IsFiniteSet(U)
    <3> HIDE DEF f
    <3> QED BY <1>1, FiniteImage
  <2> HIDE DEF U
  <2>4. IsFiniteSet(UNION U)
    BY <2>2, <2>3, FS_UNION
  <2> QED BY <2>2, <2>4, NestedIs
<1>4. N \in CostBuckets
  BY <1>1, NestedType
<1>5. \A n \in N : \E b \in B : \E k \in BucketKeys(c, b[2]) : n = Part(b, c, k)
  BY NestedIs
<1>6. \A b, k : Part(b, c, k)[1] = Append(b[1], k) /\ \A i : i \in Part(b, c, k)[2] <=> i \in b[2] /\ KeyOf(c, i) = k
  BY DEF Part, InBucket
<1> HIDE DEF N
<1>7. ASSUME NEW m \in N, NEW n \in N, m[1] = n[1] PROVE m = n
  <2>1. PICK a \in B : \E k \in BucketKeys(c, a[2]) : m = Part(a, c, k)
    BY <1>5
  <2>2. PICK k : m = Part(a, c, k)
    BY <2>1
  <2>3. PICK b \in B : \E l \in BucketKeys(c, b[2]) : n = Part(b, c, l)
    BY <1>5
  <2>4. PICK l : n = Part(b, c, l)
    BY <2>3
  <2>5. Append(a[1], k) = Append(b[1], l)
    BY <1>6, <1>7, <2>2, <2>4
  <2>6. a[1] = b[1] /\ k = l
    BY <1>2, <2>5, PathsDiffer
  <2> QED BY <1>1, <2>2, <2>4, <2>6
<1>8. ASSUME NEW m \in N, NEW i \in m[2] PROVE i \in S
  <2>1. PICK a \in B : \E k \in BucketKeys(c, a[2]) : m = Part(a, c, k)
    BY <1>5
  <2> QED BY <1>1, <1>6, <1>8, <2>1
<1>9. ASSUME NEW i \in S PROVE \E n \in N : i \in n[2]
  <2>1. PICK b \in B : i \in b[2]
    BY <1>1
  <2>2. KeyOf(c, i) \in BucketKeys(c, b[2])
    BY <1>2, <2>1, KeysCover
  <2>3. Part(b, c, KeyOf(c, i)) \in N
    BY <2>2, NestedIs DEF N
  <2> QED BY <1>6, <2>1, <2>3
<1>10. ASSUME NEW m \in N, NEW n \in N, NEW i, i \in m[2], i \in n[2] PROVE m = n
  <2>1. PICK a \in B : \E k \in BucketKeys(c, a[2]) : m = Part(a, c, k)
    BY <1>5
  <2>2. PICK k : m = Part(a, c, k)
    BY <2>1
  <2>3. PICK b \in B : \E l \in BucketKeys(c, b[2]) : n = Part(b, c, l)
    BY <1>5
  <2>4. PICK l : n = Part(b, c, l)
    BY <2>3
  <2>5. i \in a[2] /\ i \in b[2] /\ k = l
    BY <1>6, <1>10, <2>2, <2>4
  <2> QED BY <1>1, <2>2, <2>4, <2>5
<1>11. IsPartition(N, S)
  BY <1>3, <1>4, <1>7, <1>8, <1>9, <1>10 DEF IsPartition
<1> QED BY <1>11 DEF N

\* One bucket with everything.
Whole(S) == {<<<<>>, S>>}

LEMMA OnePartition ==
    ASSUME NEW S \in SUBSET LineItems
    PROVE  IsPartition(Whole(S), S) /\ Whole(S) \in CostBuckets
<1> DEFINE b == <<<<>>, S>>
<1>1. IsFiniteSet({b})
  BY FS_Singleton
<1>2. {b} \in CostBuckets
  <2>1. <<>> \in Seq(BucketNames)
    OBVIOUS
  <2>2. b \in Seq(BucketNames) \X SUBSET LineItems
    BY <2>1
  <2> HIDE DEF b
  <2> QED BY <2>2 DEF CostBuckets
<1>3. b[2] = S
  OBVIOUS
<1> HIDE DEF b
<1>4. IsPartition({b}, S)
  BY <1>1, <1>2, <1>3 DEF IsPartition
<1> QED BY <1>2, <1>4 DEF b, Whole

\* The aggregations of a query, criterion by criterion.
LEMMA CriterionByCriterion ==
    ASSUME NEW ai, NEW range \in Ranges, NEW by \in Seq(Simple)
    PROVE  \E F : /\ F[0] = Whole(Filtered(ai, range))
                  /\ \A k \in 1 .. Len(by) : F[k] = Nested(F[k - 1], by[k])
                  /\ Aggregated(ai, range, by) = F[Len(by)]
<1> DEFINE n == Len(by)
           Z == CostBuckets
           base == Whole(Filtered(ai, range))
           step == [x \in (1 .. n) \X Z |-> Nested(x[2], by[x[1]])]
           Body(k) == [s \in SUBSET (1 .. n) |-> IF s = {} THEN base ELSE Nested(k[s \ {Max(s)}], by[Max(s)])]
           K == CHOOSE k : k = Body(k)
           F == [k \in 0 .. n |-> K[1 .. k]]
<1>1. n \in Nat /\ DOMAIN by = 1 .. n /\ \A k \in 1 .. n : by[k] \in Simple
  OBVIOUS
<1>2. Aggregated(ai, range, by) = K[DOMAIN by]
  BY <1>1 DEF Aggregated, FoldLeft, MapThenFoldSet, Whole
<1>3. step \in [(1 .. n) \X Z -> Z]
  <2>1. ASSUME NEW k \in 1 .. n, NEW B \in Z PROVE Nested(B, by[k]) \in Z
    BY <1>1, NestedType
  <2> HIDE DEF Z, n
  <2> QED BY <2>1
<1>4. base \in Z
  BY FilteredIsAsked, OnePartition
<1> HIDE DEF base
<1>5. PICK h \in [SUBSET (1 .. n) -> Z] : FoldsLeft(h, n, base, step)
  <2> HIDE DEF step, Z, n
  <2> QED BY <1>1, <1>3, <1>4, LeftRecursion
<1>6. h = Body(h)
  <2>1. ASSUME NEW s \in SUBSET (1 .. n), s # {}
        PROVE  step[<<Max(s), h[s \ {Max(s)}]>>] = Nested(h[s \ {Max(s)}], by[Max(s)])
    <3>1. Max(s) \in 1 .. n /\ h[s \ {Max(s)}] \in Z
      BY <1>1, <2>1, MaxIn
    <3> HIDE DEF Z
    <3> QED BY <3>1
  <2> HIDE DEF step
  <2> QED BY <1>5, <2>1 DEF FoldsLeft
<1>7. K = Body(K)
  <2> HIDE DEF Body
  <2> QED BY <1>6
<1>8. F[0] = base /\ \A k \in 1 .. n : F[k] = Nested(F[k - 1], by[k])
  <2>1. ASSUME NEW k \in 0 .. n PROVE F[k] = K[1 .. k] /\ (1 .. k) \in SUBSET (1 .. n)
    BY <1>1
  <2>2. 1 .. 0 = {}
    OBVIOUS
  <2>3. ASSUME NEW k \in 1 .. n PROVE F[k] = Nested(F[k - 1], by[k])
    <3>1. k \in Nat /\ k # 0 /\ k \in 0 .. n /\ k - 1 \in 0 .. n /\ 1 .. k # {}
      BY <1>1
    <3>2. K[1 .. k] = Nested(K[(1 .. k) \ {Max(1 .. k)}], by[Max(1 .. k)])
      <4> HIDE DEF K
      <4> QED BY <1>7, <2>1, <3>1
    <3> HIDE DEF K, F
    <3> QED BY <2>1, <3>1, <3>2, MaxOfPrefix
  <2>4. F[0] = base
    <3> HIDE DEF K
    <3> QED BY <1>1, <1>7, <2>2
  <2> QED BY <2>3, <2>4
<1>9. F[n] = K[DOMAIN by]
  BY <1>1
<1> HIDE DEF F, K
<1> QED BY <1>2, <1>8, <1>9 DEF base

\* However many criteria there are, each line item is in one bucket.
LEMMA AggregatedIs ==
    ASSUME NEW ai, NEW range \in Ranges, NEW by \in Seq(Simple)
    PROVE  IsPartition(Aggregated(ai, range, by), Filtered(ai, range))
<1>1. PICK F : /\ F[0] = Whole(Filtered(ai, range))
               /\ \A k \in 1 .. Len(by) : F[k] = Nested(F[k - 1], by[k])
               /\ Aggregated(ai, range, by) = F[Len(by)]
  BY CriterionByCriterion
<1> DEFINE n == Len(by)
           S == Filtered(ai, range)
<1>0. /\ F[0] = Whole(S)
      /\ \A k \in 1 .. n : F[k] = Nested(F[k - 1], by[k])
      /\ Aggregated(ai, range, by) = F[n]
  BY <1>1
<1>2. n \in Nat /\ \A k \in 1 .. n : by[k] \in Simple
  OBVIOUS
<1>3. S \in SUBSET LineItems
  BY FilteredIsAsked
<1> DEFINE P == {k \in 0 .. n : IsPartition(F[k], S)}
<1> HIDE DEF n, S
<1>4. 0 \in P
  BY <1>0, <1>2, <1>3, OnePartition
<1>5. ASSUME NEW k \in 1 .. n, k - 1 \in P PROVE k \in P
  <2>1. IsPartition(F[k - 1], S) /\ F[k] = Nested(F[k - 1], by[k]) /\ by[k] \in Simple
    BY <1>0, <1>2, <1>5
  <2>2. IsPartition(F[k], S)
    BY <1>3, <2>1, NestedPartition
  <2> QED BY <1>2, <2>2
<1>6. 0 .. n \subseteq P
  <2> HIDE DEF P
  <2> QED BY <1>2, <1>4, <1>5, UpTo
<1>7. n \in P
  BY <1>2, <1>6
<1> QED BY <1>0, <1>7 DEF S

\* What is left of the buckets, their paths and costs, adds up.
LEMMA SimplifiedAddsUp ==
    ASSUME NEW S \in SUBSET LineItems, NEW B, IsPartition(B, S)
    PROVE  SumOf(Simplified(B)) = CostSum(S)
<1> DEFINE paths  == {b[1] : b \in B}
           Home(i) == CHOOSE b \in B : i \in b[2]
           key    == [i \in S |-> Home(i)[1]]
           g      == Simplified(B)
<1>1. /\ IsFiniteSet(B)
      /\ \A a, b \in B : a[1] = b[1] => a = b
      /\ \A b \in B : b[2] \subseteq S
      /\ \A i \in S : \E b \in B : i \in b[2]
      /\ \A a, b \in B : \A i : i \in a[2] /\ i \in b[2] => a = b
  BY DEF IsPartition
<1>2. \A i \in S : Home(i) \in B /\ i \in Home(i)[2] /\ key[i] = Home(i)[1]
  BY <1>1
<1> HIDE DEF Home, key
<1>3. ASSUME NEW b \in B
      PROVE  {i \in S : key[i] = b[1]} = b[2] /\ UNION {a[2] : a \in {d \in B : d[1] = b[1]}} = b[2]
  <2>1. \A i \in S : key[i] = b[1] <=> i \in b[2]
    BY <1>1, <1>2
  <2>2. {d \in B : d[1] = b[1]} = {b}
    BY <1>1
  <2> QED BY <1>1, <2>1, <2>2
<1>4. DOMAIN g = paths /\ \A p \in paths : g[p] = CostSum(UNION {b[2] : b \in {c \in B : c[1] = p}})
  BY DEF Simplified
<1> HIDE DEF g
<1>5. ASSUME NEW p \in DOMAIN g PROVE g[p] = CostSum({i \in S : key[i] = p})
  <2>1. PICK b \in B : p = b[1]
    BY <1>4
  <2>2. g[p] = CostSum(UNION {a[2] : a \in {d \in B : d[1] = b[1]}})
    BY <1>4, <2>1
  <2> QED BY <1>3, <2>1, <2>2
<1>6. IsFiniteSet(DOMAIN g)
  <2> DEFINE f == [b \in B |-> b[1]]
  <2>1. paths = {f[b] : b \in B}
    OBVIOUS
  <2> HIDE DEF f, paths
  <2>2. IsFiniteSet({f[b] : b \in B})
    BY <1>1, FiniteImage
  <2> QED BY <1>4, <2>1, <2>2
<1>7. \A i \in S : key[i] \in DOMAIN g
  BY <1>2, <1>4
<1>8. SumOf(g) = CostSum(S)
  BY <1>5, <1>6, <1>7, CostsOfClasses
<1> QED BY <1>8 DEF g

\* Whatever the criteria, the costs add up.
LEMMA CriteriaAddUp ==
    ASSUME NEW ai, Reaches(ai), NEW range \in Ranges, NEW by \in Seq(Simple)
    PROVE  SumOf(CostData(ai, range, by)) = CostSum(Asked(ai, range))
<1>1. ToSet(by) \subseteq Simple
  BY ValuesAre DEF ToSet
<1>2. CostData(ai, range, by) = Simplified(Aggregated(ai, range, by))
  BY <1>1 DEF CostData
<1> QED BY <1>2, AggregatedIs, FilteredIsAsked, SimplifiedAddsUp

LEMMA BreakdownsAdd == ASSUME NEW ai, Reaches(ai), NEW range \in Ranges PROVE BreakdownsAddUp(ai, range)
<1>1. \A by \in Breakdowns : by \in Seq(Simple)
  <2>1. {"account", "day", "month"} \subseteq Simple
    BY Periods DEF Simple
  <2>2. \A c, d \in Simple : <<c>> \in Seq(Simple) /\ <<c, d>> \in Seq(Simple)
    <3> SUFFICES ASSUME NEW T, NEW c \in T, NEW d \in T PROVE <<c>> \in Seq(T) /\ <<c, d>> \in Seq(T)
      OBVIOUS
    <3> QED OBVIOUS
  <2> SUFFICES ASSUME NEW by \in Breakdowns PROVE by \in Seq(Simple)
    OBVIOUS
  <2>3. (\E c \in Simple : by = <<c>>) \/ \E c \in Simple, d \in {"account", "day", "month"} : by = <<c, d>>
    BY DEF Breakdowns
  <2> QED BY <2>1, <2>2, <2>3
<1> QED BY <1>1, CriteriaAddUp DEF BreakdownsAddUp

\* No answer is wrong, and none leaves out what the user may read.
CostsOfAll == \A u \in Users : \A S : \A list \in Seq(S) : CostsAreWhole(u, list)

LEMMA CostsFollow == tables \in Tables => CostsOfAll /\ CostsAddUp
<1> SUFFICES ASSUME tables \in Tables PROVE CostsOfAll /\ CostsAddUp
  OBVIOUS
<1>1. Mistold = {}
  <2>1. ASSUME NEW a, Reaches(a), NEW range \in Ranges
        PROVE  BreakdownsAddUp(a, range) /\ DiffsAddUp(a, range) /\ TagsAddUp(a, range) /\ S3AddsUp(a, range)
    BY <2>1, BreakdownsAdd, DiffsAdd, TagsAdd, S3Adds
  <2>2. \A q \in [accounts : SUBSET {i.account : i \in LineItems}, indexes : SUBSET Users] \X Ranges : q[2] \in Ranges
    OBVIOUS
  <2> QED BY <2>1, <2>2 DEF Mistold
<1>2. ASSUME NEW u \in Users, NEW S, NEW list \in Seq(S) PROVE CostsAreWhole(u, list)
  <2> DEFINE all  == AllAccountsAndIndexes(tables, u)
             ai   == AccountsAndIndexes(tables, u, list)
             want == IF list = <<>> THEN all.accounts ELSE ToSet(list)
  <2>1. SUFFICES ASSUME ai # Refused
                 PROVE  /\ ai \notin Mistold
                        /\ \A i \in LineItems : i.account \in want =>
                               i.account \in ai.accounts /\ \E o \in ai.indexes : Grants(u, i.account, o) # {}
    BY DEF CostsAreWhole
  <2>2. IsSourced(u, ai) /\ ai.accounts = want
    BY <2>1, AccountsAndIndexesAre
  <2> HIDE DEF ai, want, all
  <2>3. PICK f : Sourced(u, ai, f)
    BY <2>2 DEF IsSourced
  <2>4. ASSUME NEW i \in LineItems, i.account \in want
        PROVE  i.account \in ai.accounts /\ \E o \in ai.indexes : Grants(u, i.account, o) # {}
    BY <2>2, <2>3, <2>4 DEF Sourced
  <2> QED BY <1>1, <2>4
<1>3. CostsOfAll
  BY <1>2, Zenon DEF CostsOfAll
<1>4. ASSUME NEW u \in Users, NEW list \in Lists(AllAccountsAndIndexes(tables, u).accounts)
      PROVE  CostsAreWhole(u, list)
  <2>1. list \in Seq(AllAccountsAndIndexes(tables, u).accounts)
    BY ListsAre
  <2> QED BY <1>2, <2>1, Zenon
<1> QED BY <1>3, <1>4, Zenon DEF CostsAddUp

-----------------------------------------------------------------------------
(* What is answered, in every behaviour *)

\* The documents have their types and the tables are as they were.
QueriesInv == CoreInv /\ tables \in Tables

LEMMA ShownHasTypes == CoreInv => ShownIs
<1> SUFFICES ASSUME CoreInv, NEW x \in DOMAIN shown
             PROVE  /\ x \in Keys /\ shown[x].value \in Nat /\ shown[x].maxExpected \in Seq(Nat)
                    /\ shown[x].abnormal \in BOOLEAN /\ shown[x].recurrent \in BOOLEAN
  BY DEF ShownIs
<1>1. x \in Keys /\ shown[x] \in Doc
  BY DEF CoreInv, TypesInv, IsDocs
<1>2. ASSUME NEW s \in Seq(Costs) PROVE s \in Seq(Nat)
  <2>1. \A i \in 1 .. Len(s) : s[i] \in Costs
    OBVIOUS
  <2>2. \A i \in 1 .. Len(s) : s[i] \in Nat
    BY <2>1, CostsAreNat
  <2> QED BY <2>2
<1> QED BY <1>1, <1>2, CostsAreNat DEF Doc

LEMMA QueriesHold == QSpec => []QueriesInv
<1>1. QInit => QueriesInv
  BY InitCore DEF QInit, QueriesInv
<1>2. QueriesInv /\ [QNext]_<<vars, tables>> => QueriesInv'
  <2> SUFFICES ASSUME QueriesInv, [QNext]_<<vars, tables>> PROVE QueriesInv'
    OBVIOUS
  <2>1. [Next]_vars /\ tables' = tables
    BY DEF QNext
  <2> QED BY <2>1, NextCore DEF QueriesInv
<1> QED BY <1>1, <1>2, PTL DEF QSpec

\* What a user may read of accounts and indexes is what the rows of accounts and shares grant,
\* and nothing is counted twice (es/accountsSharing.go), in every state and for lists of any length.
THEOREM AccessHolds == QSpec => [](AccessOfAll /\ AccessIsExact)
<1>1. QueriesInv => AccessOfAll /\ AccessIsExact
  BY AccessFollows DEF QueriesInv
<1> QED BY <1>1, QueriesHold, PTL

\* Whoever may read the account is told of each of its anomalies, with its highest level, and as
\* filtered only if a filter says so (getAnomaliesData, anomalyFilters/).
THEOREM AlertHolds == QSpec => []AlertIsAnswered
<1>1. QueriesInv => AlertIsAnswered
  BY ShownHasTypes, AlertFollows DEF QueriesInv
<1> QED BY <1>1, QueriesHold, PTL

\* Whoever asks, for whatever accounts and dates, the answers to the four kinds of questions about
\* costs agree with the bills (costs/, costs/diff, costs/tags, s3/costs), in every state and for lists
\* of any length.
THEOREM CostsHold == QSpec => [](CostsOfAll /\ CostsAddUp)
<1>1. QueriesInv => CostsOfAll /\ CostsAddUp
  BY CostsFollow DEF QueriesInv
<1> QED BY <1>1, QueriesHold, PTL
=============================================================================
