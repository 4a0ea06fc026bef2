---------------------------- MODULE CostQueries ----------------------------
(***************************************************************************)
(* What a user is told of costs (costs/, costs/diff, costs/tags, s3/costs):*)
(* the line items of the accounts and indexes that Access gives the user,  *)
(* in a range of dates, broken down by criteria, compared from one period  *)
(* to the next, by the values of tags, or by the buckets of S3.            *)
(*                                                                         *)
(* A line item has the fields index, account, product, region,             *)
(* availabilityzone, usage (its usage type), resource, tags (pairs of key  *)
(* and value), marks (the patterns its usage type and its service match),  *)
(* time and cost.  ElasticSearch answers an aggregation with buckets, a    *)
(* key and the documents of each.                                          *)
(***************************************************************************)
EXTENDS AnomalyQueries

CONSTANTS
    LineItems,
    Span,       \* how long a day, a week, a month and a year are, in units of time
    Ranges,     \* the first and the last day that are asked for
    S3,         \* the product code of S3
    NotABucket  \* resources of S3 that are empty or an "[Error:"

ASSUME CostsAssumption ==
    /\ DOMAIN Span = {"day", "week", "month", "year"}
    /\ \A p \in DOMAIN Span : Span[p] \in Nat \ {0}
    /\ Ranges \subseteq Nat \X Nat

-----------------------------------------------------------------------------
(* Queries and aggregations *)

DateBegin(range) == range[1] * Span["day"]

\* A mistake: the last day is asked for up to its first moment.
DateEndAtMidnight(range) == range[2] * Span["day"]

\* The last second of the last day.
DateEnd(range) == (range[2] + 1) * Span["day"] - 1

\* createQueryAccountFilter, createQueryTimeRange
Filtered(ai, range) ==
    {i \in LineItems : /\ i.account \in ai.accounts /\ i.index \in ai.indexes
                       /\ DateBegin(range) <= i.time /\ i.time <= DateEnd(range)}

\* A search of a list of indexes fails if one of them is not there: the error is hidden
\* behind an answer without data.
Reaches(ai) == ai.indexes \subseteq {i.index : i \in LineItems}

CostSum(S) == MapThenSumSet(LAMBDA i: i.cost, S)

KeyOf(c, i) == IF c \in DOMAIN Span THEN i.time \div Span[c] ELSE i[c]

\* Terms aggregations have a bucket for each value, date histograms with MinDocCount(0)
\* also for the dates between the first and the last.
BucketKeys(c, S) ==
    LET keys == {KeyOf(c, i) : i \in S}
    IN IF c \in DOMAIN Span /\ S # {} THEN Min(keys) .. Max(keys) ELSE keys

InBucket(c, k, S) == {i \in S : KeyOf(c, i) = k}

-----------------------------------------------------------------------------
(* costs_route.go: a bucket is the path of its keys and the documents in it. *)

Simple == DOMAIN Span \cup {"account", "product", "region", "availabilityzone"}

\* nestAggregation
Nested(buckets, c) ==
    UNION {{<<Append(b[1], k), InBucket(c, k, b[2])>> : k \in BucketKeys(c, b[2])} : b \in buckets}

\* GetElasticSearchParams
Aggregated(ai, range, by) == FoldLeft(Nested, {<<<<>>, Filtered(ai, range)>>}, by)

\* SimplifyCostsDocument, ToJsonable: the keys and the cost of each bucket; nothing is
\* left of a bucket that has no buckets.
Simplified(buckets) ==
    [p \in {b[1] : b \in buckets} |-> CostSum(UNION {b[2] : b \in {c \in buckets : c[1] = p}})]

CostData(ai, range, by) ==
    IF ~ ToSet(by) \subseteq Simple THEN Refused
    ELSE IF Reaches(ai) THEN Simplified(Aggregated(ai, range, by)) ELSE Empty

-----------------------------------------------------------------------------
(* diff/: the costs of each usage type, from period to period *)

\* getVariations
PercentVariation(before, after) ==
    CASE before = 0 -> 0
      [] before > 0 -> ((after - before) * 100) \div before
      [] before < 0 -> ((before - after) * 100) \div (-before)

\* The histogram, whose ExtendedBounds are the dates that are asked for.
PricePoints(S, period, range) ==
    LET begin   == DateBegin(range) \div Span[period]
        end     == DateEnd(range) \div Span[period]
        Paid(n) == CostSum(InBucket(period, n, S))
    IN [n \in begin .. end |->
           [cost      |-> Paid(n),
            variation |-> IF n = begin THEN 0 ELSE PercentVariation(Paid(n - 1), Paid(n))]]

\* Requests compare weeks or months, the spreadsheet of an account its days (TaskDiffData).
DiffData(ai, range, period) ==
    LET S == Filtered(ai, range) IN
    IF ~ Reaches(ai) THEN Empty
    ELSE [u \in {i.usage : i \in S} |-> PricePoints({i \in S : i.usage = u}, period, range)]

-----------------------------------------------------------------------------
(* tags/: the aggregation on the tags of a document, and back to the document *)

TagKeys(ai, range) ==
    IF Reaches(ai) THEN UNION {{t[1] : t \in i.tags} : i \in Filtered(ai, range)} ELSE {}

\* getTagsValues: of the keys that are asked for, or of all.
TagsValues(ai, range, keys, c) ==
    LET Tagged(k)     == {i \in Filtered(ai, range) : \E t \in i.tags : t[1] = k}
        Values(k)     == {t[2] : t \in {s \in UNION {i.tags : i \in Tagged(k)} : s[1] = k}}
        WithTag(k, v) == {i \in Tagged(k) : <<k, v>> \in i.tags}
    IN IF c \notin Simple THEN Refused
       ELSE [k \in {k \in TagKeys(ai, range) : keys = {} \/ k \in keys} |->
                [v \in Values(k) |->
                    [x \in BucketKeys(c, WithTag(k, v)) |-> CostSum(InBucket(c, x, WithTag(k, v)))]]]

-----------------------------------------------------------------------------
(* s3/costs: four requests, put together by bucket *)

Kinds == {"storage", "requests", "bandwidthIn", "bandwidthOut"}

\* queryDataTypeToEsFilters
Patterns(kind) ==
    CASE kind = "storage"      -> {"TimedStorage"}
      [] kind = "requests"     -> {"Requests"}
      [] kind = "bandwidthIn"  -> {"In", "AWSDataTransfer"}
      [] kind = "bandwidthOut" -> {"Out", "AWSDataTransfer"}

\* What ElasticSearch holds: a tag has one value, and a usage type of S3 is of one kind.
ASSUME LineItemsAssumption ==
    /\ IsFiniteSet(LineItems)
    /\ \A i \in LineItems :
           /\ i.time \in Nat /\ i.cost \in Int
           /\ \A t \in i.tags : t = <<t[1], t[2]>> /\ \A s \in i.tags : s[1] = t[1] => s = t
           /\ i.product = S3 => \A j, k \in Kinds :
                  Patterns(j) \cup Patterns(k) \subseteq i.marks => j = k

UsageOf(ai, range, kind) ==
    {i \in Filtered(ai, range) : i.product = S3 /\ Patterns(kind) \subseteq i.marks}

NoCosts == [storage |-> 0, requests |-> 0, bandwidth |-> 0]

\* getBucketStorage, getBucketRequests, getBucketBandwidthIn, getBucketBandwidthOut
AddUsage(info, kind, sum) ==
    CASE kind = "storage"  -> [info EXCEPT !.storage = sum]
      [] kind = "requests" -> [info EXCEPT !.requests = sum]
      [] OTHER             -> [info EXCEPT !.bandwidth = @ + sum]

\* parseBuckets: what is known of each bucket so far, and the answer to one request.
Parsed(buckets, kind, S) ==
    LET names   == {i.resource : i \in S} \ NotABucket
        Info(r) == IF r \in DOMAIN buckets THEN buckets[r] ELSE NoCosts
    IN [r \in DOMAIN buckets \cup names |->
           IF r \in names THEN AddUsage(Info(r), kind, CostSum({i \in S : i.resource = r}))
           ELSE Info(r)]

\* getS3CostData, prepareResponse
S3Costs(ai, range) ==
    LET Add(buckets, kind) == Parsed(buckets, kind, UsageOf(ai, range, kind))
    IN IF ~ Reaches(ai) THEN Empty
       ELSE FoldLeft(Add, Empty, <<"storage", "requests", "bandwidthIn", "bandwidthOut">>)

-----------------------------------------------------------------------------
(* Properties *)

SumOf(f) == MapThenSumSet(LAMBDA x: f[x], DOMAIN f)

\* The line items that the question is about.
Asked(ai, range) ==
    {i \in LineItems : /\ i.account \in ai.accounts /\ i.index \in ai.indexes
                       /\ i.time \div Span["day"] \in range[1] .. range[2]}

Breakdowns == {<<c>> : c \in Simple} \cup {<<c, d>> : c \in Simple, d \in {"account", "day", "month"}}

\* However the costs are broken down, they add up to what the line items cost.
BreakdownsAddUp(ai, range) ==
    \A by \in Breakdowns : SumOf(CostData(ai, range, by)) = CostSum(Asked(ai, range))

\* The rows of the CSV have the dates of its header, which are those of one usage type; they
\* add up; and a cost that rises is told as such, but after nothing or a refund.
DiffsAddUp(ai, range) == \A period \in {"day", "week", "month"} :
    LET d == DiffData(ai, range, period) IN
    /\ \A u, v \in DOMAIN d : DOMAIN d[u] = DOMAIN d[v]
    /\ \A u \in DOMAIN d :
        /\ SumOf([n \in DOMAIN d[u] |-> d[u][n].cost])
               = CostSum({i \in Asked(ai, range) : i.usage = u})
        /\ \A n \in DOMAIN d[u] : n - 1 \in DOMAIN d[u] /\ d[u][n - 1].cost > 0 =>
               (d[u][n].variation < 0 <=> d[u][n].cost < d[u][n - 1].cost)

\* The values of a tag add up to what the line items with the tag cost.
TagsAddUp(ai, range) == \A c \in Simple : \A keys \in {{}} \cup {{k} : k \in TagKeys(ai, range)} :
    LET d == TagsValues(ai, range, keys, c) IN
    \A k \in DOMAIN d :
        SumOf([v \in DOMAIN d[k] |-> SumOf(d[k][v])])
            = CostSum({i \in Asked(ai, range) : \E t \in i.tags : t[1] = k})

\* The costs of a bucket are those of its line items of the four kinds.
S3AddsUp(ai, range) ==
    LET d == S3Costs(ai, range) IN
    \A r \in {i.resource : i \in Asked(ai, range)} \ NotABucket :
        (IF r \in DOMAIN d THEN d[r].storage + d[r].requests + d[r].bandwidth ELSE 0)
            = CostSum({i \in Asked(ai, range) : /\ i.product = S3 /\ i.resource = r
                                                /\ \E k \in Kinds : Patterns(k) \subseteq i.marks})

\* The accounts and indexes of which something wrong is told.
Mistold ==
    {wrong[1] : wrong \in {q \in [accounts : SUBSET {i.account : i \in LineItems}, indexes : SUBSET Users] \X Ranges :
        Reaches(q[1]) /\ ~ (/\ BreakdownsAddUp(q[1], q[2]) /\ DiffsAddUp(q[1], q[2])
                           /\ TagsAddUp(q[1], q[2]) /\ S3AddsUp(q[1], q[2]))}}

\* For whatever dates, the four kinds of answers agree with the bills and with each other,
\* unless an index that is asked for is not there; and no line item that the user may read is
\* left out, but those of an account that the user reads in another index.
CostsAreWhole(u, list) ==
    LET ai   == AccountsAndIndexes(tables, u, list)
        want == IF list = <<>> THEN AllAccountsAndIndexes(tables, u).accounts ELSE ToSet(list)
    IN ai # Refused =>
        /\ ai \notin Mistold
        /\ \A i \in LineItems : i.account \in want /\ Grants(u, i.account, i.index) # {} =>
               i.account \in ai.accounts
               /\ \/ i.index \in ai.indexes
                  \/ \E o \in ai.indexes : Grants(u, i.account, o) # {}

\* Whoever asks, for whatever accounts, is told all costs and each of them once.
CostsAddUp == AtFirst => \A u \in Users :
    \A list \in Lists(AllAccountsAndIndexes(tables, u).accounts) : CostsAreWhole(u, list)
=============================================================================
