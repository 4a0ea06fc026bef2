---------------------------- MODULE UsageReports ----------------------------
(***************************************************************************)
(* The reports of what an AWS account uses (aws/usageReports/): a daily    *)
(* report of all resources of a service, and a monthly report of those     *)
(* that were billed, as documents of ElasticSearch.  A report is a         *)
(* pipeline: a goroutine for each region, or for each billed resource and  *)
(* region, asks AWS and sends what it is told on a channel; merge puts the *)
(* channels together; importInstancesToEs creates a document for each.     *)
(*                                                                         *)
(* One service is followed over one month.  What the services have in      *)
(* common is written once; each has definitions for what it does in its    *)
(* own way.                                                                *)
(***************************************************************************)
EXTENDS Integers, Sequences, SequencesExt, FiniteSets

CONSTANTS
    Services,    \* a subset of AllServices
    Accounts,    \* numbers: buckets are sorted by their keys
    Names, Regions,
    Load,        \* what CloudWatch knows of the CPU of each resource
    Inventories, \* the resources of each account when the month begins
    Zoneless,    \* the resources whose line items have no availability zone
    None,
    MaxDays, MaxFaults  \* bounds

AllServices == {"ec2", "rds", "es", "elasticache", "lambda", "riEc2", "riRds"}
Monthly     == {"ec2", "rds", "es", "elasticache"}
Idle        == "idle"
Busy        == "busy"
Resource    == [name : Names, region : Regions]
Dates       == 1 .. MaxDays
MonthStart  == 0   \* the reportDate of monthly reports

ASSUME UsageAssumption ==
    /\ Services \subseteq AllServices
    /\ Accounts \subseteq Nat /\ IsFiniteSet(Accounts)
    /\ Load \in [Resource -> {Idle, Busy, None}]
    /\ Inventories \subseteq [Accounts -> {S \in SUBSET Resource : IsFiniteSet(S)}]
    /\ Regions \cap (Resource \X Regions) = {}
    /\ {MaxDays, MaxFaults} \subseteq Nat
    /\ None \notin Resource \cup Regions

VARIABLES
    service,
    cloud,     \* the resources that exist
    inventory, \* the resources that are billed for the month: all that existed
    today,     \* the last day with a daily report; MaxDays + 1 when the month is over
    docs,      \* the documents of the service
    job,       \* the report that is being made
    ends,      \* how the reports of the month ended: what each was about (history)
    harmed,    \* the accounts and dates whose report met a failure (history)
    faults

vars == <<service, cloud, inventory, today, docs, job, ends, harmed, faults>>

-----------------------------------------------------------------------------
(* What a goroutine sends *)

\* Costs are sets of what is paid for: the resource, the volume and the metrics
\* of an instance.
Item(kind, r) == [kind |-> kind, res |-> r]
Own(r)        == Item("instance", r)

Found(r, load, place, volumes, costs) ==
    [res |-> r, load |-> load, place |-> place, volumes |-> volumes, costs |-> costs]

\* The statistics of an instance; each may fail by itself, and is -1 then (None).  The
\* volumes are those whose statistics were read before the first failure.
Ec2Stats(r, bad)         == [load    |-> IF "cpu" \in bad THEN None ELSE Load[r],
                             volumes |-> IF "io" \in bad THEN {} ELSE {r}]
RdsStats(r, bad)         == IF "cpu" \in bad THEN None ELSE Load[r]
ElastiCacheStats(r, bad) == IF "cpu" \in bad THEN None ELSE Load[r]
\* Without the account id nothing is asked.
EsStats(r, bad)          == IF bad # {} THEN None ELSE Load[r]

InRegion(a, g) == {r \in cloud[a] : r.region = g}
SendAll(S)     == SetToSeq(S)

\* What the goroutine of a daily report sends of region g.
Ec2Instance(r, bad) ==
    LET stats == Ec2Stats(r, bad) IN Found(r, stats.load, r.region, stats.volumes, {})
Ec2Daily(a, g, bad) == SendAll({Ec2Instance(r, bad) : r \in InRegion(a, g)})

RdsInstance(r, bad) == Found(r, RdsStats(r, bad), r.region, {}, {})
RdsDaily(a, g, bad) == SendAll({RdsInstance(r, bad) : r \in InRegion(a, g)})

EsDomain(r, bad)   == Found(r, EsStats(r, bad), r.region, {}, {})
EsDaily(a, g, bad) == SendAll({EsDomain(r, bad) : r \in InRegion(a, g)})

ElastiCacheInstance(r, bad) == Found(r, ElastiCacheStats(r, bad), r.region, {}, {})
ElastiCacheDaily(a, g, bad) == SendAll({ElastiCacheInstance(r, bad) : r \in InRegion(a, g)})

\* Of a function there are the calls and their duration, which no property is about.
LambdaStats(r)         == None
LambdaDaily(a, g)      == SendAll({Found(r, LambdaStats(r), None, {}, {}) : r \in InRegion(a, g)})
Ec2ReservationDaily(a, g) == SendAll({Found(r, None, r.region, {}, {}) : r \in InRegion(a, g)})
RdsReservationDaily(a, g) == SendAll({Found(r, None, r.region, {}, {}) : r \in InRegion(a, g)})

DailyOf(a, g, bad) ==
    CASE service = "ec2"         -> Ec2Daily(a, g, bad)
      [] service = "rds"         -> RdsDaily(a, g, bad)
      [] service = "es"          -> EsDaily(a, g, bad)
      [] service = "elasticache" -> ElastiCacheDaily(a, g, bad)
      [] service = "lambda"      -> LambdaDaily(a, g)
      [] service = "riEc2"       -> Ec2ReservationDaily(a, g)
      [] service = "riRds"       -> RdsReservationDaily(a, g)

\* generateId: what tells the documents of one account and date apart.  The ids of
\* instances and reservations are unique; the names of databases, domains, clusters
\* and functions are unique in their region.
Ec2Id(r)         == r
RdsId(r)         == r.name
EsId(r)          == r.name
ElastiCacheId(r) == r.name
LambdaId(r)      == r.name
Ec2ReservationId(r) == r
RdsReservationId(r) == r.name

IdOf(r) ==
    CASE service = "ec2"         -> Ec2Id(r)
      [] service = "rds"         -> RdsId(r)
      [] service = "es"          -> EsId(r)
      [] service = "elasticache" -> ElastiCacheId(r)
      [] service = "lambda"      -> LambdaId(r)
      [] service = "riEc2"       -> Ec2ReservationId(r)
      [] service = "riRds"       -> RdsReservationId(r)

-----------------------------------------------------------------------------
(* Monthly reports: the goroutines, and what each of them sends *)

\* getCostPerResource: the region is the last availability zone of the line items.
Zone(r) == IF r \in Zoneless THEN None ELSE r.region

\* One goroutine for each billed resource and region of its zone.
Ec2Goroutines(a)         == {c \in inventory[a] \X Regions : Zone(c[1]) = c[2]}
RdsGoroutines(a)         == {c \in inventory[a] \X Regions : Zone(c[1]) = c[2]}
ElastiCacheGoroutines(a) == {c \in inventory[a] \X Regions : Zone(c[1]) = c[2]}
\* A domain is looked for everywhere.
EsGoroutines(a)          == inventory[a] \X Regions

\* getInstanceInfoFromES: an instance that is gone is taken from any earlier report.
FromEarlierReports(a, r) ==
    LET earlier == {d \in docs : d.account = a /\ d.res = r}
    IN Found(r, None, IF earlier = {} THEN None ELSE (CHOOSE d \in earlier : TRUE).place,
             {}, {Own(r)})

Ec2Monthly(a, r, bad) ==
    IF r \in cloud[a] THEN <<[Ec2Instance(r, bad) EXCEPT !.costs = {Own(r)}]>>
    ELSE <<FromEarlierReports(a, r)>>

\* A mistake: all databases of the region are asked for.
RdsMonthlyOfRegion(a, r, bad) ==
    SendAll({[RdsInstance(x, bad) EXCEPT !.costs = {Own(r)}] : x \in InRegion(a, r.region)})

\* DescribeDBInstances of one identifier.
RdsMonthly(a, r, bad) ==
    IF r \in cloud[a] THEN <<[RdsInstance(r, bad) EXCEPT !.costs = {Own(r)}]>> ELSE <<>>

\* DescribeElasticsearchDomain of one name.
EsMonthly(a, r, g, bad) ==
    LET named == {x \in InRegion(a, g) : x.name = r.name}
    IN SendAll({[EsDomain(x, bad) EXCEPT !.costs = {Own(r)}] : x \in named})

\* DescribeCacheClusters of the region.
ElastiCacheMonthly(a, r, g, bad) ==
    SendAll({[ElastiCacheInstance(x, bad) EXCEPT !.costs = {Own(r)}] : x \in InRegion(a, g)})

\* addCostToInstances: the volumes that are known, and the metrics of the instance.
Ec2Costs(found) ==
    [found EXCEPT !.costs = @ \cup {Item("volume", v) : v \in found.volumes}
                              \cup {Item("cloudwatch", found.res)}]

Goroutines(a, type) ==
    IF type = "daily" THEN Regions
    ELSE CASE service = "ec2"         -> Ec2Goroutines(a)
           [] service = "rds"         -> RdsGoroutines(a)
           [] service = "es"          -> EsGoroutines(a)
           [] service = "elasticache" -> ElastiCacheGoroutines(a)

Sent(a, c, bad) ==
    IF c \in Regions THEN DailyOf(a, c, bad)
    ELSE CASE service = "ec2"         -> Ec2Monthly(a, c[1], bad)
           [] service = "rds"         -> RdsMonthly(a, c[1], bad)
           [] service = "es"          -> EsMonthly(a, c[1], c[2], bad)
           [] service = "elasticache" -> ElastiCacheMonthly(a, c[1], c[2], bad)

\* The call of AWS fails: nothing is sent, but for an instance.
SentOnError(a, c) ==
    IF service = "ec2" /\ c \notin Regions THEN <<FromEarlierReports(a, c[1])>> ELSE <<>>

-----------------------------------------------------------------------------
(* Steps *)

NoJob == [account |-> None]

Launch(a, type, date) ==
    job' = [account |-> a, type |-> type, date |-> date, got |-> <<>>,
            waiting |-> Goroutines(a, type), chans |-> [c \in {} |-> <<>>]]

Fault == faults < MaxFaults /\ faults' = faults + 1
NoFault == UNCHANGED faults

\* FetchDaily...Stats: credentials, account and regions are known; now is a new date.
StartDaily(a) ==
    /\ job = NoJob /\ today < MaxDays
    /\ today' = today + 1
    /\ Launch(a, "daily", today + 1)
    /\ UNCHANGED <<service, cloud, inventory, docs, ends, harmed, faults>>

\* CheckMonthlyReportExists.
ReportExists(a) == \E d \in docs : d.account = a /\ d.date = MonthStart

\* Put...MonthlyReport.
StartMonthly(a) ==
    /\ job = NoJob /\ today = MaxDays + 1
    /\ service \in Monthly
    /\ inventory[a] # {} /\ ~ReportExists(a)
    /\ Launch(a, "monthly", MonthStart)
    /\ UNCHANGED <<service, cloud, inventory, today, docs, ends, harmed, faults>>

Open(c, sent) ==
    job' = [job EXCEPT !.waiting = @ \ {c},
                       !.chans = [x \in DOMAIN @ \cup {c} |-> IF x = c THEN sent ELSE @[x]]]

About == <<job.account, job.date>>

\* A goroutine has its answer.
Fetch == job # NoJob /\ \E c \in job.waiting :
    /\ Open(c, Sent(job.account, c, {})) /\ NoFault
    /\ UNCHANGED <<service, cloud, inventory, today, docs, ends, harmed>>

FetchFails == job # NoJob /\ \E c \in job.waiting :
    /\ Fault
    /\ \/ Open(c, SentOnError(job.account, c))
       \/ \E bad \in {{"cpu"}, {"io"}} : Open(c, Sent(job.account, c, bad))
    /\ harmed' = harmed \cup {About}
    /\ UNCHANGED <<service, cloud, inventory, today, docs, ends>>

\* merge: a value of one of the channels, in no particular order.
Merge == job # NoJob /\ \E c \in DOMAIN job.chans :
    /\ job.chans[c] # <<>>
    /\ job' = [job EXCEPT !.got = Append(@, Head(job.chans[c])), !.chans[c] = Tail(@)]
    /\ UNCHANGED <<service, cloud, inventory, today, docs, ends, harmed, faults>>

\* A mistake: the channels are open, and not read to their ends.
MergedOnceFetched == job # NoJob /\ job.waiting = {}

Merged == job # NoJob /\ job.waiting = {} /\ \A c \in DOMAIN job.chans : job.chans[c] = <<>>

Doc(found) ==
    [account |-> job.account, date |-> job.date, id |-> IdOf(found.res), res |-> found.res,
     load |-> found.load, place |-> found.place, volumes |-> found.volumes, costs |-> found.costs]

SameKey(d, e) == d.account = e.account /\ d.date = e.date /\ d.id = e.id

\* opTypeCreate: a document that exists, or came before, is not written again.
Create(index, ds) ==
    LET Exists(i) == \E e \in index \cup {ds[j] : j \in 1 .. i - 1} : SameKey(ds[i], e)
    IN index \cup {ds[i] : i \in {j \in DOMAIN ds : ~Exists(j)}}

Imported(got) ==
    LET costed == IF service = "ec2" /\ job.date = MonthStart
                  THEN [i \in DOMAIN got |-> Ec2Costs(got[i])] ELSE got
    IN Create(docs, [i \in DOMAIN costed |-> Doc(costed[i])])

Import ==
    /\ Merged
    /\ docs' = Imported(job.got)
    /\ ends' = ends \cup {About}
    /\ job' = NoJob
    /\ UNCHANGED <<service, cloud, inventory, today, harmed, faults>>

\* afterBulk only logs: a part of the documents is lost, and the report has succeeded.
BulkFails ==
    /\ Merged /\ Fault /\ job.got # <<>>
    /\ \E kept \in {<<>>, Tail(job.got)} : docs' = Imported(kept)
    /\ ends' = ends \cup {About} /\ harmed' = harmed \cup {About}
    /\ job' = NoJob
    /\ UNCHANGED <<service, cloud, inventory, today>>

\* The resource is deleted; it is billed all the same.
Terminate == \E a \in Accounts : \E r \in cloud[a] :
    /\ today = MaxDays + 1 /\ job = NoJob /\ cloud = inventory
    /\ \A e \in ends : e[2] # MonthStart  \* later it makes no difference
    /\ cloud' = [cloud EXCEPT ![a] = @ \ {r}]
    /\ UNCHANGED <<service, inventory, today, docs, job, ends, harmed, faults>>

MonthEnds ==
    /\ job = NoJob /\ today <= MaxDays
    /\ today' = MaxDays + 1
    /\ UNCHANGED <<service, cloud, inventory, docs, job, ends, harmed, faults>>

Init ==
    /\ service \in Services
    /\ inventory \in Inventories
    /\ cloud = inventory
    /\ today = 0 /\ docs = {} /\ job = NoJob /\ ends = {} /\ harmed = {} /\ faults = 0

Next ==
    \/ \E a \in Accounts : StartDaily(a) \/ StartMonthly(a)
    \/ Fetch \/ FetchFails \/ Merge \/ Import \/ BulkFails \/ Terminate \/ MonthEnds

Spec == Init /\ [][Next]_vars
-----------------------------------------------------------------------------
(* Properties *)

Document ==
    [account : Accounts, date : Dates \cup {MonthStart}, id : Resource \cup Names, res : Resource,
     load : {Idle, Busy, None}, place : Regions \cup {None}, volumes : SUBSET Resource,
     costs : SUBSET [kind : {"instance", "volume", "cloudwatch"}, res : Resource]]

\* Documents have their types, one for each account, date and id, and what is left to be
\* merged is of the goroutines of the report.
TypeOK ==
    /\ service \in Services
    /\ \A a \in Accounts : cloud[a] \subseteq inventory[a]
    /\ docs \subseteq Document
    /\ \A d, e \in docs : SameKey(d, e) => d = e
    /\ today \in 0 .. MaxDays + 1
    /\ job # NoJob => /\ job.waiting \cup DOMAIN job.chans \subseteq Goroutines(job.account, job.type)
                      /\ job.waiting \cap DOMAIN job.chans = {}
    /\ harmed \subseteq Accounts \X (Dates \cup {MonthStart})

\* Another resource of the account has the same id.
Namesake(a, r) == \E x \in inventory[a] \ {r} : IdOf(x) = IdOf(r)

\* A report that was made has every resource of the account, though only the regions and
\* the channels of its goroutines say when all are there.  What is missing met a failure
\* that was only logged, has a namesake in another region, or, in
\* a monthly report, is gone or was billed without a zone.
ReportIsWhole == \A e \in ends \ harmed : \A r \in inventory[e[1]] :
    \/ \E d \in docs : d.account = e[1] /\ d.date = e[2] /\ d.res = r
    \/ Namesake(e[1], r)
    \/ /\ e[2] = MonthStart
       /\ \/ r \notin cloud[e[1]] /\ service # "ec2"
          \/ Zone(r) = None /\ service # "es"

\* A monthly report charges a resource for itself, and only once, in whatever order
\* the goroutines end: but a cache cluster may be charged for any cluster of the region
\* (aws/usageReports/elasticache/monthlyReport.go), and a domain for its namesake.
CostIsOwn == \A d \in docs : d.date = MonthStart =>
    \/ {i.res : i \in d.costs} = {d.res}
    \/ service = "elasticache" /\ \E x \in inventory[d.account] \ {d.res} : Zone(x) = d.res.region
    \/ service = "es" /\ Namesake(d.account, d.res)

\* The volumes of an instance are part of its cost unless it is gone or their
\* statistics failed.
VolumesCharged == \A d \in docs :
    service = "ec2" /\ d.date = MonthStart /\ Item("volume", d.res) \notin d.costs
    => d.res \notin cloud[d.account] \/ <<d.account, MonthStart>> \in harmed
=============================================================================
