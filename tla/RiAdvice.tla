------------------------------ MODULE RiAdvice ------------------------------
(***************************************************************************)
(* What an account would save with reserved instances (onDemandToRI/ec2).  *)
(* At the end of its run process-account reads the reservations and the    *)
(* instances of the last daily reports, that it may have written itself    *)
(* moments before, and the prices that the task fetch-pricings keeps in    *)
(* the database (aws/pricings); it leaves out what is reserved already and *)
(* prices the rest.  The two tasks run in processes of their own, and AWS  *)
(* changes meanwhile.                                                      *)
(***************************************************************************)
EXTENDS Integers, Sequences, SequencesExt, FiniteSetsExt

CONSTANTS
    Instances,     \* records: id, zone, type, platform
    Reservations,  \* records: id, region, zone (None: any), type, platform, count
    Regions,
    RegionOf,      \* the region of each zone
    PreviousToCurrentGeneration, \* an equivalent of some types
    PriceLists,    \* the price lists of AWS: the items of each region
    Fleets, Books, \* the states of the instances and of the reservations at first
    None,
    MaxRuns, MaxChanges, MaxFaults  \* bounds

NoTerm        == -1   \* a term that is not sold
HoursPerMonth == 730
Runs          == 1 .. MaxRuns

ASSUME AdviceAssumption ==
    /\ {MaxRuns, MaxChanges, MaxFaults} \subseteq Nat
    /\ IsFiniteSet(Instances) /\ IsFiniteSet(Reservations)
    /\ \A i \in Instances : RegionOf[i.zone] \in Regions /\ i.type # None
    /\ Fleets \subseteq [Instances -> {"running", "stopped", None}]
    /\ Books \subseteq [Reservations -> {"active", "retired", None}]
    /\ \A r \in Reservations : /\ r.region \in Regions /\ r.count \in Nat
                               /\ \A i \in Instances : i.zone = r.zone => RegionOf[i.zone] = r.region
    /\ \A t \in DOMAIN PreviousToCurrentGeneration : PreviousToCurrentGeneration[t] # None
    /\ \A list \in PriceLists, g \in Regions :
           /\ list[g] \in Seq(ToSet(list[g]))
           /\ \A item \in ToSet(list[g]) : /\ item.onDemand \in Nat \cup {NoTerm}
                                           /\ \A t \in item.reserved : t.hourly \in Nat

VARIABLES
    fleet,    \* the state of each instance; None when there is none
    book,     \* the state of each reservation; None when it is not bought
    market,   \* the price list of AWS
    reports,  \* ElasticSearch: the documents of the daily reports of each run
    unseen,   \* the reports that no search finds before a refresh
    month,    \* the first run of the current month
    run,      \* process-account: the last run, and what it has read
    job,
    pricing,  \* the row of aws_pricing, by region, platform and type
    fetch,    \* the prices a run of fetch-pricings has so far
    published, \* the price lists since that run began, and since the last one did (history)
    advice,   \* the last report on what would be saved (history: its prices; hidden: a
              \* document of its run was not found)
    unmade,   \* the runs that ended without one (history)
    harmed,   \* the runs that met a failure, or began before there were prices (history)
    changes, faults

cloud     == <<fleet, book, market, changes>>
elastic   == <<reports, unseen>>
processes == <<month, run, job, advice, unmade, harmed>>
prices    == <<pricing, fetch, published>>
vars      == <<cloud, elastic, processes, prices, faults>>

Fault   == faults < MaxFaults /\ faults' = faults + 1
NoFault == UNCHANGED faults

-----------------------------------------------------------------------------
(* fetch-pricings *)

NoFetch == [left |-> {}, busy |-> FALSE]

StartFetch ==
    /\ ~fetch.busy
    /\ fetch' = [left |-> Regions, busy |-> TRUE, parsingError |-> FALSE,
                 got |-> [k \in {} |-> None]]
    /\ published' = [published EXCEPT !.now = {market}]
    /\ UNCHANGED <<cloud, elastic, processes, pricing, faults>>

\* A mistake: licenses one brings oneself are priced too.
SoldAtAll(item) == item.box

\* isBoxUsage, isBYOL.
Sold(item) == item.box /\ ~item.byol

NormalizedPlatform(item) ==
    IF item.operatingSystem = "Linux" THEN "Linux/UNIX" ELSE item.operatingSystem

\* Attributes or the on demand price that are not where they used to be.
Unreadable(item) ==
    NormalizedPlatform(item) = None \/ item.type = None \/ item.onDemand = NoTerm

StandardNoUpfront(term, length) ==
    term.length = length /\ term.class = "standard" /\ term.option = "No Upfront"

\* getRIStandardNoUpfrontCost.
ReservedCost(item, length) ==
    LET terms == {t \in item.reserved : StandardNoUpfront(t, length)}
    IN IF terms = {} THEN NoTerm ELSE (CHOOSE t \in terms : TRUE).hourly

EC2Specs(item) == [currentGeneration |-> item.currentGeneration, onDemand |-> item.onDemand,
                   oneYear |-> ReservedCost(item, "1yr"), threeYears |-> ReservedCost(item, "3yr")]

\* An item of the pages of a region: the last one of a type wins.
AddItem(f, g, item) ==
    IF ~Sold(item) THEN f
    ELSE IF Unreadable(item) THEN [f EXCEPT !.parsingError = TRUE]
    ELSE LET k == <<g, NormalizedPlatform(item), item.type>>
         IN [f EXCEPT !.got = [x \in DOMAIN @ \cup {k} |-> IF x = k THEN EC2Specs(item) ELSE @[x]]]

\* FetchEc2Pricings: the regions in no particular order.
FetchRegion == \E g \in fetch.left :
    /\ fetch' = FoldLeft(LAMBDA f, item : AddItem(f, g, item),
                         [fetch EXCEPT !.left = @ \ {g}], market[g])
    /\ UNCHANGED <<cloud, elastic, processes, pricing, published, faults>>

\* taskFetchPricings: AwsPricingByProduct and Save, in one transaction.
SavePricing ==
    /\ fetch.busy /\ fetch.left = {}
    /\ IF fetch.parsingError THEN UNCHANGED <<pricing, published>>
       ELSE pricing' = fetch.got /\ published' = [now |-> {}, row |-> published.now]
    /\ harmed' = IF pricing = None THEN harmed \cup 1 .. run ELSE harmed
    /\ fetch' = NoFetch
    /\ UNCHANGED <<cloud, elastic, month, run, job, advice, unmade, faults>>

FetchFails ==
    /\ fetch.busy /\ Fault
    /\ fetch' = NoFetch
    /\ UNCHANGED <<cloud, elastic, processes, pricing, published>>

-----------------------------------------------------------------------------
(* The daily reports of a run, and the last ones a search finds *)

NoJob == [at |-> "idle"]

StartRun ==
    /\ job = NoJob /\ run < MaxRuns
    /\ run' = run + 1 /\ job' = [at |-> "importInstances"]
    /\ UNCHANGED <<cloud, elastic, month, advice, unmade, harmed, prices, faults>>

Listed(S, state) == {[thing |-> x, state |-> state[x]] : x \in {x \in S : state[x] # None}}

Import(kind, docs, next) ==
    /\ reports' = [reports EXCEPT ![kind][run] = docs]
    /\ unseen' = IF docs = {} THEN unseen ELSE unseen \cup {<<kind, run>>}
    /\ job' = [at |-> next]
    /\ UNCHANGED <<cloud, month, run, advice, unmade, prices>>

\* processAccountEC2 and FetchDailyReservationsStats: a failure of theirs ends nothing.
ImportReport(at, kind, docs, next) ==
    /\ job.at = at
    /\ \/ Import(kind, docs, next) /\ NoFault /\ UNCHANGED harmed
       \/ Import(kind, {}, next) /\ Fault /\ harmed' = harmed \cup {run}

ImportInstances ==
    ImportReport("importInstances", "ec2", Listed(Instances, fleet), "importReservations")
ImportReservations ==
    ImportReport("importReservations", "riEc2", Listed(Reservations, book), "getReservations")

Refresh ==
    /\ unseen # {} /\ unseen' = {}
    /\ UNCHANGED <<cloud, reports, processes, prices, faults>>

\* An index is created with its first document.
HasIndex(kind) == \E n \in Runs : reports[kind][n] # {}

Found(kind) == {n \in month .. MaxRuns : reports[kind][n] # {} /\ <<kind, n>> \notin unseen}

\* The documents of the last date of the month, when there are any.
LastOf(kind) == IF Found(kind) = {} THEN {} ELSE reports[kind][Max(Found(kind))]

\* RunOnDemandToRiEc2 returns an error.
GiveUp ==
    /\ job' = NoJob /\ unmade' = unmade \cup {run}
    /\ UNCHANGED <<cloud, elastic, month, run, advice, prices>>

\* A mistake: a month without documents is an error.
AnsweredWithDocuments(kind) == Found(kind) # {}

\* makeElasticSearchRequest: an index that does not exist is an error.
Answered(kind) == HasIndex(kind)

Read(kind, next) ==
    job' = [x \in DOMAIN job \cup {kind, "hidden"} |->
        CASE x = "at"     -> next
          [] x = kind     -> LastOf(kind)
          [] x = "hidden" -> ("hidden" \in DOMAIN job /\ job.hidden)
                               \/ <<kind, run>> \in unseen \/ month > run
          [] OTHER        -> job[x]]

GetReport(at, kind, next) ==
    /\ job.at = at /\ NoFault /\ UNCHANGED harmed
    /\ \/ /\ Answered(kind) /\ Read(kind, next)
          /\ UNCHANGED <<cloud, elastic, month, run, advice, unmade, prices>>
       \/ ~Answered(kind) /\ GiveUp

GetRIReport  == GetReport("getReservations", "riEc2", "getInstances")
GetEC2Report == GetReport("getInstances", "ec2", "advise")

\* ElasticSearch or the database fails.
RunFails ==
    /\ job.at \in {"getReservations", "getInstances", "advise"}
    /\ Fault /\ GiveUp /\ harmed' = harmed \cup {run}

-----------------------------------------------------------------------------
(* What is not reserved *)

Spec(i) == [region |-> RegionOf[i.zone], type |-> i.type, platform |-> i.platform]

\* instanceMatchReservation.
Matches(i, r) ==
    /\ RegionOf[i.zone] = r.region \/ i.zone = r.zone
    /\ i.type = r.type
    /\ i.platform = r.platform

AddUnreserved(specs, s) ==
    [x \in DOMAIN specs \cup {s} |->
        (IF x \in DOMAIN specs THEN specs[x] ELSE 0) + (IF x = s THEN 1 ELSE 0)]

\* A mistake: the copy of the loop is counted down.
Keep(left, k) == left

Spend(left, k) == [left EXCEPT ![k] = @ - 1]

\* An instance, and what is left of the reservations, in the order of the answer.
Reserve(acc, i, rs) ==
    LET usable == {k \in DOMAIN rs : /\ rs[k].state = "active" /\ acc.left[k] # 0
                                     /\ Matches(i.thing, rs[k].thing)}
    IN IF i.state # "running" THEN acc
       ELSE IF usable # {} THEN [acc EXCEPT !.left = Spend(@, Min(usable))]
       ELSE [acc EXCEPT !.specs = AddUnreserved(@, Spec(i.thing))]

\* getUnreservedInstances: the number of each specification.
Unreserved(is, rs) ==
    FoldLeft(LAMBDA acc, i : Reserve(acc, i, rs),
             [specs |-> [s \in {} |-> 0], left |-> [k \in DOMAIN rs |-> rs[k].thing.count]],
             is).specs

-----------------------------------------------------------------------------
(* What it costs *)

MonthlyCost(hourly) == IF hourly = NoTerm THEN 0 ELSE hourly * HoursPerMonth

PricingKey(s) == <<s.region, s.platform, s.type>>

\* The type that is advised for a previous generation; its prices are those of the
\* old type all the same.
Advised(s) ==
    IF pricing[PricingKey(s)].currentGeneration THEN s.type
    ELSE IF s.type \in DOMAIN PreviousToCurrentGeneration
         THEN PreviousToCurrentGeneration[s.type] ELSE None

Line(s, n) ==
    LET p == pricing[PricingKey(s)]
    IN [spec |-> s, count |-> n, advised |-> Advised(s), onDemand |-> MonthlyCost(p.onDemand) * n,
        oneYear |-> MonthlyCost(p.oneYear) * n, threeYears |-> MonthlyCost(p.threeYears) * n]

\* A mistake: the saving of three years over all of them.
SavingOfTerm(lines) ==
    [oneYear    |-> MapThenSumSet(LAMBDA l : 12 * (l.onDemand - l.oneYear), lines),
     threeYears |-> MapThenSumSet(LAMBDA l : 36 * (l.onDemand - l.threeYears), lines)]

\* The saving of a year, for both terms.
Saving(lines) ==
    [oneYear    |-> MapThenSumSet(LAMBDA l : 12 * l.onDemand - 12 * l.oneYear, lines),
     threeYears |-> MapThenSumSet(LAMBDA l : 12 * l.onDemand - 12 * l.threeYears, lines)]

\* calculateCosts: without a price nothing is counted; without an equivalent type
\* only the price of today is.
Report(specs) ==
    LET priced == {Line(s, specs[s]) : s \in {x \in DOMAIN specs : PricingKey(x) \in DOMAIN pricing}}
        lines  == {l \in priced : l.advised # None}
    IN [run      |-> run, lines |-> lines, saving |-> Saving(lines),
        onDemand |-> MapThenSumSet(LAMBDA l : l.onDemand, priced),
        prices   |-> pricing, hidden |-> job.hidden]

\* getEC2Pricings, and IngestOdToRiEc2Result; the answers of ElasticSearch are in no
\* particular order.
Advise ==
    /\ job.at = "advise" /\ NoFault
    /\ \/ /\ pricing # None
          /\ \E is \in SetToSeqs(job.ec2), rs \in SetToSeqs(job.riEc2) :
                advice' = Report(Unreserved(is, rs))
          /\ job' = NoJob
          /\ UNCHANGED <<cloud, elastic, month, run, unmade, harmed, prices>>
       \/ pricing = None /\ GiveUp /\ UNCHANGED harmed

-----------------------------------------------------------------------------
(* AWS and the calendar *)

Change == changes < MaxChanges /\ changes' = changes + 1

\* Reports ask AWS once, so that it may as well change between runs.
ChangeInstance == \E i \in Instances, s \in {"running", "stopped", None} :
    /\ job = NoJob /\ run < MaxRuns /\ fleet[i] # s /\ Change
    /\ fleet' = [fleet EXCEPT ![i] = s]
    /\ UNCHANGED <<book, market, elastic, processes, prices, faults>>

ChangeReservation == \E r \in Reservations :
    /\ job = NoJob /\ run < MaxRuns /\ book[r] # "retired" /\ Change
    /\ book' = [book EXCEPT ![r] = IF @ = None THEN "active" ELSE "retired"]
    /\ UNCHANGED <<fleet, market, elastic, processes, prices, faults>>

ChangePrices == \E list \in PriceLists \ {market} :
    /\ Change /\ market' = list
    /\ published' = IF fetch.busy THEN [published EXCEPT !.now = @ \cup {list}] ELSE published
    /\ UNCHANGED <<fleet, book, elastic, processes, pricing, fetch, faults>>

MonthEnds ==
    /\ month = 1 /\ run > 0 /\ month' = run + 1
    /\ UNCHANGED <<cloud, elastic, run, job, advice, unmade, harmed, prices, faults>>

Init ==
    /\ fleet \in Fleets /\ book \in Books
    /\ market \in PriceLists
    /\ reports = [kind \in {"ec2", "riEc2"} |-> [n \in Runs |-> {}]] /\ unseen = {}
    /\ month = 1 /\ run = 0 /\ job = NoJob /\ advice = None /\ unmade = {} /\ harmed = {}
    /\ pricing = None /\ fetch = NoFetch /\ published = [now |-> {}, row |-> {}]
    /\ changes = 0 /\ faults = 0

Next ==
    \/ StartFetch \/ FetchRegion \/ SavePricing \/ FetchFails
    \/ StartRun \/ ImportInstances \/ ImportReservations \/ Refresh
    \/ GetRIReport \/ GetEC2Report \/ RunFails \/ Advise
    \/ ChangeInstance \/ ChangeReservation \/ ChangePrices \/ MonthEnds

AdviceSpec == Init /\ [][Next]_vars
-----------------------------------------------------------------------------
(* Properties *)

Running(docs, s) == {d \in docs : d.state = "running" /\ Spec(d.thing) = s}

\* Reservations are for all zones of their region, whatever zone they name.
Capacity(docs, s) ==
    MapThenSumSet(LAMBDA d : d.thing.count,
        {d \in docs : /\ d.state = "active" /\ d.thing.region = s.region
                      /\ d.thing.type = s.type /\ d.thing.platform = s.platform})

\* Why a kind of instance is not in a report.
NoOffer(s) ==
    \/ PricingKey(s) \notin DOMAIN advice.prices
    \/ /\ ~advice.prices[PricingKey(s)].currentGeneration
       /\ s.type \notin DOMAIN PreviousToCurrentGeneration

\* A report counts, for each kind of instance, those that ran beyond the reservations when
\* its run asked AWS, in whatever order ElasticSearch answered
\* (onDemandToRI/ec2/report.go, getUnreservedInstances): unless one of the two
\* reports of the run was empty, so that an older one was taken, or was not found yet
\* by a search or was of the month before; kinds without an offer are left out.
AdviceIsOfToday == advice # None =>
    LET ec2 == reports["ec2"][advice.run]
        ri  == reports["riEc2"][advice.run]
    IN \/ advice.hidden \/ ec2 = {} \/ ri = {}
       \/ /\ \A l \in advice.lines :
                 l.count = Cardinality(Running(ec2, l.spec)) - Capacity(ri, l.spec) /\ l.count > 0
          /\ \A d \in ec2 : LET s == Spec(d.thing) IN
                 Cardinality(Running(ec2, s)) > Capacity(ri, s) =>
                     NoOffer(s) \/ \E l \in advice.lines : l.spec = s

\* The saving of a report is never more than a year of what its instances cost today, and
\* all of it only where a term is not sold (calculateCosts, getMonthlyCostPerUnit).
SavingIsPossible == advice # None =>
    LET year == MapThenSumSet(LAMBDA l : 12 * l.onDemand, advice.lines)
    IN /\ advice.saving.oneYear <= year /\ advice.saving.threeYears <= year
       /\ year <= 12 * advice.onDemand
       /\ advice.lines # {} /\ advice.saving.threeYears = year =>
              \A l \in advice.lines : l.threeYears = 0

\* A run of process-account ends without a report only when something failed, when there
\* was no price yet, or, as an index is created with its first document,
\* when nothing was ever reserved or no instance ever seen
\* (RunOnDemandToRiEc2, makeElasticSearchRequest).
AdviceIsMade == \A n \in unmade \ harmed :
    \/ pricing = None
    \/ \A m \in 1 .. n : reports["riEc2"][m] = {}
    \/ \A m \in 1 .. n : reports["ec2"][m] = {}

\* The prices in the database are all that AWS sold in all regions, each region as it was
\* in one price list since the run of fetch-pricings began, though lists change
\* while it reads and another run may have failed halfway (FetchEc2Pricings).
PricingIsWhole == pricing # None =>
    \A g \in Regions : \E list \in published.row :
        LET items == list[g]
            sold  == {k \in DOMAIN items : items[k].box /\ ~items[k].byol}
            Key(k) == <<g, NormalizedPlatform(items[k]), items[k].type>>
            keys  == {Key(k) : k \in sold}
        IN /\ {k \in DOMAIN pricing : k[1] = g} = keys
           /\ \A key \in keys : \E k \in sold :
                  /\ key = Key(k)
                  /\ pricing[key] = EC2Specs(items[k])
=============================================================================
