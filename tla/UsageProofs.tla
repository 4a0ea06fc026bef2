---------------------------- MODULE UsageProofs -----------------------------
(***************************************************************************)
(* Theorems of UsageReports and UsageQueries, which are all their safety   *)
(* invariants: a report that was made is whole, what is charged is of the  *)
(* resource, and answers are true.  UsageInv is the inductive invariant:   *)
(* what is fixed while a report is made, what its goroutines have sent     *)
(* (JobInv), the documents (DocsInv) and the reports that ended            *)
(* (HistoryInv).  The answers are functions of the state and follow.       *)
(***************************************************************************)
EXTENDS UsageQueries, FiniteSetTheorems, WellFoundedInduction, TLAPS

-----------------------------------------------------------------------------
(* Sets and sequences *)

\* A set of numbers that is not empty has a least one.
LEMMA NatMin == ASSUME NEW S \in SUBSET Nat, S # {} PROVE \E x \in S : \A y \in S : x <= y
<1> DEFINE R == OpToRel(<, Nat)
<1>1. \A x, y \in Nat : x < y => <<x, y>> \in R
  BY DEF OpToRel
<1>2. IsWellFoundedOn(R, Nat)
  BY NatLessThanWellFounded
<1> HIDE DEF R
<1>3. PICK x \in S : \A y \in S : ~(<<y, x>> \in R)
  BY <1>2, WFMin, Zenon
<1>4. ASSUME NEW y \in S PROVE x <= y
  <2>1. x \in Nat /\ y \in Nat
    OBVIOUS
  <2>2. ~(y < x)
    BY <1>1, <1>3, <2>1
  <2> QED BY <2>1, <2>2
<1> QED BY <1>4

\* The image of a finite set is finite.
LEMMA FiniteImage == ASSUME NEW S, IsFiniteSet(S), NEW b PROVE IsFiniteSet({b[x] : x \in S})
<1> DEFINE f == [x \in S |-> b[x]]
<1>1. f \in Surjection(S, {b[x] : x \in S})
  BY DEF Surjection
<1> QED BY <1>1, FS_Surjection

\* SetToSeq enumerates a finite set.
LEMMA SetToSeqIs ==
    ASSUME NEW S, IsFiniteSet(S)
    PROVE  SetToSeq(S) \in Seq(S) /\ ToSet(SetToSeq(S)) = S
<1> DEFINE n == Cardinality(S)
           f == SetToSeq(S)
<1>1. n \in Nat /\ ExistsBijection(1 .. n, S)
  BY FS_CardinalityType
<1>2. PICK g \in Bijection(1 .. n, S) : TRUE
  BY <1>1 DEF ExistsBijection
<1>3. g \in [1 .. n -> S] /\ IsInjective(g)
  BY <1>2 DEF Bijection, Injection
<1>4. f \in [1 .. n -> S] /\ IsInjective(f)
  BY <1>3 DEF SetToSeq
<1> HIDE DEF f
<1>5. f \in Injection(1 .. n, S)
  BY <1>4 DEF Injection
<1>6. Cardinality(1 .. n) = n
  BY <1>1, FS_Interval
<1>7. f \in Surjection(1 .. n, S)
  BY <1>5, <1>6, FS_Injection
<1>8. \A x \in S : \E i \in 1 .. n : f[i] = x
  BY <1>7 DEF Surjection
<1>9. f \in Seq(S) /\ DOMAIN f = 1 .. n
  BY <1>1, <1>4
<1>10. ToSet(f) = S
  BY <1>4, <1>8, <1>9 DEF ToSet
<1> QED BY <1>9, <1>10 DEF f
-----------------------------------------------------------------------------
(* What the goroutines send *)

Charge  == [kind : {"instance", "volume", "cloudwatch"}, res : Resource]
Finding == [res : Resource, load : {Idle, Busy, None}, place : Regions \cup {None},
            volumes : SUBSET Resource, costs : SUBSET Charge]

\* f is of r, with these costs.
Of(f, r, costs) == f \in Finding /\ f.res = r /\ f.volumes \subseteq {r} /\ f.costs = costs

\* What each service finds out of a resource.
LEMMA InstancesAre ==
    ASSUME NEW r \in Resource, NEW bad
    PROVE  /\ Of(Ec2Instance(r, bad), r, {}) /\ (bad = {} => Ec2Instance(r, bad).volumes = {r})
           /\ Of(RdsInstance(r, bad), r, {}) /\ Of(EsDomain(r, bad), r, {})
           /\ Of(ElastiCacheInstance(r, bad), r, {})
           /\ Of(Found(r, LambdaStats(r), None, {}, {}), r, {})
           /\ Of(Found(r, None, r.region, {}, {}), r, {})
<1>1. r.region \in Regions /\ Load[r] \in {Idle, Busy, None}
  BY UsageAssumption DEF Resource
<1> DEFINE L == {Idle, Busy, None}
<1>2. ASSUME NEW load \in L, NEW place \in Regions \cup {None}, NEW volumes \in SUBSET {r}
      PROVE  Of(Found(r, load, place, volumes, {}), r, {}) /\ Found(r, load, place, volumes, {}).volumes = volumes
  BY DEF Of, Found, Finding
<1>3. Ec2Stats(r, bad).load \in L /\ Ec2Stats(r, bad).volumes \in SUBSET {r}
      /\ (bad = {} => Ec2Stats(r, bad).volumes = {r})
  BY <1>1 DEF Ec2Stats
<1>4. RdsStats(r, bad) \in L /\ EsStats(r, bad) \in L /\ ElastiCacheStats(r, bad) \in L /\ LambdaStats(r) \in L
  BY <1>1 DEF RdsStats, EsStats, ElastiCacheStats, LambdaStats
<1> HIDE DEF L
<1>5. None \in L /\ {} \in SUBSET {r}
  BY DEF L
<1> QED BY <1>1, <1>2, <1>3, <1>4, <1>5
        DEF Ec2Instance, RdsInstance, EsDomain, ElastiCacheInstance

\* An instance with a cost.
LEMMA CostedIs ==
    ASSUME NEW r \in Resource, NEW x \in Resource, NEW f, Of(f, r, {})
    PROVE  Of([f EXCEPT !.costs = {Own(x)}], r, {Own(x)}) /\ [f EXCEPT !.costs = {Own(x)}].volumes = f.volumes
<1>1. Own(x) \in Charge
  BY DEF Own, Item, Charge
<1> QED BY <1>1 DEF Of, Finding

\* A channel with all that was found of some resources.
LEMMA SendAllIs ==
    ASSUME NEW S \in SUBSET Resource, IsFiniteSet(S), NEW F, NEW costs, \A x \in S : Of(F[x], x, costs)
    PROVE  /\ SendAll({F[x] : x \in S}) \in Seq(Finding)
           /\ ToSet(SendAll({F[x] : x \in S})) = {F[x] : x \in S}
<1> DEFINE T == {F[x] : x \in S}
<1>1. IsFiniteSet(T)
  BY FiniteImage
<1>2. T \subseteq Finding
  BY DEF Of
<1> HIDE DEF T
<1>3. SetToSeq(T) \in Seq(T) /\ ToSet(SetToSeq(T)) = T
  BY <1>1, SetToSeqIs
<1>4. SetToSeq(T) \in Seq(Finding)
  BY <1>2, <1>3
<1> QED BY <1>3, <1>4 DEF T, SendAll

\* What is sent: something of each of these resources and of no other, with these costs.
Sends(s, S, costs) ==
    /\ s \in Seq(Finding)
    /\ \A f \in ToSet(s) : f.res \in S /\ Of(f, f.res, costs)
    /\ \A r \in S : \E f \in ToSet(s) : f.res = r

\* A channel with all that was found of some resources, once more.
LEMMA SendAllSends ==
    ASSUME NEW S \in SUBSET Resource, IsFiniteSet(S), NEW F, NEW costs, \A x \in S : Of(F[x], x, costs)
    PROVE  Sends(SendAll({F[x] : x \in S}), S, costs)
<1> DEFINE s == SendAll({F[x] : x \in S})
<1>1. s \in Seq(Finding) /\ ToSet(s) = {F[x] : x \in S}
  BY SendAllIs
<1> HIDE DEF s
<1>2. \A f \in ToSet(s) : f.res \in S /\ Of(f, f.res, costs)
  BY <1>1 DEF Of
<1>3. \A r \in S : \E f \in ToSet(s) : f.res = r
  BY <1>1 DEF Of
<1> QED BY <1>1, <1>2, <1>3 DEF Sends, s

\* What is fixed while a report is made.
Fixed ==
    /\ service \in Services
    /\ inventory \in Inventories
    /\ cloud \in [Accounts -> SUBSET Resource]
    /\ \A a \in Accounts : cloud[a] \subseteq inventory[a]
    /\ today \in 0 .. MaxDays + 1
    /\ today <= MaxDays => cloud = inventory

\* The resources of an account.
LEMMA ResourcesAre ==
    ASSUME Fixed, NEW a \in Accounts
    PROVE  /\ inventory[a] \in SUBSET Resource /\ IsFiniteSet(inventory[a])
           /\ cloud[a] \in SUBSET Resource /\ IsFiniteSet(cloud[a])
           /\ \A g : InRegion(a, g) \in SUBSET cloud[a] /\ IsFiniteSet(InRegion(a, g))
<1>1. inventory[a] \in {S \in SUBSET Resource : IsFiniteSet(S)}
  BY UsageAssumption DEF Fixed
<1>2. IsFiniteSet(cloud[a])
  BY <1>1, FS_Subset DEF Fixed
<1>3. \A g : InRegion(a, g) \in SUBSET cloud[a]
  BY DEF InRegion
<1> QED BY <1>1, <1>2, <1>3, FS_Subset DEF Fixed

\* The goroutine of a region sends what there is in it.
LEMMA DailySends ==
    ASSUME Fixed, NEW a \in Accounts, NEW g, NEW bad
    PROVE  Sends(DailyOf(a, g, bad), InRegion(a, g), {})
<1> DEFINE S == InRegion(a, g)
<1>1. S \in SUBSET Resource /\ IsFiniteSet(S)
  BY ResourcesAre
<1> HIDE DEF S
<1>2. Sends(SendAll({Ec2Instance(r, bad) : r \in S}), S, {})
  <2> DEFINE F == [r \in S |-> Ec2Instance(r, bad)]
  <2>1. \A r \in S : Of(F[r], r, {})
    BY <1>1, InstancesAre
  <2>2. {F[r] : r \in S} = {Ec2Instance(r, bad) : r \in S}
    OBVIOUS
  <2> HIDE DEF F
  <2> QED BY <1>1, <2>1, <2>2, SendAllSends
<1>3. Sends(SendAll({RdsInstance(r, bad) : r \in S}), S, {})
  <2> DEFINE F == [r \in S |-> RdsInstance(r, bad)]
  <2>1. \A r \in S : Of(F[r], r, {})
    BY <1>1, InstancesAre
  <2>2. {F[r] : r \in S} = {RdsInstance(r, bad) : r \in S}
    OBVIOUS
  <2> HIDE DEF F
  <2> QED BY <1>1, <2>1, <2>2, SendAllSends
<1>4. Sends(SendAll({EsDomain(r, bad) : r \in S}), S, {})
  <2> DEFINE F == [r \in S |-> EsDomain(r, bad)]
  <2>1. \A r \in S : Of(F[r], r, {})
    BY <1>1, InstancesAre
  <2>2. {F[r] : r \in S} = {EsDomain(r, bad) : r \in S}
    OBVIOUS
  <2> HIDE DEF F
  <2> QED BY <1>1, <2>1, <2>2, SendAllSends
<1>5. Sends(SendAll({ElastiCacheInstance(r, bad) : r \in S}), S, {})
  <2> DEFINE F == [r \in S |-> ElastiCacheInstance(r, bad)]
  <2>1. \A r \in S : Of(F[r], r, {})
    BY <1>1, InstancesAre
  <2>2. {F[r] : r \in S} = {ElastiCacheInstance(r, bad) : r \in S}
    OBVIOUS
  <2> HIDE DEF F
  <2> QED BY <1>1, <2>1, <2>2, SendAllSends
<1>6. Sends(SendAll({Found(r, LambdaStats(r), None, {}, {}) : r \in S}), S, {})
  <2> DEFINE F == [r \in S |-> Found(r, LambdaStats(r), None, {}, {})]
  <2>1. \A r \in S : Of(F[r], r, {})
    BY <1>1, InstancesAre
  <2>2. {F[r] : r \in S} = {Found(r, LambdaStats(r), None, {}, {}) : r \in S}
    OBVIOUS
  <2> HIDE DEF F
  <2> QED BY <1>1, <2>1, <2>2, SendAllSends
<1>7. Sends(SendAll({Found(r, None, r.region, {}, {}) : r \in S}), S, {})
  <2> DEFINE F == [r \in S |-> Found(r, None, r.region, {}, {})]
  <2>1. \A r \in S : Of(F[r], r, {})
    BY <1>1, InstancesAre
  <2>2. {F[r] : r \in S} = {Found(r, None, r.region, {}, {}) : r \in S}
    OBVIOUS
  <2> HIDE DEF F
  <2> QED BY <1>1, <2>1, <2>2, SendAllSends
<1>8. service \in AllServices
  BY UsageAssumption DEF Fixed
<1> QED BY <1>2, <1>3, <1>4, <1>5, <1>6, <1>7, <1>8
        DEF S, DailyOf, Ec2Daily, RdsDaily, EsDaily, ElastiCacheDaily, LambdaDaily,
            Ec2ReservationDaily, RdsReservationDaily, AllServices
\* The goroutines of a monthly report.
LEMMA GoroutinesAre ==
    ASSUME NEW a
    PROVE  /\ Goroutines(a, "daily") = Regions
           /\ service \in {"ec2", "rds", "elasticache"} =>
                  Goroutines(a, "monthly") = {c \in inventory[a] \X Regions : Zone(c[1]) = c[2]}
           /\ service = "es" => Goroutines(a, "monthly") = inventory[a] \X Regions
<1>1. "monthly" # "daily"
  OBVIOUS
<1>2. Goroutines(a, "daily") = Regions
  BY DEF Goroutines
<1>3. CASE service = "ec2"
  BY <1>1, <1>2, <1>3 DEF Goroutines, Ec2Goroutines
<1>4. CASE service = "rds"
  BY <1>1, <1>2, <1>4 DEF Goroutines, RdsGoroutines
<1>5. CASE service = "elasticache"
  BY <1>1, <1>2, <1>5 DEF Goroutines, ElastiCacheGoroutines
<1>6. CASE service = "es"
  BY <1>1, <1>2, <1>6 DEF Goroutines, EsGoroutines
<1> QED BY <1>2, <1>3, <1>4, <1>5, <1>6

\* A goroutine of a monthly report is of a resource and a region.
LEMMA PlaceIs ==
    ASSUME Fixed, NEW a \in Accounts, service \in Monthly, NEW c \in Goroutines(a, "monthly")
    PROVE  /\ c = <<c[1], c[2]>> /\ c[1] \in inventory[a] /\ c[1] \in Resource /\ c[2] \in Regions
           /\ c \notin Regions
           /\ service # "es" => Zone(c[1]) = c[2]
<1>1. c \in inventory[a] \X Regions
  BY GoroutinesAre DEF Monthly
<1>2. c[1] \in Resource
  BY <1>1, ResourcesAre
<1>3. service # "es" => Zone(c[1]) = c[2]
  BY GoroutinesAre DEF Monthly
<1>4. c \in Resource \X Regions
  BY <1>1, <1>2
<1>5. c \notin Regions
  BY <1>4, UsageAssumption
<1> QED BY <1>1, <1>2, <1>3, <1>5

\* What it asks for.
Target(a, c) ==
    IF service = "ec2" THEN {c[1]}
    ELSE IF service = "rds" THEN {c[1]} \cap cloud[a]
    ELSE IF service = "es" THEN {x \in InRegion(a, c[2]) : x.name = c[1].name}
    ELSE InRegion(a, c[2])

\* One finding, or none.
LEMMA OneSends ==
    ASSUME NEW f, NEW r, NEW costs, Of(f, r, costs)
    PROVE  Sends(<<f>>, {r}, costs)
<1>1. ToSet(<<f>>) = {f}
  BY DEF ToSet
<1> QED BY <1>1 DEF Sends, Of

LEMMA NoneSends == ASSUME NEW costs PROVE Sends(<<>>, {}, costs) /\ ToSet(<<>>) = {}
BY DEF Sends, ToSet

\* An instance that is gone.
LEMMA EarlierIs ==
    ASSUME docs \subseteq Document, NEW a, NEW r \in Resource
    PROVE  Of(FromEarlierReports(a, r), r, {Own(r)})
<1> DEFINE earlier == {d \in docs : d.account = a /\ d.res = r}
           place == IF earlier = {} THEN None ELSE (CHOOSE d \in earlier : TRUE).place
<1>1. place \in Regions \cup {None}
  BY DEF Document
<1>2. FromEarlierReports(a, r) = Found(r, None, place, {}, {Own(r)})
  BY DEF FromEarlierReports
<1>3. {Own(r)} \in SUBSET Charge
  BY DEF Own, Item, Charge
<1> HIDE DEF place
<1> QED BY <1>1, <1>2, <1>3 DEF Of, Found, Finding

\* The goroutines of instances.
LEMMA Ec2Sends ==
    ASSUME Fixed, docs \subseteq Document, NEW a \in Accounts, NEW r \in Resource, NEW bad
    PROVE  /\ Sends(Ec2Monthly(a, r, bad), {r}, {Own(r)})
           /\ bad = {} /\ r \in cloud[a] => \A f \in ToSet(Ec2Monthly(a, r, bad)) : f.volumes = {r}
<1> DEFINE f == [Ec2Instance(r, bad) EXCEPT !.costs = {Own(r)}]
<1>1. Of(f, r, {Own(r)}) /\ (bad = {} => f.volumes = {r})
  BY InstancesAre, CostedIs
<1>2. CASE r \in cloud[a]
  <2>1. Ec2Monthly(a, r, bad) = <<f>>
    BY <1>2 DEF Ec2Monthly
  <2> HIDE DEF f
  <2>2. ToSet(<<f>>) = {f}
    BY DEF ToSet
  <2> QED BY <1>1, <2>1, <2>2, OneSends
<1>3. CASE r \notin cloud[a]
  BY <1>3, EarlierIs, OneSends DEF Ec2Monthly
<1> QED BY <1>2, <1>3

\* The goroutines of databases.
LEMMA RdsSends ==
    ASSUME Fixed, NEW a \in Accounts, NEW r \in Resource, NEW bad
    PROVE  Sends(RdsMonthly(a, r, bad), {r} \cap cloud[a], {Own(r)})
<1> DEFINE f == [RdsInstance(r, bad) EXCEPT !.costs = {Own(r)}]
<1>1. Of(f, r, {Own(r)})
  BY InstancesAre, CostedIs
<1>2. CASE r \in cloud[a]
  <2>1. RdsMonthly(a, r, bad) = <<f>> /\ {r} \cap cloud[a] = {r}
    BY <1>2 DEF RdsMonthly
  <2> HIDE DEF f
  <2> QED BY <1>1, <2>1, OneSends
<1>3. CASE r \notin cloud[a]
  <2>1. {r} \cap cloud[a] = {}
    BY <1>3
  <2> QED BY <1>3, <2>1, NoneSends DEF RdsMonthly
<1> QED BY <1>2, <1>3

\* The goroutines of domains.
LEMMA EsSends ==
    ASSUME Fixed, NEW a \in Accounts, NEW r \in Resource, NEW g, NEW bad
    PROVE  Sends(EsMonthly(a, r, g, bad), {x \in InRegion(a, g) : x.name = r.name}, {Own(r)})
<1> DEFINE S == {x \in InRegion(a, g) : x.name = r.name}
           F == [x \in S |-> [EsDomain(x, bad) EXCEPT !.costs = {Own(r)}]]
<1>1. S \in SUBSET Resource /\ IsFiniteSet(S)
  <2>1. InRegion(a, g) \in SUBSET Resource /\ IsFiniteSet(InRegion(a, g))
    BY ResourcesAre
  <2> QED BY <2>1, FS_Subset
<1>2. \A x \in S : Of(F[x], x, {Own(r)})
  <2> SUFFICES ASSUME NEW x \in S PROVE Of(F[x], x, {Own(r)})
    OBVIOUS
  <2>1. F[x] = [EsDomain(x, bad) EXCEPT !.costs = {Own(r)}]
    OBVIOUS
  <2>2. x \in Resource
    BY <1>1
  <2> HIDE DEF F
  <2> QED BY <2>1, <2>2, InstancesAre, CostedIs
<1>3. EsMonthly(a, r, g, bad) = SendAll({F[x] : x \in S})
  BY DEF EsMonthly
<1> HIDE DEF S, F
<1>4. Sends(SendAll({F[x] : x \in S}), S, {Own(r)})
  BY <1>1, <1>2, SendAllSends
<1> QED BY <1>3, <1>4 DEF S

\* The goroutines of clusters.
LEMMA ElastiCacheSends ==
    ASSUME Fixed, NEW a \in Accounts, NEW r \in Resource, NEW g, NEW bad
    PROVE  Sends(ElastiCacheMonthly(a, r, g, bad), InRegion(a, g), {Own(r)})
<1> DEFINE S == InRegion(a, g)
           F == [x \in S |-> [ElastiCacheInstance(x, bad) EXCEPT !.costs = {Own(r)}]]
<1>1. S \in SUBSET Resource /\ IsFiniteSet(S)
  BY ResourcesAre
<1>2. \A x \in S : Of(F[x], x, {Own(r)})
  <2> SUFFICES ASSUME NEW x \in S PROVE Of(F[x], x, {Own(r)})
    OBVIOUS
  <2>1. F[x] = [ElastiCacheInstance(x, bad) EXCEPT !.costs = {Own(r)}]
    OBVIOUS
  <2>2. x \in Resource
    BY <1>1
  <2> HIDE DEF F
  <2> QED BY <2>1, <2>2, InstancesAre, CostedIs
<1>3. ElastiCacheMonthly(a, r, g, bad) = SendAll({F[x] : x \in S})
  BY DEF ElastiCacheMonthly
<1> HIDE DEF S, F
<1>4. Sends(SendAll({F[x] : x \in S}), S, {Own(r)})
  BY <1>1, <1>2, SendAllSends
<1> QED BY <1>3, <1>4 DEF S

\* The goroutines of the monthly report of any service.
LEMMA MonthlySends ==
    ASSUME Fixed, docs \subseteq Document, NEW a \in Accounts, service \in Monthly,
           NEW c \in Goroutines(a, "monthly"), NEW bad
    PROVE  /\ Sends(Sent(a, c, bad), Target(a, c), {Own(c[1])})
           /\ service = "ec2" /\ bad = {} /\ c[1] \in cloud[a] =>
                  \A f \in ToSet(Sent(a, c, bad)) : f.volumes = {c[1]}
<1>1. c[1] \in Resource /\ c \notin Regions
  BY PlaceIs
<1>2. CASE service = "ec2"
  <2>1. Sent(a, c, bad) = Ec2Monthly(a, c[1], bad)
    BY <1>1, <1>2 DEF Sent
  <2>2. Target(a, c) = {c[1]}
    BY <1>2 DEF Target
  <2>3. Sends(Ec2Monthly(a, c[1], bad), {c[1]}, {Own(c[1])})
    BY <1>1, Ec2Sends
  <2>4. bad = {} /\ c[1] \in cloud[a] => \A f \in ToSet(Ec2Monthly(a, c[1], bad)) : f.volumes = {c[1]}
    BY <1>1, Ec2Sends
  <2> QED BY <2>1, <2>2, <2>3, <2>4
<1>3. CASE service = "rds"
  <2>1. Sent(a, c, bad) = RdsMonthly(a, c[1], bad)
    BY <1>1, <1>3 DEF Sent
  <2>2. Target(a, c) = {c[1]} \cap cloud[a]
    BY <1>3 DEF Target
  <2> QED BY <1>1, <1>3, <2>1, <2>2, RdsSends
<1>4. CASE service = "es"
  <2>1. Sent(a, c, bad) = EsMonthly(a, c[1], c[2], bad)
    BY <1>1, <1>4 DEF Sent
  <2>2. Target(a, c) = {x \in InRegion(a, c[2]) : x.name = c[1].name}
    BY <1>4 DEF Target
  <2> QED BY <1>1, <1>4, <2>1, <2>2, EsSends
<1>5. CASE service = "elasticache"
  <2>1. Sent(a, c, bad) = ElastiCacheMonthly(a, c[1], c[2], bad)
    BY <1>1, <1>5 DEF Sent
  <2>2. Target(a, c) = InRegion(a, c[2])
    BY <1>5 DEF Target
  <2> QED BY <1>1, <1>5, <2>1, <2>2, ElastiCacheSends
<1> QED BY <1>2, <1>3, <1>4, <1>5 DEF Monthly
-----------------------------------------------------------------------------
(* What a report may hold, and what it must hold *)

\* x is the resource, or one that its cost may be taken for.
Payer(f, x) ==
    \/ x = f.res
    \/ service = "elasticache" /\ Zone(x) = f.res.region
    \/ service = "es" /\ x.name = f.res.name

Right(a, type, f) ==
    /\ f \in Finding /\ f.res \in inventory[a] /\ f.volumes \subseteq {f.res}
    /\ type = "daily" => f.costs = {}
    /\ type = "monthly" => \E x \in inventory[a] : f.costs = {Own(x)} /\ Payer(f, x)

WithVolumes(a, type, f) ==
    type = "monthly" /\ service = "ec2" /\ f.res \in cloud[a] => f.volumes = {f.res}

\* A report has to have this resource, and this is the goroutine that finds it.
Promised(a, type, r) ==
    /\ r \in inventory[a]
    /\ type = "monthly" => (service # "ec2" => r \in cloud[a]) /\ (service # "es" => Zone(r) # None)

Home(type, r) == IF type = "daily" THEN r.region ELSE <<r, r.region>>

Types == {"daily", "monthly"}

\* Monthly reports are made of four services, and daily ones while nothing is deleted.
Suits(type) == type \in Types /\ (type = "monthly" => service \in Monthly)
               /\ (type = "daily" => cloud = inventory)

\* The goroutine is among those of the report.
LEMMA HomeIs ==
    ASSUME Fixed, NEW a \in Accounts, NEW type, Suits(type), NEW r, Promised(a, type, r)
    PROVE  Home(type, r) \in Goroutines(a, type)
<1>1. r \in Resource /\ r.region \in Regions /\ r \in inventory[a]
  BY ResourcesAre DEF Promised, Resource
<1>2. CASE type = "daily"
  BY <1>1, <1>2, GoroutinesAre DEF Home
<1>3. CASE type = "monthly"
  <2>1. Home(type, r) = <<r, r.region>>
    BY <1>3 DEF Home
  <2>2. <<r, r.region>> \in inventory[a] \X Regions
    BY <1>1
  <2>3. CASE service = "es"
    BY <1>3, <2>1, <2>2, <2>3, GoroutinesAre
  <2>4. CASE service # "es"
    <3>1. Zone(r) = r.region
      BY <1>3, <2>4 DEF Promised, Zone
    <3>2. service \in {"ec2", "rds", "elasticache"}
      BY <1>3, <2>4 DEF Suits, Monthly
    <3>3. Goroutines(a, type) = {c \in inventory[a] \X Regions : Zone(c[1]) = c[2]}
      BY <1>3, <3>2, GoroutinesAre
    <3> DEFINE c == <<r, r.region>>
    <3>4. c \in inventory[a] \X Regions /\ Zone(c[1]) = c[2]
      BY <2>2, <3>1
    <3> HIDE DEF c
    <3>5. c \in Goroutines(a, type)
      BY <3>3, <3>4
    <3> QED BY <2>1, <3>5 DEF c
  <2> QED BY <2>3, <2>4
<1> QED BY <1>2, <1>3 DEF Suits, Types

\* What a goroutine sends when it is told.
LEMMA SentIs ==
    ASSUME Fixed, docs \subseteq Document, NEW a \in Accounts, NEW type, Suits(type),
           NEW c \in Goroutines(a, type), NEW bad
    PROVE  /\ Sent(a, c, bad) \in Seq(Finding)
           /\ \A f \in ToSet(Sent(a, c, bad)) : Right(a, type, f) /\ (bad = {} => WithVolumes(a, type, f))
           /\ \A r : Promised(a, type, r) /\ Home(type, r) = c => \E f \in ToSet(Sent(a, c, bad)) : f.res = r
<1> DEFINE s == Sent(a, c, bad)
<1>1. CASE type = "daily"
  <2>1. c \in Regions
    BY <1>1, GoroutinesAre
  <2>2. s = DailyOf(a, c, bad)
    BY <2>1 DEF Sent
  <2>3. Sends(s, InRegion(a, c), {})
    BY <2>2, DailySends
  <2> HIDE DEF s
  <2>4. ASSUME NEW f \in ToSet(s) PROVE Right(a, type, f) /\ WithVolumes(a, type, f)
    <3>1. f.res \in InRegion(a, c) /\ Of(f, f.res, {})
      BY <2>3 DEF Sends
    <3>2. f.res \in inventory[a]
      BY <3>1 DEF InRegion, Fixed
    <3> QED BY <1>1, <3>1, <3>2 DEF Right, WithVolumes, Of
  <2>5. ASSUME NEW r, Promised(a, type, r), Home(type, r) = c PROVE \E f \in ToSet(s) : f.res = r
    <3>1. r \in InRegion(a, c)
      BY <1>1, <2>5 DEF Promised, Home, InRegion, Suits
    <3> QED BY <2>3, <3>1 DEF Sends
  <2> QED BY <2>3, <2>4, <2>5 DEF s, Sends
<1>2. CASE type = "monthly"
  <2>0. service \in Monthly /\ c \in Goroutines(a, "monthly")
    BY <1>2 DEF Suits
  <2>1. c = <<c[1], c[2]>> /\ c[1] \in inventory[a] /\ c[1] \in Resource /\ (service # "es" => Zone(c[1]) = c[2])
    BY <2>0, PlaceIs
  <2>2. Sends(s, Target(a, c), {Own(c[1])})
    BY <2>0, MonthlySends
  <2>3. service = "ec2" /\ bad = {} /\ c[1] \in cloud[a] => \A f \in ToSet(s) : f.volumes = {c[1]}
    BY <2>0, MonthlySends
  <2> HIDE DEF s
  <2>4. ASSUME NEW f \in ToSet(s) PROVE Right(a, type, f) /\ (bad = {} => WithVolumes(a, type, f))
    <3>1. f.res \in Target(a, c) /\ Of(f, f.res, {Own(c[1])})
      BY <2>2 DEF Sends
    <3>2. f.res \in inventory[a]
      <4>1. \A x \in InRegion(a, c[2]) : x \in inventory[a]
        BY DEF InRegion, Fixed
      <4> QED BY <2>1, <3>1, <4>1 DEF Target
    <3>3. Payer(f, c[1])
      <4>1. CASE service \in {"ec2", "rds"}
        BY <3>1, <4>1 DEF Target, Payer
      <4>2. CASE service = "es"
        BY <3>1, <4>2 DEF Target, Payer
      <4>3. CASE service = "elasticache"
        <5>1. f.res \in InRegion(a, c[2])
          BY <3>1, <4>3 DEF Target
        <5> QED BY <2>1, <4>3, <5>1 DEF InRegion, Payer
      <4> QED BY <2>0, <4>1, <4>2, <4>3 DEF Monthly
    <3>4. Right(a, type, f)
      BY <1>2, <2>1, <3>1, <3>2, <3>3 DEF Right, Of
    <3>5. service = "ec2" => f.res = c[1]
      BY <3>1 DEF Target
    <3>6. bad = {} => WithVolumes(a, type, f)
      BY <2>3, <3>5 DEF WithVolumes
    <3> QED BY <3>4, <3>6
  <2>5. ASSUME NEW r, Promised(a, type, r), Home(type, r) = c PROVE \E f \in ToSet(s) : f.res = r
    <3>1. c[1] = r /\ c[2] = r.region
      BY <1>2, <2>5 DEF Home
    <3>2. service # "ec2" => r \in cloud[a]
      BY <1>2, <2>5 DEF Promised
    <3>3. r \in Target(a, c)
      BY <3>1, <3>2 DEF Target, InRegion
    <3> QED BY <2>2, <3>3 DEF Sends
  <2> QED BY <2>2, <2>4, <2>5 DEF s, Sends
<1> QED BY <1>1, <1>2 DEF Suits, Types

\* What it sends when AWS fails.
LEMMA SentOnErrorIs ==
    ASSUME Fixed, docs \subseteq Document, NEW a \in Accounts, NEW type, Suits(type),
           NEW c \in Goroutines(a, type)
    PROVE  /\ SentOnError(a, c) \in Seq(Finding)
           /\ \A f \in ToSet(SentOnError(a, c)) : Right(a, type, f)
<1>1. CASE SentOnError(a, c) = <<>>
  BY <1>1, NoneSends DEF Sends
<1>2. CASE SentOnError(a, c) # <<>>
  <2>1. service = "ec2" /\ c \notin Regions /\ SentOnError(a, c) = <<FromEarlierReports(a, c[1])>>
    BY <1>2 DEF SentOnError
  <2>2. type = "monthly"
    BY <2>1, GoroutinesAre DEF Suits, Types
  <2>3. c[1] \in inventory[a] /\ c[1] \in Resource
    BY <2>2, PlaceIs DEF Suits
  <2> DEFINE f == FromEarlierReports(a, c[1])
  <2>4. Of(f, c[1], {Own(c[1])})
    BY <2>3, EarlierIs
  <2> HIDE DEF f
  <2>5. Right(a, type, f)
    BY <2>2, <2>3, <2>4 DEF Of, Right, Payer
  <2>6. ToSet(<<f>>) = {f} /\ <<f>> \in Seq(Finding)
    BY <2>4 DEF ToSet, Of
  <2> QED BY <2>1, <2>5, <2>6 DEF f
<1> QED BY <1>1, <1>2
-----------------------------------------------------------------------------
(* The inductive invariant *)

Places == Regions \cup (Resource \X Regions)
Job    == [account : Accounts, type : Types, date : Dates \cup {MonthStart}, got : Seq(Finding),
           waiting : SUBSET Places, chans : UNION {[D -> Seq(Finding)] : D \in SUBSET Places}]

\* All that the goroutines have sent.
Obtained(j) == ToSet(j.got) \cup UNION {ToSet(j.chans[c]) : c \in DOMAIN j.chans}

\* A report that is being made: each of its goroutines waits or has its channel, what
\* they sent is right and, if nothing went wrong, what is promised and not sent is
\* still waited for.
Report(j) ==
    /\ j \in Job
    /\ Suits(j.type)
    /\ j.date = MonthStart <=> j.type = "monthly"
    /\ j.waiting \cup DOMAIN j.chans = Goroutines(j.account, j.type)
    /\ j.waiting \cap DOMAIN j.chans = {}
    /\ \A f \in Obtained(j) : Right(j.account, j.type, f)
    /\ <<j.account, j.date>> \notin harmed =>
           /\ \A f \in Obtained(j) : WithVolumes(j.account, j.type, f)
           /\ \A r : Promised(j.account, j.type, r) =>
                  \/ Home(j.type, r) \in j.waiting
                  \/ \E f \in Obtained(j) : f.res = r

JobInv == job # NoJob => Report(job)

\* The charges of a monthly report, one document at a time.
OwnCost(d) ==
    \/ {i.res : i \in d.costs} = {d.res}
    \/ service = "elasticache" /\ \E x \in inventory[d.account] \ {d.res} : Zone(x) = d.res.region
    \/ service = "es" /\ Namesake(d.account, d.res)

Volumes(d) ==
    service = "ec2" /\ d.date = MonthStart /\ Item("volume", d.res) \notin d.costs
    => d.res \notin cloud[d.account] \/ <<d.account, MonthStart>> \in harmed

DocOk(d) ==
    /\ d.id = IdOf(d.res) /\ d.res \in inventory[d.account] /\ d.volumes \subseteq {d.res}
    /\ d.date # MonthStart => d.costs = {}
    /\ d.date = MonthStart => OwnCost(d)
    /\ Volumes(d)
    /\ IsFiniteSet(d.costs)

DocsInv ==
    /\ docs \subseteq Document /\ IsFiniteSet(docs)
    /\ \A d, e \in docs : SameKey(d, e) => d = e
    /\ \A d \in docs : DocOk(d)

HistoryInv ==
    /\ harmed \subseteq Accounts \X (Dates \cup {MonthStart})
    /\ ends \subseteq Accounts \X (Dates \cup {MonthStart})
    /\ ReportIsWhole

UsageInv == Fixed /\ JobInv /\ DocsInv /\ HistoryInv

\* What the definitions of a service and of an account depend on.
LEMMA Kept ==
    ASSUME UNCHANGED <<service, inventory>>
    PROVE  /\ \A a, type, f : Right(a, type, f)' <=> Right(a, type, f)
           /\ \A a, type : Goroutines(a, type)' = Goroutines(a, type)
           /\ \A r : IdOf(r)' = IdOf(r)
           /\ \A a, r : Namesake(a, r)' <=> Namesake(a, r)
           /\ \A d : OwnCost(d)' <=> OwnCost(d)
<1>1. ASSUME NEW a, NEW type, NEW f PROVE Right(a, type, f)' <=> Right(a, type, f)
  BY DEF Right, Payer
<1>2. ASSUME NEW a, NEW type PROVE Goroutines(a, type)' = Goroutines(a, type)
  BY DEF Goroutines, Ec2Goroutines, RdsGoroutines, EsGoroutines, ElastiCacheGoroutines
<1>3. \A r : IdOf(r)' = IdOf(r)
  BY DEF IdOf
<1>4. ASSUME NEW a, NEW r PROVE Namesake(a, r)' <=> Namesake(a, r)
  BY <1>3 DEF Namesake
<1>5. ASSUME NEW d PROVE OwnCost(d)' <=> OwnCost(d)
  BY <1>4 DEF OwnCost
<1> QED BY <1>1, <1>2, <1>3, <1>4, <1>5

\* The same with the resources that exist.
LEMMA KeptCloud ==
    ASSUME UNCHANGED <<service, inventory, cloud>>
    PROVE  /\ \A a, type, f : WithVolumes(a, type, f)' <=> WithVolumes(a, type, f)
           /\ \A a, type, r : Promised(a, type, r)' <=> Promised(a, type, r)
           /\ \A type : Suits(type)' <=> Suits(type)
BY DEF WithVolumes, Promised, Suits

LEMMA InitInv == Init => UsageInv
<1> SUFFICES ASSUME Init PROVE UsageInv
  OBVIOUS
<1>1. Fixed
  <2>1. inventory \in [Accounts -> {S \in SUBSET Resource : IsFiniteSet(S)}] /\ MaxDays \in Nat
    BY UsageAssumption DEF Init
  <2>2. inventory \in [Accounts -> SUBSET Resource]
    BY <2>1
  <2> QED BY <2>1, <2>2 DEF Init, Fixed
<1>2. DocsInv
  BY FS_EmptySet DEF Init, DocsInv
<1> QED BY <1>1, <1>2 DEF Init, UsageInv, JobInv, HistoryInv, ReportIsWhole

LEMMA DatesAre == Dates \subseteq Nat /\ MonthStart \notin Dates /\ MonthStart = 0 /\ MaxDays \in Nat
BY UsageAssumption DEF Dates, MonthStart

\* A report begins.
LEMMA LaunchReport ==
    ASSUME Fixed, NEW a \in Accounts, NEW type, Suits(type), NEW date \in Dates \cup {MonthStart},
           date = MonthStart <=> type = "monthly", UNCHANGED <<service, inventory, cloud>>,
           Launch(a, type, date)
    PROVE  JobInv'
<1> DEFINE j == [account |-> a, type |-> type, date |-> date, got |-> <<>>,
                 waiting |-> Goroutines(a, type), chans |-> [c \in {} |-> <<>>]]
<1>1. job' = j
  BY DEF Launch
<1>2. Goroutines(a, type) \in SUBSET Places
  <2>1. CASE type = "daily"
    BY <2>1, GoroutinesAre DEF Places
  <2>2. CASE type = "monthly"
    <3>1. \A c \in Goroutines(a, type) : c \in Resource \X Regions
      <4> SUFFICES ASSUME NEW c \in Goroutines(a, type) PROVE c \in Resource \X Regions
        OBVIOUS
      <4>1. c = <<c[1], c[2]>> /\ c[1] \in Resource /\ c[2] \in Regions
        BY <2>2, PlaceIs DEF Suits
      <4> QED BY <4>1
    <3> QED BY <3>1 DEF Places
  <2> QED BY <2>1, <2>2 DEF Suits, Types
<1>3. j \in Job
  <2>1. [c \in {} |-> <<>>] \in [{} -> Seq(Finding)] /\ <<>> \in Seq(Finding)
    OBVIOUS
  <2>2. [c \in {} |-> <<>>] \in UNION {[D -> Seq(Finding)] : D \in SUBSET Places}
    BY <2>1
  <2> QED BY <1>2, <2>1, <2>2 DEF Job, Suits
<1>4. Obtained(j) = {}
  BY DEF Obtained, ToSet
<1>5. j.account = a /\ j.type = type /\ j.date = date /\ j.waiting = Goroutines(a, type) /\ DOMAIN j.chans = {}
  OBVIOUS
<1>6. \A r : Promised(a, type, r) => Home(type, r) \in Goroutines(a, type)
  BY HomeIs
<1> HIDE DEF j
<1>7. Report(job)'
  <2>1. (job \in Job)' /\ Suits(job.type)'
    BY <1>1, <1>3, <1>5, KeptCloud
  <2>2. (job.date = MonthStart <=> job.type = "monthly")'
    BY <1>1, <1>5
  <2>3. Goroutines(a, type)' = Goroutines(a, type)
    BY Kept
  <2>4. (job.waiting \cup DOMAIN job.chans = Goroutines(job.account, job.type))'
        /\ (job.waiting \cap DOMAIN job.chans = {})'
    BY <1>1, <1>5, <2>3
  <2>5. Obtained(job)' = {}
    BY <1>1, <1>4 DEF Obtained
  <2>6. \A r : Promised(job.account, job.type, r)' => Home(job.type, r)' \in job'.waiting
    BY <1>1, <1>5, <1>6, KeptCloud DEF Home
  <2> QED BY <2>1, <2>2, <2>4, <2>5, <2>6 DEF Report
<1> QED BY <1>7 DEF JobInv
-----------------------------------------------------------------------------
(* The steps of a report *)

\* A goroutine opens its channel.
LEMMA OpenIs ==
    ASSUME job \in Job, NEW c \in job.waiting, NEW sent \in Seq(Finding), Open(c, sent)
    PROVE  /\ job' \in Job
           /\ job'.account = job.account /\ job'.type = job.type /\ job'.date = job.date
           /\ job'.got = job.got /\ job'.waiting = job.waiting \ {c}
           /\ DOMAIN job'.chans = DOMAIN job.chans \cup {c}
           /\ \A x \in DOMAIN job.chans \cup {c} : job'.chans[x] = IF x = c THEN sent ELSE job.chans[x]
<1> DEFINE ch == [x \in DOMAIN job.chans \cup {c} |-> IF x = c THEN sent ELSE job.chans[x]]
<1>1. job' = [job EXCEPT !.waiting = job.waiting \ {c}, !.chans = ch]
  BY DEF Open
<1>2. PICK D \in SUBSET Places : job.chans \in [D -> Seq(Finding)]
  BY DEF Job
<1>3. c \in Places
  BY DEF Job
<1>4. ch \in [D \cup {c} -> Seq(Finding)] /\ DOMAIN ch = DOMAIN job.chans \cup {c}
  BY <1>2
<1>5. ch \in UNION {[E -> Seq(Finding)] : E \in SUBSET Places}
  <2>1. D \cup {c} \in SUBSET Places
    BY <1>3
  <2> HIDE DEF ch
  <2> QED BY <1>4, <2>1
<1>6. \A x \in DOMAIN job.chans \cup {c} : ch[x] = IF x = c THEN sent ELSE job.chans[x]
  OBVIOUS
<1> HIDE DEF ch
<1>7. job.waiting \ {c} \in SUBSET Places
  BY DEF Job
<1> QED BY <1>1, <1>4, <1>5, <1>6, <1>7 DEF Job

LEMMA OpenReport ==
    ASSUME Fixed, Report(job), NEW c \in job.waiting, NEW sent \in Seq(Finding), Open(c, sent),
           UNCHANGED <<service, inventory, cloud>>, harmed \subseteq harmed',
           \A f \in ToSet(sent) : Right(job.account, job.type, f),
           About \notin harmed' =>
               /\ \A f \in ToSet(sent) : WithVolumes(job.account, job.type, f)
               /\ \A r : Promised(job.account, job.type, r) /\ Home(job.type, r) = c
                         => \E f \in ToSet(sent) : f.res = r
    PROVE  Report(job)'
<1>1. job \in Job /\ c \notin DOMAIN job.chans
  BY DEF Report
<1>2. /\ job' \in Job
      /\ job'.account = job.account /\ job'.type = job.type /\ job'.date = job.date
      /\ job'.got = job.got /\ job'.waiting = job.waiting \ {c}
      /\ DOMAIN job'.chans = DOMAIN job.chans \cup {c}
      /\ \A x \in DOMAIN job.chans \cup {c} : job'.chans[x] = IF x = c THEN sent ELSE job.chans[x]
  BY <1>1, OpenIs
<1>3. Obtained(job)' = Obtained(job) \cup ToSet(sent)
  <2>1. ASSUME NEW f PROVE f \in Obtained(job)' <=> f \in Obtained(job) \cup ToSet(sent)
    <3>1. f \in Obtained(job)' <=> f \in ToSet(job.got) \/ \E x \in DOMAIN job.chans \cup {c} : f \in ToSet(job'.chans[x])
      BY <1>2 DEF Obtained
    <3>2. (\E x \in DOMAIN job.chans \cup {c} : f \in ToSet(job'.chans[x]))
          <=> f \in ToSet(sent) \/ \E x \in DOMAIN job.chans : f \in ToSet(job.chans[x])
      BY <1>1, <1>2
    <3> QED BY <3>1, <3>2 DEF Obtained
  <2> QED BY <2>1
<1>4. Suits(job.type)' /\ (job.date = MonthStart <=> job.type = "monthly")'
  BY <1>2, KeptCloud DEF Report
<1>5. (job.waiting \cup DOMAIN job.chans = Goroutines(job.account, job.type))'
      /\ (job.waiting \cap DOMAIN job.chans = {})'
  <2>1. Goroutines(job.account, job.type)' = Goroutines(job.account, job.type)
    BY <1>2, Kept
  <2> QED BY <1>1, <1>2, <2>1 DEF Report
<1>6. \A f \in Obtained(job)' : Right(job.account, job.type, f)'
  BY <1>2, <1>3, Kept DEF Report
<1>7. ASSUME <<job.account, job.date>>' \notin harmed'
      PROVE  /\ \A f \in Obtained(job)' : WithVolumes(job.account, job.type, f)'
             /\ \A r : Promised(job.account, job.type, r)' =>
                    \/ Home(job.type, r)' \in job'.waiting
                    \/ \E f \in Obtained(job)' : f.res = r
  <2>1. About \notin harmed' /\ <<job.account, job.date>> \notin harmed
    BY <1>2, <1>7 DEF About
  <2>2. \A f \in Obtained(job)' : WithVolumes(job.account, job.type, f)'
    BY <1>2, <1>3, <2>1, KeptCloud DEF Report
  <2>3. ASSUME NEW r, Promised(job.account, job.type, r)'
        PROVE  Home(job.type, r)' \in job'.waiting \/ \E f \in Obtained(job)' : f.res = r
    <3>1. Promised(job.account, job.type, r) /\ Home(job.type, r)' = Home(job.type, r)
      BY <1>2, <2>3, KeptCloud DEF Home
    <3> QED BY <1>2, <1>3, <2>1, <3>1 DEF Report
  <2> QED BY <2>2, <2>3
<1> QED BY <1>2, <1>4, <1>5, <1>6, <1>7 DEF Report

\* A step of a report that leaves the rest as it is.
LEMMA OthersKept ==
    ASSUME UsageInv, UNCHANGED <<service, inventory, cloud, today, docs, ends>>,
           harmed \subseteq harmed', harmed' \subseteq Accounts \X (Dates \cup {MonthStart})
    PROVE  Fixed' /\ DocsInv' /\ HistoryInv'
<1>1. Fixed'
  BY DEF UsageInv, Fixed
<1>2. DocsInv'
  <2>1. \A d : DocOk(d) => DocOk(d)'
    BY Kept DEF DocOk, Volumes
  <2>2. \A d, e : SameKey(d, e)' <=> SameKey(d, e)
    BY DEF SameKey
  <2>3. Document' = Document
    BY DEF Document
  <2> QED BY <2>1, <2>2, <2>3 DEF UsageInv, DocsInv
<1>3. HistoryInv'
  <2>1. ReportIsWhole'
    <3>1. ReportIsWhole
      BY DEF UsageInv, HistoryInv
    <3>2. \A a, r : Namesake(a, r)' <=> Namesake(a, r)
      BY Kept
    <3> QED BY <3>1, <3>2 DEF ReportIsWhole
  <2> QED BY <2>1 DEF UsageInv, HistoryInv
<1> QED BY <1>1, <1>2, <1>3

LEMMA FetchInv == ASSUME UsageInv, Fetch PROVE UsageInv'
<1>1. Report(job) /\ Fixed /\ docs \subseteq Document
  BY DEF UsageInv, JobInv, DocsInv, Fetch
<1>2. PICK c \in job.waiting : Open(c, Sent(job.account, c, {})) /\ UNCHANGED <<service, inventory, cloud, harmed>>
  BY DEF Fetch
<1>3. job.account \in Accounts /\ Suits(job.type) /\ c \in Goroutines(job.account, job.type)
  BY <1>1 DEF Report, Job
<1> DEFINE sent == Sent(job.account, c, {})
<1>4. /\ sent \in Seq(Finding)
      /\ \A f \in ToSet(sent) : Right(job.account, job.type, f) /\ WithVolumes(job.account, job.type, f)
      /\ \A r : Promised(job.account, job.type, r) /\ Home(job.type, r) = c => \E f \in ToSet(sent) : f.res = r
  BY <1>1, <1>3, SentIs
<1> HIDE DEF sent
<1>5. Report(job)'
  BY <1>1, <1>2, <1>4, OpenReport DEF sent
<1>6. Fixed' /\ DocsInv' /\ HistoryInv'
  <2>1. UNCHANGED <<service, inventory, cloud, today, docs, ends, harmed>>
    BY DEF Fetch
  <2>2. harmed' \subseteq Accounts \X (Dates \cup {MonthStart})
    BY <2>1 DEF UsageInv, HistoryInv
  <2> QED BY <2>1, <2>2, OthersKept
<1> QED BY <1>5, <1>6 DEF UsageInv, JobInv

LEMMA FetchFailsInv == ASSUME UsageInv, FetchFails PROVE UsageInv'
<1>1. Report(job) /\ Fixed /\ docs \subseteq Document
  BY DEF UsageInv, JobInv, DocsInv, FetchFails
<1>2. PICK c \in job.waiting : \/ Open(c, SentOnError(job.account, c))
                               \/ \E bad \in {{"cpu"}, {"io"}} : Open(c, Sent(job.account, c, bad))
  BY DEF FetchFails
<1>3. job.account \in Accounts /\ Suits(job.type) /\ c \in Goroutines(job.account, job.type)
  BY <1>1 DEF Report, Job
<1>4. PICK sent \in Seq(Finding) : Open(c, sent) /\ \A f \in ToSet(sent) : Right(job.account, job.type, f)
  <2>1. CASE Open(c, SentOnError(job.account, c))
    BY <1>1, <1>3, <2>1, SentOnErrorIs
  <2>2. ASSUME NEW bad, Open(c, Sent(job.account, c, bad))
        PROVE  \E sent \in Seq(Finding) : Open(c, sent) /\ \A f \in ToSet(sent) : Right(job.account, job.type, f)
    BY <1>1, <1>3, <2>2, SentIs
  <2> QED BY <1>2, <2>1, <2>2
<1>5. harmed' = harmed \cup {About} /\ UNCHANGED <<service, inventory, cloud, today, docs, ends>>
  BY DEF FetchFails
<1>6. Report(job)'
  BY <1>1, <1>4, <1>5, OpenReport
<1>7. About \in Accounts \X (Dates \cup {MonthStart})
  BY <1>1 DEF About, Report, Job
<1>8. Fixed' /\ DocsInv' /\ HistoryInv'
  <2>1. harmed' \subseteq Accounts \X (Dates \cup {MonthStart})
    BY <1>5, <1>7 DEF UsageInv, HistoryInv
  <2> QED BY <1>5, <2>1, OthersKept
<1> QED BY <1>6, <1>8 DEF UsageInv, JobInv
\* A sequence is its first element and the others.
LEMMA HeadAndTail ==
    ASSUME NEW S, NEW s \in Seq(S), s # <<>>
    PROVE  Head(s) \in S /\ Tail(s) \in Seq(S) /\ ToSet(s) = {Head(s)} \cup ToSet(Tail(s))
<1>1. Len(s) \in Nat /\ Len(s) # 0 /\ DOMAIN s = 1 .. Len(s) /\ Head(s) = s[1]
  OBVIOUS
<1>2. Tail(s) \in Seq(S) /\ DOMAIN Tail(s) = 1 .. Len(s) - 1 /\ \A i \in 1 .. Len(s) - 1 : Tail(s)[i] = s[i + 1]
  OBVIOUS
<1>3. ASSUME NEW i \in 1 .. Len(s) PROVE s[i] \in {Head(s)} \cup ToSet(Tail(s))
  <2>1. CASE i = 1
    BY <1>1, <2>1
  <2>2. CASE i # 1
    <3>1. i - 1 \in 1 .. Len(s) - 1 /\ (i - 1) + 1 = i
      BY <1>1, <2>2
    <3>2. Tail(s)[i - 1] = s[i]
      BY <1>2, <3>1
    <3> QED BY <1>2, <3>1, <3>2 DEF ToSet
  <2> QED BY <2>1, <2>2
<1>4. ASSUME NEW i \in 1 .. Len(s) - 1 PROVE Tail(s)[i] \in ToSet(s)
  <2>1. i + 1 \in 1 .. Len(s)
    BY <1>1
  <2> QED BY <1>1, <1>2, <2>1 DEF ToSet
<1>5. Head(s) \in ToSet(s)
  BY <1>1 DEF ToSet
<1>6. ToSet(Tail(s)) \subseteq ToSet(s)
  BY <1>2, <1>4 DEF ToSet
<1>7. ToSet(s) \subseteq {Head(s)} \cup ToSet(Tail(s))
  BY <1>1, <1>3 DEF ToSet
<1> QED BY <1>1, <1>2, <1>5, <1>6, <1>7

LEMMA Appended ==
    ASSUME NEW S, NEW s \in Seq(S), NEW x \in S
    PROVE  Append(s, x) \in Seq(S) /\ ToSet(Append(s, x)) = ToSet(s) \cup {x}
<1> DEFINE t == Append(s, x)
<1>1. t \in Seq(S) /\ Len(s) \in Nat /\ DOMAIN s = 1 .. Len(s) /\ DOMAIN t = 1 .. Len(s) + 1
      /\ t[Len(s) + 1] = x /\ \A i \in 1 .. Len(s) : t[i] = s[i]
  OBVIOUS
<1> HIDE DEF t
<1>2. ASSUME NEW i \in 1 .. Len(s) + 1 PROVE t[i] \in ToSet(s) \cup {x}
  BY <1>1 DEF ToSet
<1>3. x \in ToSet(t)
  BY <1>1 DEF ToSet
<1>4. ASSUME NEW i \in 1 .. Len(s) PROVE s[i] \in ToSet(t)
  <2>1. i \in 1 .. Len(s) + 1
    BY <1>1
  <2> QED BY <1>1, <2>1 DEF ToSet
<1>5. ToSet(t) \subseteq ToSet(s) \cup {x}
  BY <1>1, <1>2 DEF ToSet
<1>6. ToSet(s) \subseteq ToSet(t)
  BY <1>1, <1>4 DEF ToSet
<1> QED BY <1>1, <1>3, <1>5, <1>6 DEF t

\* A value goes from its channel to the others: it is not lost.
LEMMA MergeIs ==
    ASSUME job \in Job, NEW c \in DOMAIN job.chans, job.chans[c] # <<>>,
           job' = [job EXCEPT !.got = Append(@, Head(job.chans[c])), !.chans[c] = Tail(@)]
    PROVE  /\ job' \in Job
           /\ job'.account = job.account /\ job'.type = job.type /\ job'.date = job.date
           /\ job'.waiting = job.waiting /\ DOMAIN job'.chans = DOMAIN job.chans
           /\ Obtained(job)' = Obtained(job)
<1> DEFINE ch == [job.chans EXCEPT ![c] = Tail(@)]
           gt == Append(job.got, Head(job.chans[c]))
<1>1. PICK D \in SUBSET Places : job.chans \in [D -> Seq(Finding)]
  BY DEF Job
<1>2. job.chans[c] \in Seq(Finding) /\ job.got \in Seq(Finding)
  BY <1>1 DEF Job
<1>3. /\ Head(job.chans[c]) \in Finding /\ Tail(job.chans[c]) \in Seq(Finding)
      /\ ToSet(job.chans[c]) = {Head(job.chans[c])} \cup ToSet(Tail(job.chans[c]))
  BY <1>2, HeadAndTail
<1>4. gt \in Seq(Finding) /\ ToSet(gt) = ToSet(job.got) \cup {Head(job.chans[c])}
  BY <1>2, <1>3, Appended
<1>5. ch \in [D -> Seq(Finding)] /\ DOMAIN ch = DOMAIN job.chans
      /\ \A x \in DOMAIN job.chans : ch[x] = IF x = c THEN Tail(job.chans[c]) ELSE job.chans[x]
  BY <1>1, <1>3
<1>6. job' = [job EXCEPT !.got = gt, !.chans = ch]
  BY DEF Job
<1> HIDE DEF gt, ch
<1>7. ch \in UNION {[E -> Seq(Finding)] : E \in SUBSET Places}
  BY <1>5
<1>8. /\ job' \in Job
      /\ job'.account = job.account /\ job'.type = job.type /\ job'.date = job.date
      /\ job'.waiting = job.waiting /\ job'.got = gt /\ job'.chans = ch
  BY <1>4, <1>6, <1>7 DEF Job
<1>9. ASSUME NEW f PROVE f \in Obtained(job)' <=> f \in Obtained(job)
  <2>1. f \in Obtained(job)' <=> f \in ToSet(gt) \/ \E x \in DOMAIN job.chans : f \in ToSet(ch[x])
    BY <1>5, <1>8 DEF Obtained
  <2>2. (\E x \in DOMAIN job.chans : f \in ToSet(ch[x]))
        <=> f \in ToSet(Tail(job.chans[c])) \/ \E x \in DOMAIN job.chans \ {c} : f \in ToSet(job.chans[x])
    BY <1>5
  <2>3. (\E x \in DOMAIN job.chans : f \in ToSet(job.chans[x]))
        <=> f \in ToSet(job.chans[c]) \/ \E x \in DOMAIN job.chans \ {c} : f \in ToSet(job.chans[x])
    OBVIOUS
  <2> QED BY <1>3, <1>4, <2>1, <2>2, <2>3 DEF Obtained
<1> QED BY <1>5, <1>8, <1>9

LEMMA MergeInv == ASSUME UsageInv, Merge PROVE UsageInv'
<1>1. Report(job) /\ Fixed
  BY DEF UsageInv, JobInv, Merge
<1>2. PICK c \in DOMAIN job.chans : /\ job.chans[c] # <<>>
                                    /\ job' = [job EXCEPT !.got = Append(@, Head(job.chans[c])), !.chans[c] = Tail(@)]
  BY DEF Merge
<1>3. UNCHANGED <<service, inventory, cloud, today, docs, ends, harmed>>
  BY DEF Merge
<1>4. /\ job' \in Job
      /\ job'.account = job.account /\ job'.type = job.type /\ job'.date = job.date
      /\ job'.waiting = job.waiting /\ DOMAIN job'.chans = DOMAIN job.chans
      /\ Obtained(job)' = Obtained(job)
  <2>1. job \in Job
    BY <1>1 DEF Report
  <2> QED BY <1>2, <2>1, MergeIs
<1>5. Report(job)'
  <2>1. Suits(job.type)' /\ (job.date = MonthStart <=> job.type = "monthly")'
    BY <1>1, <1>3, <1>4, KeptCloud DEF Report
  <2>2. Goroutines(job.account, job.type)' = Goroutines(job.account, job.type)
    BY <1>3, <1>4, Kept
  <2>3. (job.waiting \cup DOMAIN job.chans = Goroutines(job.account, job.type))'
        /\ (job.waiting \cap DOMAIN job.chans = {})'
    BY <1>1, <1>4, <2>2 DEF Report
  <2>4. \A f \in Obtained(job)' : Right(job.account, job.type, f)'
    BY <1>1, <1>3, <1>4, Kept DEF Report
  <2>5. ASSUME <<job.account, job.date>>' \notin harmed'
        PROVE  /\ \A f \in Obtained(job)' : WithVolumes(job.account, job.type, f)'
               /\ \A r : Promised(job.account, job.type, r)' =>
                      \/ Home(job.type, r)' \in job'.waiting
                      \/ \E f \in Obtained(job)' : f.res = r
    <3>1. <<job.account, job.date>> \notin harmed
      BY <1>3, <1>4, <2>5
    <3>2. \A f \in Obtained(job)' : WithVolumes(job.account, job.type, f)'
      BY <1>1, <1>3, <1>4, <3>1, KeptCloud DEF Report
    <3>3. ASSUME NEW r, Promised(job.account, job.type, r)'
          PROVE  Home(job.type, r)' \in job'.waiting \/ \E f \in Obtained(job)' : f.res = r
      <4>1. Promised(job.account, job.type, r) /\ Home(job.type, r)' = Home(job.type, r)
        BY <1>3, <1>4, <3>3, KeptCloud DEF Home
      <4> QED BY <1>1, <1>4, <3>1, <4>1 DEF Report
    <3> QED BY <3>2, <3>3
  <2> QED BY <1>4, <2>1, <2>3, <2>4, <2>5 DEF Report
<1>6. Fixed' /\ DocsInv' /\ HistoryInv'
  BY <1>3, OthersKept DEF UsageInv, HistoryInv
<1> QED BY <1>5, <1>6 DEF UsageInv, JobInv
-----------------------------------------------------------------------------
(* The import of a report *)

\* A document that exists is not written again, and of each key there is one then.
LEMMA CreateIs ==
    ASSUME NEW index, IsFiniteSet(index), \A d, e \in index : SameKey(d, e) => d = e,
           NEW n \in Nat, NEW ds, DOMAIN ds = 1 .. n
    PROVE  /\ index \subseteq Create(index, ds) /\ IsFiniteSet(Create(index, ds))
           /\ \A d \in Create(index, ds) : d \in index \/ \E i \in 1 .. n : d = ds[i]
           /\ \A d, e \in Create(index, ds) : SameKey(d, e) => d = e
           /\ \A i \in 1 .. n : \E e \in Create(index, ds) : SameKey(ds[i], e)
<1> DEFINE Exists(i) == \E e \in index \cup {ds[j] : j \in 1 .. i - 1} : SameKey(ds[i], e)
           new == {j \in 1 .. n : ~Exists(j)}
           all == Create(index, ds)
<1>1. all = index \cup {ds[i] : i \in new}
  BY DEF Create
<1>2. \A d, e, f : SameKey(d, d) /\ (SameKey(d, e) => SameKey(e, d)) /\ (SameKey(d, e) /\ SameKey(e, f) => SameKey(d, f))
  BY DEF SameKey
<1> HIDE DEF all
<1>3. IsFiniteSet(all)
  <2>1. IsFiniteSet(1 .. n)
    BY FS_Interval
  <2>2. IsFiniteSet(new)
    BY <2>1, FS_Subset
  <2> HIDE DEF new
  <2>3. IsFiniteSet({ds[i] : i \in new})
    BY <2>2, FiniteImage
  <2> QED BY <1>1, <2>3, FS_Union
<1>4. ASSUME NEW d \in all, NEW e \in all, SameKey(d, e) PROVE d = e
  <2>1. ASSUME NEW i \in new, NEW x \in index PROVE ~SameKey(ds[i], x)
    BY <2>1
  <2>2. ASSUME NEW i \in new, NEW j \in new, j < i PROVE ~SameKey(ds[i], ds[j])
    <3>1. j \in 1 .. i - 1
      BY <2>2
    <3> QED BY <2>2, <3>1
  <2>3. CASE d \in index /\ e \in index
    BY <1>4, <2>3
  <2>4. CASE d \in index /\ e \notin index
    BY <1>1, <1>2, <1>4, <2>1, <2>4
  <2>5. CASE d \notin index /\ e \in index
    BY <1>1, <1>2, <1>4, <2>1, <2>5
  <2>6. CASE d \notin index /\ e \notin index
    <3>1. PICK i \in new, j \in new : d = ds[i] /\ e = ds[j]
      BY <1>1, <2>6
    <3>2. ~(j < i) /\ ~(i < j)
      BY <1>2, <1>4, <2>2, <3>1
    <3>3. i = j
      BY <3>2
    <3> QED BY <3>1, <3>3
  <2> QED BY <2>3, <2>4, <2>5, <2>6
<1>5. ASSUME NEW i \in 1 .. n PROVE \E e \in all : SameKey(ds[i], e)
  <2> DEFINE K == {j \in 1 .. n : SameKey(ds[i], ds[j])}
  <2>1. K \in SUBSET Nat /\ i \in K
    BY <1>2
  <2>2. PICK k \in K : \A j \in K : k <= j
    <3> HIDE DEF K
    <3> QED BY <2>1, NatMin
  <2>3. CASE Exists(k)
    <3>1. PICK e \in index \cup {ds[j] : j \in 1 .. k - 1} : SameKey(ds[k], e)
      BY <2>3
    <3>2. e \in index
      <4>1. ASSUME NEW j \in 1 .. k - 1, e = ds[j] PROVE FALSE
        <5>1. j \in K
          BY <1>2, <2>2, <3>1, <4>1
        <5> QED BY <2>2, <5>1
      <4> QED BY <3>1, <4>1
    <3> QED BY <1>1, <1>2, <2>2, <3>1, <3>2
  <2>4. CASE ~Exists(k)
    BY <1>1, <2>2, <2>4
  <2> QED BY <2>3, <2>4
<1> QED BY <1>1, <1>3, <1>4, <1>5 DEF all

\* The document of what was found.
Made(f) == Doc(IF service = "ec2" /\ job.date = MonthStart THEN Ec2Costs(f) ELSE f)

LEMMA ImportedIs ==
    ASSUME NEW got \in Seq(Finding)
    PROVE  /\ Imported(got) = Create(docs, [i \in DOMAIN got |-> Made(got[i])])
           /\ \A f \in ToSet(got) : \E i \in DOMAIN got : got[i] = f
<1>1. CASE service = "ec2" /\ job.date = MonthStart
  <2> DEFINE costed == [i \in DOMAIN got |-> Ec2Costs(got[i])]
  <2>1. [i \in DOMAIN costed |-> Doc(costed[i])] = [i \in DOMAIN got |-> Made(got[i])]
    BY <1>1 DEF Made
  <2> HIDE DEF costed
  <2> QED BY <1>1, <2>1 DEF Imported, costed, ToSet
<1>2. CASE ~(service = "ec2" /\ job.date = MonthStart)
  <2>1. [i \in DOMAIN got |-> Doc(got[i])] = [i \in DOMAIN got |-> Made(got[i])]
    BY <1>2 DEF Made
  <2>2. Imported(got) = Create(docs, [i \in DOMAIN got |-> Doc(got[i])])
    BY <1>2 DEF Imported
  <2> QED BY <2>1, <2>2 DEF ToSet
<1> QED BY <1>1, <1>2

\* The ids of resources.
LEMMA IdIs ==
    ASSUME Fixed, NEW r \in Resource
    PROVE  /\ IdOf(r) \in Resource \cup Names
           /\ service = "es" => IdOf(r) = r.name
           /\ service \in {"rds", "elasticache"} => IdOf(r) = r.name
<1>1. service \in AllServices /\ r.name \in Names
  BY UsageAssumption DEF Fixed, Resource
<1>2. IdOf(r) = r \/ IdOf(r) = r.name
  BY <1>1 DEF AllServices, IdOf, Ec2Id, RdsId, EsId, ElastiCacheId, LambdaId, Ec2ReservationId, RdsReservationId
<1>3. service = "es" => IdOf(r) = r.name
  BY DEF IdOf, EsId
<1>4. service = "rds" => IdOf(r) = r.name
  BY DEF IdOf, RdsId
<1>5. service = "elasticache" => IdOf(r) = r.name
  BY DEF IdOf, ElastiCacheId
<1> QED BY <1>1, <1>2, <1>3, <1>4, <1>5

\* What a document takes from what was found.
LEMMA MadeFields ==
    ASSUME NEW f \in Finding
    PROVE  /\ Made(f).account = job.account /\ Made(f).date = job.date
           /\ Made(f).id = IdOf(f.res) /\ Made(f).res = f.res
           /\ Made(f).load = f.load /\ Made(f).place = f.place /\ Made(f).volumes = f.volumes
           /\ Made(f) = [account |-> job.account, date |-> job.date, id |-> IdOf(f.res), res |-> f.res,
                         load |-> f.load, place |-> f.place, volumes |-> f.volumes, costs |-> Made(f).costs]
           /\ Made(f).costs = IF service = "ec2" /\ job.date = MonthStart
                              THEN f.costs \cup {Item("volume", v) : v \in f.volumes} \cup {Item("cloudwatch", f.res)}
                              ELSE f.costs
<1> DEFINE g == Ec2Costs(f)
           costs == f.costs \cup {Item("volume", v) : v \in f.volumes} \cup {Item("cloudwatch", f.res)}
<1>1. g = [f EXCEPT !.costs = costs]
  BY DEF Ec2Costs
<1> HIDE DEF g, costs
<1>2. g.res = f.res /\ g.load = f.load /\ g.place = f.place /\ g.volumes = f.volumes /\ g.costs = costs
  BY <1>1 DEF Finding
<1>3. CASE service = "ec2" /\ job.date = MonthStart
  <2>1. Made(f) = Doc(g)
    BY <1>3 DEF Made, g
  <2>2. Made(f) = [account |-> job.account, date |-> job.date, id |-> IdOf(f.res), res |-> f.res,
                   load |-> f.load, place |-> f.place, volumes |-> f.volumes, costs |-> costs]
    BY <1>2, <2>1 DEF Doc
  <2> QED BY <1>3, <2>2 DEF costs
<1>4. CASE ~(service = "ec2" /\ job.date = MonthStart)
  <2>1. Made(f) = Doc(f)
    BY <1>4 DEF Made
  <2>2. Made(f) = [account |-> job.account, date |-> job.date, id |-> IdOf(f.res), res |-> f.res,
                   load |-> f.load, place |-> f.place, volumes |-> f.volumes, costs |-> f.costs]
    BY <2>1 DEF Doc
  <2> QED BY <1>4, <2>2
<1> QED BY <1>3, <1>4

\* The document has its type, and its costs are its own.
LEMMA MadeIs ==
    ASSUME Fixed, Report(job), NEW f, Right(job.account, job.type, f)
    PROVE  /\ Made(f) \in Document
           /\ Made(f).id = IdOf(Made(f).res) /\ Made(f).res \in inventory[Made(f).account]
           /\ Made(f).volumes \subseteq {Made(f).res}
           /\ Made(f).date # MonthStart => Made(f).costs = {}
           /\ Made(f).date = MonthStart => OwnCost(Made(f))
           /\ service = "ec2" /\ Made(f).date = MonthStart /\ Item("volume", f.res) \notin Made(f).costs
              => f.volumes # {f.res}
           /\ IsFiniteSet(Made(f).costs)
<1>1. f \in Finding /\ f.res \in inventory[job.account] /\ f.volumes \subseteq {f.res}
  BY DEF Right
<1>2. /\ Made(f).account = job.account /\ Made(f).date = job.date
      /\ Made(f).id = IdOf(f.res) /\ Made(f).res = f.res /\ Made(f).volumes = f.volumes
      /\ Made(f) = [account |-> job.account, date |-> job.date, id |-> IdOf(f.res), res |-> f.res,
                    load |-> f.load, place |-> f.place, volumes |-> f.volumes, costs |-> Made(f).costs]
      /\ Made(f).costs = IF service = "ec2" /\ job.date = MonthStart
                         THEN f.costs \cup {Item("volume", v) : v \in f.volumes} \cup {Item("cloudwatch", f.res)}
                         ELSE f.costs
  BY <1>1, MadeFields
<1>3. /\ job.account \in Accounts /\ job.date \in Dates \cup {MonthStart} /\ job.type \in Types
      /\ job.date = MonthStart <=> job.type = "monthly"
  BY DEF Report, Job
<1>4. f.res \in Resource /\ f.volumes \subseteq Resource /\ f.costs \subseteq Charge
      /\ f.load \in {Idle, Busy, None} /\ f.place \in Regions \cup {None}
  BY <1>1 DEF Finding
<1>5. Made(f).costs \subseteq Charge
  <2>1. \A v \in Resource : Item("volume", v) \in Charge /\ Item("cloudwatch", v) \in Charge
    BY DEF Item, Charge
  <2> QED BY <1>2, <1>4, <2>1
<1>6. Made(f) \in Document
  <2>1. IdOf(f.res) \in Resource \cup Names
    BY <1>4, IdIs
  <2> DEFINE costs == Made(f).costs
  <2>2. Made(f) = [account |-> job.account, date |-> job.date, id |-> IdOf(f.res), res |-> f.res,
                   load |-> f.load, place |-> f.place, volumes |-> f.volumes, costs |-> costs]
    BY <1>2
  <2>3. costs \subseteq [kind : {"instance", "volume", "cloudwatch"}, res : Resource]
    BY <1>5 DEF Charge
  <2> HIDE DEF costs
  <2> QED BY <1>3, <1>4, <2>1, <2>2, <2>3 DEF Document
<1>7. job.date # MonthStart => Made(f).costs = {}
  BY <1>2, <1>3 DEF Right, Types
<1>8. ASSUME job.date = MonthStart PROVE OwnCost(Made(f))
  <2>1. PICK x \in inventory[job.account] : f.costs = {Own(x)} /\ Payer(f, x)
    BY <1>3, <1>8 DEF Right
  <2>2. Own(x).res = x
    BY DEF Own, Item
  <2>3. CASE x = f.res
    <3>1. {i.res : i \in Made(f).costs} = {f.res}
      <4>1. \A i \in Made(f).costs : i.res = f.res
        <5>1. \A v \in f.volumes : Item("volume", v).res = f.res
          BY <1>1 DEF Item
        <5>2. Item("cloudwatch", f.res).res = f.res
          BY DEF Item
        <5> QED BY <1>2, <2>1, <2>2, <2>3, <5>1, <5>2
      <4>2. Own(x) \in Made(f).costs
        BY <1>2, <2>1
      <4> QED BY <2>2, <2>3, <4>1, <4>2
    <3> QED BY <1>2, <3>1 DEF OwnCost
  <2>4. CASE x # f.res /\ service = "elasticache" /\ Zone(x) = f.res.region
    BY <1>2, <2>1, <2>4 DEF OwnCost
  <2>5. CASE x # f.res /\ service = "es" /\ x.name = f.res.name
    <3>1. x \in Resource
      BY <1>3, ResourcesAre
    <3>2. IdOf(x) = IdOf(f.res)
      BY <1>4, <2>5, <3>1, IdIs
    <3>3. Namesake(job.account, f.res)
      BY <2>1, <2>5, <3>2 DEF Namesake
    <3> QED BY <1>2, <2>5, <3>3 DEF OwnCost
  <2> QED BY <2>1, <2>3, <2>4, <2>5 DEF Payer
<1>9. service = "ec2" /\ job.date = MonthStart /\ Item("volume", f.res) \notin Made(f).costs => f.volumes # {f.res}
  BY <1>2
<1>10. IsFiniteSet(Made(f).costs)
  <2>1. IsFiniteSet(f.costs)
    <3>1. f.costs = {} \/ \E x : f.costs = {x}
      BY <1>3 DEF Right, Types
    <3> QED BY <3>1, FS_EmptySet, FS_Singleton
  <2> DEFINE V == {Item("volume", v) : v \in f.volumes}
  <2>2. V = {} \/ V = {Item("volume", f.res)}
    <3>1. f.volumes = {} \/ f.volumes = {f.res}
      BY <1>1
    <3>2. f.volumes = {} => V = {}
      OBVIOUS
    <3>3. f.volumes = {f.res} => V = {Item("volume", f.res)}
      OBVIOUS
    <3> HIDE DEF V
    <3> QED BY <3>1, <3>2, <3>3
  <2> HIDE DEF V
  <2>3. IsFiniteSet(V)
    <3>1. IsFiniteSet({}) /\ IsFiniteSet({Item("volume", f.res)})
      BY FS_EmptySet, FS_Singleton
    <3> QED BY <2>2, <3>1
  <2>4. IsFiniteSet({Item("cloudwatch", f.res)})
    BY FS_Singleton
  <2>5. IsFiniteSet(f.costs \cup V \cup {Item("cloudwatch", f.res)})
    BY <2>1, <2>3, <2>4, FS_Union
  <2> QED BY <1>2, <2>1, <2>5 DEF V
<1> QED BY <1>1, <1>2, <1>6, <1>7, <1>8, <1>9, <1>10

\* When the channels are empty all was obtained.
LEMMA MergedIs ==
    ASSUME Report(job), Merged
    PROVE  Obtained(job) = ToSet(job.got) /\ job.waiting = {} /\ job.got \in Seq(Finding)
<1>1. \A c \in DOMAIN job.chans : job.chans[c] = <<>>
  BY DEF Merged
<1>2. \A c \in DOMAIN job.chans : ToSet(job.chans[c]) = {}
  BY <1>1, NoneSends
<1>3. job.waiting = {} /\ job.got \in Seq(Finding)
  BY DEF Report, Merged, Job
<1> QED BY <1>2, <1>3 DEF Obtained

\* The report ends, with all or some of its documents.
LEMMA EndInv ==
    ASSUME UsageInv, Merged, NEW kept \in Seq(Finding), ToSet(kept) \subseteq Obtained(job),
           docs' = Imported(kept), ends' = ends \cup {About}, job' = NoJob,
           UNCHANGED <<service, inventory, cloud, today>>,
           harmed \subseteq harmed', harmed' \subseteq harmed \cup {About},
           About \notin harmed' => kept = job.got
    PROVE  UsageInv'
<1>1. Report(job) /\ Fixed /\ DocsInv /\ HistoryInv
  BY DEF UsageInv, JobInv, Merged
<1>2. Obtained(job) = ToSet(job.got) /\ job.waiting = {} /\ job.got \in Seq(Finding)
  BY <1>1, MergedIs
<1>3. About \in Accounts \X (Dates \cup {MonthStart}) /\ About = <<job.account, job.date>>
  BY <1>1 DEF About, Report, Job
<1>4. \A f \in ToSet(kept) : Right(job.account, job.type, f)
  BY <1>1 DEF Report
<1> DEFINE n == Len(kept)
           ds == [i \in DOMAIN kept |-> Made(kept[i])]
<1>5. n \in Nat /\ DOMAIN ds = 1 .. n /\ DOMAIN kept = 1 .. n
  OBVIOUS
<1>6. \A i \in 1 .. n : ds[i] = Made(kept[i]) /\ kept[i] \in ToSet(kept)
  BY <1>5 DEF ToSet
<1>7. docs' = Create(docs, ds) /\ \A f \in ToSet(kept) : \E i \in 1 .. n : kept[i] = f
  BY <1>5, ImportedIs
<1> HIDE DEF n, ds
<1>8. /\ docs \subseteq docs' /\ IsFiniteSet(docs')
      /\ \A d \in docs' : d \in docs \/ \E i \in 1 .. n : d = ds[i]
      /\ \A d, e \in docs' : SameKey(d, e) => d = e
      /\ \A i \in 1 .. n : \E e \in docs' : SameKey(ds[i], e)
  BY <1>1, <1>5, <1>7, CreateIs DEF DocsInv
<1>9. Fixed'
  BY <1>1 DEF Fixed
<1>10. DocsInv'
  <2>1. ASSUME NEW d \in docs' PROVE d \in Document /\ DocOk(d)'
    <3>1. CASE d \in docs
      <4>1. DocOk(d) /\ d \in Document
        BY <1>1, <3>1 DEF DocsInv
      <4> QED BY <4>1, Kept DEF DocOk, Volumes
    <3>2. CASE d \notin docs
      <4>1. PICK i \in 1 .. n : d = Made(kept[i])
        BY <1>6, <1>8, <3>2
      <4> DEFINE f == kept[i]
      <4>2. f \in ToSet(kept) /\ Right(job.account, job.type, f) /\ f \in Finding
        BY <1>4, <1>6 DEF Right
      <4> HIDE DEF f
      <4>3. d = Made(f)
        BY <4>1 DEF f
      <4>4. /\ d \in Document /\ d.id = IdOf(d.res) /\ d.res \in inventory[d.account] /\ d.volumes \subseteq {d.res}
            /\ d.date # MonthStart => d.costs = {}
            /\ d.date = MonthStart => OwnCost(d)
            /\ service = "ec2" /\ d.date = MonthStart /\ Item("volume", f.res) \notin d.costs => f.volumes # {f.res}
            /\ IsFiniteSet(d.costs)
        BY <1>1, <4>2, <4>3, MadeIs
      <4>5. d.account = job.account /\ d.date = job.date /\ d.res = f.res
        BY <4>2, <4>3, MadeFields
      <4>6. Volumes(d)'
        <5> SUFFICES ASSUME service = "ec2", d.date = MonthStart, Item("volume", d.res) \notin d.costs,
                            <<d.account, MonthStart>> \notin harmed'
                     PROVE  d.res \notin cloud[d.account]
          BY DEF Volumes
        <5>1. f.volumes # {f.res}
          BY <4>4, <4>5
        <5>2. WithVolumes(job.account, job.type, f)
          BY <1>1, <1>3, <4>2, <4>5 DEF Report
        <5>3. job.type = "monthly"
          BY <1>1, <4>5 DEF Report
        <5> QED BY <4>5, <5>1, <5>2, <5>3 DEF WithVolumes
      <4> QED BY <4>4, <4>6, Kept DEF DocOk
    <3> QED BY <3>1, <3>2
  <2>2. Document' = Document /\ \A d, e : SameKey(d, e)' <=> SameKey(d, e)
    BY DEF Document, SameKey
  <2> QED BY <1>8, <2>1, <2>2 DEF DocsInv
<1>11. ReportIsWhole'
  <2>1. ASSUME NEW e \in ends' \ harmed', NEW r \in inventory[e[1]]
        PROVE  \/ \E d \in docs' : d.account = e[1] /\ d.date = e[2] /\ d.res = r
               \/ Namesake(e[1], r)
               \/ /\ e[2] = MonthStart
                  /\ \/ r \notin cloud[e[1]] /\ service # "ec2"
                     \/ Zone(r) = None /\ service # "es"
    <3>1. CASE e \in ends
      BY <1>1, <1>8, <2>1, <3>1 DEF HistoryInv, ReportIsWhole
    <3>2. CASE e = About
      <4>0. e[1] = job.account /\ e[2] = job.date /\ About \notin harmed'
        BY <1>3, <2>1, <3>2
      <4>1. CASE Promised(job.account, job.type, r)
        <5>1. PICK f \in ToSet(job.got) : f.res = r
          BY <1>1, <1>2, <1>3, <4>0, <4>1 DEF Report
        <5>2. PICK i \in 1 .. n : kept[i] = f
          BY <1>7, <4>0, <5>1
        <5>3. PICK d \in docs' : SameKey(Made(f), d)
          BY <1>6, <1>8, <5>2
        <5>4. f \in Finding
          BY <1>1, <1>2, <5>1 DEF Report, Right
        <5>5. d.account = job.account /\ d.date = job.date /\ d.id = IdOf(r)
          BY <5>1, <5>3, <5>4, MadeFields DEF SameKey
        <5>6. d.id = IdOf(d.res) /\ d.res \in inventory[d.account]
          <6>1. DocOk(d)'
            BY <1>10, <5>3 DEF DocsInv
          <6> QED BY <6>1, Kept DEF DocOk
        <5>7. d.res = r \/ Namesake(job.account, r)
          BY <5>5, <5>6 DEF Namesake
        <5> QED BY <4>0, <5>3, <5>5, <5>7
      <4>2. CASE ~Promised(job.account, job.type, r)
        <5>1. job.type = "monthly" /\ ((service # "ec2" /\ r \notin cloud[job.account]) \/ (service # "es" /\ Zone(r) = None))
          BY <2>1, <4>0, <4>2 DEF Promised
        <5>2. job.date = MonthStart
          BY <1>1, <5>1 DEF Report
        <5> QED BY <4>0, <5>1, <5>2
      <4> QED BY <4>1, <4>2
    <3> QED BY <2>1, <3>1, <3>2
  <2> QED BY <2>1, Kept DEF ReportIsWhole
<1>12. HistoryInv'
  BY <1>1, <1>3, <1>11 DEF HistoryInv
<1>13. JobInv'
  BY DEF JobInv, NoJob
<1> QED BY <1>9, <1>10, <1>12, <1>13 DEF UsageInv

LEMMA ImportInv == ASSUME UsageInv, Import PROVE UsageInv'
<1>1. Report(job) /\ Merged
  BY DEF UsageInv, JobInv, Merged, Import
<1>2. ToSet(job.got) \subseteq Obtained(job) /\ job.got \in Seq(Finding)
  BY <1>1, MergedIs
<1> QED BY <1>1, <1>2, EndInv DEF Import

LEMMA BulkFailsInv == ASSUME UsageInv, BulkFails PROVE UsageInv'
<1>1. Report(job) /\ Merged
  BY DEF UsageInv, JobInv, Merged, BulkFails
<1>2. ToSet(job.got) = Obtained(job) /\ job.got \in Seq(Finding) /\ job.got # <<>>
  BY <1>1, MergedIs DEF BulkFails
<1>3. PICK kept \in {<<>>, Tail(job.got)} : docs' = Imported(kept)
  BY DEF BulkFails
<1>4. kept \in Seq(Finding) /\ ToSet(kept) \subseteq Obtained(job)
  <2>1. CASE kept = <<>>
    BY <2>1, NoneSends
  <2>2. CASE kept = Tail(job.got)
    BY <1>2, <2>2, HeadAndTail
  <2> QED BY <1>3, <2>1, <2>2
<1> QED BY <1>1, <1>3, <1>4, EndInv DEF BulkFails

LEMMA StartDailyInv == ASSUME UsageInv, NEW a \in Accounts, StartDaily(a) PROVE UsageInv'
<1>1. Fixed /\ MaxDays \in Nat /\ today < MaxDays /\ today' = today + 1
  BY UsageAssumption DEF UsageInv, StartDaily
<1>2. today \in 0 .. MaxDays + 1 /\ today + 1 \in Dates
  BY <1>1 DEF Fixed, Dates
<1>3. UNCHANGED <<service, cloud, inventory, docs, ends, harmed>> /\ Launch(a, "daily", today + 1)
  BY DEF StartDaily
<1>4. Suits("daily")
  BY <1>1, <1>2 DEF Suits, Types, Fixed
<1>5. today + 1 # MonthStart
  BY <1>2 DEF MonthStart
<1>6. JobInv'
  BY <1>1, <1>2, <1>3, <1>4, <1>5, LaunchReport
<1>7. Fixed'
  BY <1>1, <1>2, <1>3 DEF Fixed
<1>8. DocsInv' /\ HistoryInv'
  <2>1. \A d : DocOk(d) => DocOk(d)'
    BY <1>3, Kept DEF DocOk, Volumes
  <2>2. \A d, e : SameKey(d, e)' <=> SameKey(d, e)
    BY DEF SameKey
  <2>3. Document' = Document
    BY DEF Document
  <2>4. DocsInv'
    BY <1>3, <2>1, <2>2, <2>3 DEF UsageInv, DocsInv
  <2>5. ReportIsWhole'
    BY <1>3, Kept DEF UsageInv, HistoryInv, ReportIsWhole
  <2> QED BY <1>3, <2>4, <2>5 DEF UsageInv, HistoryInv
<1> QED BY <1>6, <1>7, <1>8 DEF UsageInv

LEMMA StartMonthlyInv == ASSUME UsageInv, NEW a \in Accounts, StartMonthly(a) PROVE UsageInv'
<1>1. Fixed /\ service \in Monthly
  BY DEF UsageInv, StartMonthly
<1>2. UNCHANGED <<service, cloud, inventory, today, docs, ends, harmed>> /\ Launch(a, "monthly", MonthStart)
  BY DEF StartMonthly
<1>3. Suits("monthly")
  BY <1>1 DEF Suits, Types
<1>4. JobInv'
  BY <1>1, <1>2, <1>3, LaunchReport
<1>5. Fixed' /\ DocsInv' /\ HistoryInv'
  BY <1>2, OthersKept DEF UsageInv, HistoryInv
<1> QED BY <1>4, <1>5 DEF UsageInv

LEMMA TerminateInv == ASSUME UsageInv, Terminate PROVE UsageInv'
<1>1. PICK a \in Accounts : \E r \in cloud[a] : cloud' = [cloud EXCEPT ![a] = @ \ {r}]
  BY DEF Terminate
<1>2. PICK r \in cloud[a] : cloud' = [cloud EXCEPT ![a] = @ \ {r}]
  BY <1>1
<1>3. UNCHANGED <<service, inventory, today, docs, job, ends, harmed>> /\ today = MaxDays + 1 /\ job = NoJob
  BY DEF Terminate
<1>4. Fixed /\ MaxDays \in Nat
  BY UsageAssumption DEF UsageInv
<1>5. cloud' \in [Accounts -> SUBSET Resource] /\ \A b \in Accounts : cloud'[b] \subseteq cloud[b]
  BY <1>2, <1>4 DEF Fixed
<1>6. Fixed'
  BY <1>3, <1>4, <1>5 DEF Fixed
<1>7. DocsInv'
  <2>1. ASSUME NEW d \in docs PROVE DocOk(d)'
    <3>1. DocOk(d) /\ d.account \in Accounts
      BY DEF UsageInv, DocsInv, Document
    <3>2. Volumes(d)'
      BY <1>3, <1>5, <3>1 DEF DocOk, Volumes
    <3> QED BY <1>3, <3>1, <3>2, Kept DEF DocOk
  <2>2. Document' = Document /\ \A d, e : SameKey(d, e)' <=> SameKey(d, e)
    BY DEF Document, SameKey
  <2> QED BY <1>3, <2>1, <2>2 DEF UsageInv, DocsInv
<1>8. ReportIsWhole'
  <2>1. ASSUME NEW e \in ends \ harmed, NEW x \in inventory[e[1]]
        PROVE  \/ \E d \in docs : d.account = e[1] /\ d.date = e[2] /\ d.res = x
               \/ Namesake(e[1], x)
               \/ /\ e[2] = MonthStart
                  /\ \/ x \notin cloud'[e[1]] /\ service # "ec2"
                     \/ Zone(x) = None /\ service # "es"
    <3>1. e[1] \in Accounts
      BY DEF UsageInv, HistoryInv
    <3>2. cloud'[e[1]] \subseteq cloud[e[1]]
      BY <1>5, <3>1
    <3> QED BY <2>1, <3>2 DEF UsageInv, HistoryInv, ReportIsWhole
  <2> QED BY <1>3, <2>1, Kept DEF ReportIsWhole
<1>9. HistoryInv'
  BY <1>3, <1>8 DEF UsageInv, HistoryInv
<1>10. JobInv'
  BY <1>3 DEF JobInv, NoJob
<1> QED BY <1>6, <1>7, <1>9, <1>10 DEF UsageInv

LEMMA MonthEndsInv == ASSUME UsageInv, MonthEnds PROVE UsageInv'
<1>1. UNCHANGED <<service, cloud, inventory, docs, job, ends, harmed>> /\ today' = MaxDays + 1 /\ job = NoJob
  BY DEF MonthEnds
<1>2. MaxDays \in Nat
  BY UsageAssumption
<1>3. Fixed'
  BY <1>1, <1>2 DEF UsageInv, Fixed
<1>4. DocsInv'
  <2>1. \A d : DocOk(d) => DocOk(d)'
    BY <1>1, Kept DEF DocOk, Volumes
  <2>2. Document' = Document /\ \A d, e : SameKey(d, e)' <=> SameKey(d, e)
    BY DEF Document, SameKey
  <2> QED BY <1>1, <2>1, <2>2 DEF UsageInv, DocsInv
<1>5. ReportIsWhole'
  BY <1>1, Kept DEF UsageInv, HistoryInv, ReportIsWhole
<1>6. HistoryInv' /\ JobInv'
  BY <1>1, <1>5 DEF UsageInv, HistoryInv, JobInv, NoJob
<1> QED BY <1>3, <1>4, <1>6 DEF UsageInv

LEMMA SameStateInv == ASSUME UsageInv, UNCHANGED vars PROVE UsageInv'
<1>1. UNCHANGED <<service, cloud, inventory, today, docs, job, ends, harmed>>
  BY DEF vars
<1>2. Fixed' /\ DocsInv' /\ HistoryInv'
  BY <1>1, OthersKept DEF UsageInv, HistoryInv
<1>3. JobInv'
  <2>1. ASSUME job # NoJob PROVE Report(job)'
    <3>1. Report(job)
      BY <2>1 DEF UsageInv, JobInv
    <3>2. Obtained(job)' = Obtained(job)
      BY <1>1 DEF Obtained
    <3>3. \A a, type, f : Right(a, type, f)' <=> Right(a, type, f)
      BY <1>1, Kept
    <3>4. \A a, type : Goroutines(a, type)' = Goroutines(a, type)
      BY <1>1, Kept
    <3> QED BY <1>1, <3>1, <3>2, <3>3, <3>4, KeptCloud DEF Report
  <2> QED BY <1>1, <2>1 DEF JobInv, NoJob
<1> QED BY <1>2, <1>3 DEF UsageInv

LEMMA NextInv == UsageInv /\ [Next]_vars => UsageInv'
<1> SUFFICES ASSUME UsageInv, [Next]_vars PROVE UsageInv'
  OBVIOUS
<1>1. ASSUME NEW a \in Accounts, StartDaily(a) PROVE UsageInv'
  BY <1>1, StartDailyInv
<1>2. ASSUME NEW a \in Accounts, StartMonthly(a) PROVE UsageInv'
  BY <1>2, StartMonthlyInv
<1>3. CASE Fetch
  BY <1>3, FetchInv
<1>4. CASE FetchFails
  BY <1>4, FetchFailsInv
<1>5. CASE Merge
  BY <1>5, MergeInv
<1>6. CASE Import
  BY <1>6, ImportInv
<1>7. CASE BulkFails
  BY <1>7, BulkFailsInv
<1>8. CASE Terminate
  BY <1>8, TerminateInv
<1>9. CASE MonthEnds
  BY <1>9, MonthEndsInv
<1>10. CASE UNCHANGED vars
  BY <1>10, SameStateInv
<1> QED BY <1>1, <1>2, <1>3, <1>4, <1>5, <1>6, <1>7, <1>8, <1>9, <1>10 DEF Next

LEMMA UsageInvHolds == Spec => []UsageInv
<1>1. Init => UsageInv
  BY InitInv
<1>2. UsageInv /\ [Next]_vars => UsageInv'
  BY NextInv
<1> QED BY <1>1, <1>2, PTL DEF Spec

\* A report that was made has every resource of the account: whatever the order in which its
\* goroutines end and its channels are merged, nothing that was found is lost
\* (getRegions and merge of the reports).
THEOREM ReportsAreWhole == Spec => []ReportIsWhole
<1>1. UsageInv => ReportIsWhole
  BY DEF UsageInv, HistoryInv
<1> QED BY <1>1, UsageInvHolds, PTL

LEMMA ChargesFollow == UsageInv => ChargesAreOwn
<1> SUFFICES ASSUME UsageInv PROVE ChargesAreOwn
  OBVIOUS
<1>1. TypeOK
  <2>1. job # NoJob => /\ job.waiting \cup DOMAIN job.chans \subseteq Goroutines(job.account, job.type)
                       /\ job.waiting \cap DOMAIN job.chans = {}
    BY DEF UsageInv, JobInv, Report
  <2> QED BY <2>1 DEF UsageInv, Fixed, DocsInv, HistoryInv, TypeOK
<1>2. CostIsOwn
  BY DEF UsageInv, DocsInv, DocOk, OwnCost, CostIsOwn
<1>3. VolumesCharged
  BY DEF UsageInv, DocsInv, DocOk, Volumes, VolumesCharged
<1> QED BY <1>1, <1>2, <1>3 DEF ChargesAreOwn

\* A monthly report charges each resource for itself and an instance for its volumes, but
\* for what the property names (addCostToInstances and the monthly reports).
THEOREM ChargesAreTheirOwn == Spec => []ChargesAreOwn
BY UsageInvHolds, ChargesFollow, PTL
-----------------------------------------------------------------------------
(* The buckets of a terms aggregation *)

\* A set of numbers that has a bound has a greatest one, which Max picks.
LEMMA Greatest ==
    ASSUME NEW T \in SUBSET Nat, T # {}, NEW n \in Nat, \A x \in T : x <= n
    PROVE  Max(T) \in T /\ \A y \in T : Max(T) >= y
<1> DEFINE D == {n - x : x \in T}
<1>0. \A x \in T : x \in Nat /\ n - x \in Nat
  OBVIOUS
<1>1. D \in SUBSET Nat /\ D # {}
  BY <1>0
<1>2. PICK d \in D : \A e \in D : d <= e
  <2> HIDE DEF D
  <2> QED BY <1>1, NatMin
<1>3. PICK x \in T : d = n - x
  BY <1>2
<1>4. ASSUME NEW y \in T PROVE x >= y
  <2>1. n - y \in D /\ x \in Nat /\ y \in Nat
    OBVIOUS
  <2>2. n - x <= n - y
    BY <1>2, <1>3, <2>1
  <2> QED BY <1>0, <2>1, <2>2
<1> QED BY <1>4 DEF Max

\* A terms aggregation returns keys, at least one and all if they are not more than the buckets.
LEMMA BucketsAre ==
    ASSUME NEW n \in Nat, NEW count, IsFiniteSet(DOMAIN count), DOMAIN count \subseteq Nat,
           \A x \in DOMAIN count : count[x] \in 0 .. n
    PROVE  /\ Buckets(count) \subseteq DOMAIN count
           /\ Cardinality(DOMAIN count) <= MaxBuckets => Buckets(count) = DOMAIN count
           /\ DOMAIN count # {} => Buckets(count) # {}
<1> DEFINE keys == DOMAIN count
           Before(x, k) == \/ count[x] > count[k]
                           \/ count[x] = count[k] /\ x < k
           First(k) == {x \in keys : Before(x, k)}
<1>1. Buckets(count) = {k \in keys : Cardinality(First(k)) < MaxBuckets}
  BY DEF Buckets
<1>2. MaxBuckets \in Nat \ {0}
  BY QueriesAssumption
<1>3. ASSUME Cardinality(keys) <= MaxBuckets, NEW k \in keys PROVE Cardinality(First(k)) < MaxBuckets
  <2>1. First(k) \in SUBSET (keys \ {k})
    OBVIOUS
  <2>2. IsFiniteSet(keys \ {k}) /\ Cardinality(keys \ {k}) = Cardinality(keys) - 1
    BY FS_RemoveElement
  <2> HIDE DEF First
  <2>3. IsFiniteSet(First(k)) /\ Cardinality(First(k)) <= Cardinality(keys) - 1
    BY <2>1, <2>2, FS_Subset
  <2>4. Cardinality(First(k)) \in Nat /\ Cardinality(keys) \in Nat
    BY <2>3, FS_CardinalityType
  <2> QED BY <1>2, <1>3, <2>3, <2>4
<1>4. ASSUME keys # {} PROVE \E k \in keys : Cardinality(First(k)) < MaxBuckets
  <2> DEFINE T == {count[x] : x \in keys}
             m == Max(T)
             L == {x \in keys : count[x] = m}
  <2>1. T \in SUBSET Nat /\ T # {} /\ \A y \in T : y <= n
    BY <1>4
  <2>2. m \in T /\ \A y \in T : m >= y
    <3> HIDE DEF T
    <3> QED BY <2>1, Greatest
  <2> HIDE DEF m
  <2>3. L \in SUBSET Nat /\ L # {}
    BY <2>2
  <2>4. PICK k \in L : \A x \in L : k <= x
    <3> HIDE DEF L
    <3> QED BY <2>3, NatMin
  <2>5. First(k) = {}
    <3> SUFFICES ASSUME NEW x \in keys, Before(x, k) PROVE FALSE
      OBVIOUS
    <3>1. count[x] \in T /\ count[k] = m /\ count[x] \in 0 .. n /\ count[k] \in 0 .. n
      BY <2>4
    <3>2. count[x] <= count[k]
      BY <2>2, <3>1
    <3>3. count[x] = m /\ x < k
      BY <3>1, <3>2
    <3>4. k <= x /\ x \in Nat /\ k \in Nat
      BY <2>3, <2>4, <3>3
    <3> QED BY <3>3, <3>4
  <2> HIDE DEF First
  <2>6. Cardinality(First(k)) = 0
    BY <2>5, FS_EmptySet
  <2> QED BY <1>2, <2>4, <2>6
<1> QED BY <1>1, <1>3, <1>4

\* Some documents of the accounts A.
Held(S, A) == S \subseteq docs /\ \A d \in S : d.account \in A

\* The accounts of some documents are returned if not too many are asked for.
LEMMA AccountsAre ==
    ASSUME UsageInv, NEW A \in SUBSET Accounts, NEW S, Held(S, A)
    PROVE  /\ AccountsIn(S) \subseteq {d.account : d \in S}
           /\ Cardinality(A) <= MaxBuckets => AccountsIn(S) = {d.account : d \in S}
           /\ IsFiniteSet(A)
<1> DEFINE keys == {d.account : d \in S}
           count == [a \in keys |-> Cardinality({d \in S : d.account = a})]
           n == Cardinality(S)
<1>1. keys \in SUBSET A
  BY DEF Held
<1>2. IsFiniteSet(A) /\ IsFiniteSet(S)
  BY UsageAssumption, FS_Subset DEF UsageInv, DocsInv, Held
<1>3. n \in Nat
  BY <1>2, FS_CardinalityType
<1>4. \A a \in keys : count[a] \in 0 .. n
  <2> SUFFICES ASSUME NEW a \in keys PROVE count[a] \in 0 .. n
    OBVIOUS
  <2> DEFINE C == {d \in S : d.account = a}
  <2>1. C \in SUBSET S
    OBVIOUS
  <2>2. count[a] = Cardinality(C)
    OBVIOUS
  <2> HIDE DEF C, count, n
  <2>3. IsFiniteSet(C) /\ Cardinality(C) <= Cardinality(S)
    BY <1>2, <2>1, FS_Subset
  <2>4. Cardinality(C) \in Nat
    BY <2>3, FS_CardinalityType
  <2> QED BY <1>3, <2>2, <2>3, <2>4 DEF n
<1>5. DOMAIN count = keys /\ AccountsIn(S) = Buckets(count)
  BY DEF AccountsIn
<1> HIDE DEF keys, count, n
<1>6. IsFiniteSet(keys) /\ keys \subseteq Nat /\ Cardinality(keys) <= Cardinality(A)
  BY <1>1, <1>2, FS_Subset, UsageAssumption
<1>7. Cardinality(keys) \in Nat /\ Cardinality(A) \in Nat /\ MaxBuckets \in Nat
  BY <1>2, <1>6, FS_CardinalityType, QueriesAssumption
<1>8. /\ Buckets(count) \subseteq DOMAIN count
      /\ Cardinality(DOMAIN count) <= MaxBuckets => Buckets(count) = DOMAIN count
  BY <1>3, <1>4, <1>5, <1>6, BucketsAre
<1> QED BY <1>2, <1>5, <1>6, <1>7, <1>8 DEF keys

\* Of the daily reports of an account there is a last one among the dates that are
\* returned, and it is the last of all if these are all dates.
LEMMA LastIs ==
    ASSUME UsageInv, NEW S \in SUBSET docs, NEW a, {d \in S : d.account = a} # {}
    PROVE  /\ LastOf(S, a) # {}
           /\ \A d \in LastOf(S, a) : d \in S /\ d.account = a
           /\ \A d, e \in LastOf(S, a) : d.date = e.date
           /\ Cardinality({d.date : d \in {e \in S : e.account = a}}) <= MaxBuckets
              => \A d \in LastOf(S, a), e \in S : e.account = a => e.date <= d.date
<1> DEFINE mine == {d \in S : d.account = a}
           keys == {d.date : d \in mine}
           count == [t \in keys |-> Cardinality({d \in mine : d.date = t})]
           n == Cardinality(mine)
           dates == Buckets(count)
<1>1. IsFiniteSet(mine) /\ mine \subseteq Document
  <2>1. IsFiniteSet(docs) /\ mine \in SUBSET docs /\ docs \subseteq Document
    BY DEF UsageInv, DocsInv
  <2> HIDE DEF mine
  <2> QED BY <2>1, FS_Subset
<1>2. n \in Nat
  BY <1>1, FS_CardinalityType
<1>3. \A t \in keys : count[t] \in 0 .. n
  <2> SUFFICES ASSUME NEW t \in keys PROVE count[t] \in 0 .. n
    OBVIOUS
  <2> DEFINE C == {d \in mine : d.date = t}
  <2>1. C \in SUBSET mine /\ count[t] = Cardinality(C)
    OBVIOUS
  <2> HIDE DEF C, count, n, mine
  <2>2. IsFiniteSet(C) /\ Cardinality(C) <= Cardinality(mine)
    BY <1>1, <2>1, FS_Subset
  <2>3. Cardinality(C) \in Nat
    BY <2>2, FS_CardinalityType
  <2> QED BY <1>2, <2>1, <2>2, <2>3 DEF n
<1>4. DOMAIN count = keys /\ LastOf(S, a) = {d \in mine : d.date = Max(dates)}
  BY DEF LastOf
<1>5. keys \subseteq 0 .. MaxDays /\ keys # {} /\ MaxDays \in Nat
  <2>1. mine # {} /\ \A d \in mine : d.date \in 0 .. MaxDays
    BY <1>1, DatesAre DEF Document, Dates
  <2> HIDE DEF mine
  <2> QED BY <2>1, DatesAre
<1>6. IsFiniteSet(keys)
  <2>1. IsFiniteSet(0 .. MaxDays)
    BY <1>5, FS_Interval
  <2> HIDE DEF keys
  <2> QED BY <1>5, <2>1, FS_Subset
<1> HIDE DEF count, n
<1>7. /\ dates \subseteq keys /\ dates # {}
      /\ Cardinality(keys) <= MaxBuckets => dates = keys
  <2> HIDE DEF keys
  <2>1. keys \subseteq Nat
    BY <1>5
  <2> QED BY <1>2, <1>3, <1>4, <1>5, <1>6, <2>1, BucketsAre
<1> HIDE DEF dates
<1>8. Max(dates) \in dates /\ \A y \in dates : Max(dates) >= y
  <2> HIDE DEF keys
  <2>1. dates \in SUBSET Nat /\ \A x \in dates : x <= MaxDays
    BY <1>5, <1>7
  <2> QED BY <1>5, <1>7, <2>1, Greatest
<1>9. LastOf(S, a) # {}
  BY <1>4, <1>7, <1>8
<1>10. ASSUME Cardinality(keys) <= MaxBuckets, NEW d \in LastOf(S, a), NEW e \in S, e.account = a
       PROVE  e.date <= d.date
  <2>1. e.date \in dates
    BY <1>7, <1>10
  <2>2. Max(dates) \in Nat /\ e.date \in Nat
    BY <1>5, <1>7, <1>8, <2>1
  <2> QED BY <1>4, <1>8, <2>1, <2>2
<1> QED BY <1>4, <1>9, <1>10
-----------------------------------------------------------------------------
(* Answers *)

\* The daily reports that may be in an answer.
InTime(A, t) == {d \in docs : d.account \in A /\ InRange(d, t)}

LEMMA DailyAre ==
    ASSUME UsageInv, NEW A \in SUBSET Accounts, NEW t
    PROVE  /\ \A d \in DailyReports(A, t) : d \in LastOf(InTime(A, t), d.account) /\ d \in InTime(A, t)
           /\ \A d \in DailyReports(A, t) : d \in docs /\ d.date # MonthStart /\ d.account \in A
           /\ Cardinality(A) <= MaxBuckets =>
                  \A e \in InTime(A, t) : \E d \in DailyReports(A, t) : d.account = e.account
<1> DEFINE S == InTime(A, t)
<1>1. Held(S, A) /\ \A d \in S : d.date # MonthStart
  BY DEF Held, InTime, InRange
<1>2. DailyReports(A, t) = UNION {LastOf(S, a) : a \in AccountsIn(S)}
  BY DEF DailyReports, InTime
<1> HIDE DEF S
<1>3. /\ AccountsIn(S) \subseteq {d.account : d \in S}
      /\ Cardinality(A) <= MaxBuckets => AccountsIn(S) = {d.account : d \in S}
  BY <1>1, AccountsAre
<1>4. ASSUME NEW a \in {d.account : d \in S}
      PROVE  LastOf(S, a) # {} /\ \A d \in LastOf(S, a) : d \in S /\ d.account = a
  <2>1. {d \in S : d.account = a} # {} /\ S \in SUBSET docs
    BY <1>1, <1>4 DEF Held
  <2> QED BY <2>1, LastIs
<1>5. ASSUME NEW d \in DailyReports(A, t) PROVE d \in LastOf(S, d.account) /\ d \in S
  <2>1. PICK a \in AccountsIn(S) : d \in LastOf(S, a)
    BY <1>2
  <2> QED BY <1>3, <1>4, <2>1
<1>6. ASSUME Cardinality(A) <= MaxBuckets, NEW e \in S PROVE \E d \in DailyReports(A, t) : d.account = e.account
  <2>1. e.account \in AccountsIn(S) /\ e.account \in {d.account : d \in S}
    BY <1>3, <1>6
  <2>2. PICK d \in LastOf(S, e.account) : d.account = e.account
    BY <1>4, <2>1
  <2> QED BY <1>2, <2>1, <2>2
<1> QED BY <1>1, <1>5, <1>6 DEF S, Held

\* The costs of the bills, by service.
AddCost(d) ==
    IF service = "ec2" THEN Ec2AddCost(d)
    ELSE IF service = "rds" THEN RdsAddCost(d)
    ELSE IF service = "es" THEN EsAddCost(d)
    ELSE IF service = "elasticache" THEN ElastiCacheAddCost(d)
    ELSE d

\* An answer has the monthly reports, or the daily ones with costs.
LEMMA AnswerIs ==
    ASSUME UsageInv, NEW A, NEW t, Answer(A, t) # Missing
    PROVE  \/ service \in Monthly /\ MonthlyReports(A, t) # {} /\ Answer(A, t) = MonthlyReports(A, t)
           \/ /\ service \in Monthly => MonthlyReports(A, t) = {}
              /\ Answer(A, t) = {AddCost(d) : d \in DailyReports(A, t)}
<1>1. service \in AllServices
  BY UsageAssumption DEF UsageInv, Fixed
<1>2. ASSUME NEW daily, Reports(A, t, daily) # Missing
      PROVE  \/ MonthlyReports(A, t) # {} /\ Reports(A, t, daily) = MonthlyReports(A, t)
             \/ MonthlyReports(A, t) = {} /\ Reports(A, t, daily) = daily
  BY <1>2 DEF Reports
<1>3. CASE service = "ec2"
  <2>1. Answer(A, t) = Reports(A, t, {Ec2AddCost(d) : d \in DailyReports(A, t)})
    BY <1>3 DEF Answer, Ec2Data
  <2>2. {AddCost(d) : d \in DailyReports(A, t)} = {Ec2AddCost(d) : d \in DailyReports(A, t)}
    BY <1>3 DEF AddCost
  <2> QED BY <1>2, <1>3, <2>1, <2>2 DEF Monthly
<1>4. CASE service = "rds"
  <2>1. Answer(A, t) = Reports(A, t, {RdsAddCost(d) : d \in DailyReports(A, t)})
    BY <1>4 DEF Answer, RdsData
  <2>2. {AddCost(d) : d \in DailyReports(A, t)} = {RdsAddCost(d) : d \in DailyReports(A, t)}
    BY <1>4 DEF AddCost
  <2> QED BY <1>2, <1>4, <2>1, <2>2 DEF Monthly
<1>5. CASE service = "es"
  <2>1. Answer(A, t) = Reports(A, t, {EsAddCost(d) : d \in DailyReports(A, t)})
    BY <1>5 DEF Answer, EsData
  <2>2. {AddCost(d) : d \in DailyReports(A, t)} = {EsAddCost(d) : d \in DailyReports(A, t)}
    BY <1>5 DEF AddCost
  <2> QED BY <1>2, <1>5, <2>1, <2>2 DEF Monthly
<1>6. CASE service = "elasticache"
  <2>1. Answer(A, t) = Reports(A, t, {ElastiCacheAddCost(d) : d \in DailyReports(A, t)})
    BY <1>6 DEF Answer, ElastiCacheData
  <2>2. {AddCost(d) : d \in DailyReports(A, t)} = {ElastiCacheAddCost(d) : d \in DailyReports(A, t)}
    BY <1>6 DEF AddCost
  <2> QED BY <1>2, <1>6, <2>1, <2>2 DEF Monthly
<1>7. CASE service \in {"lambda", "riEc2", "riRds"}
  <2>1. Answer(A, t) = IF Reaches(A) THEN DailyReports(A, t) ELSE Missing
    <3>1. CASE service = "lambda"
      BY <3>1 DEF Answer, LambdaData
    <3>2. CASE service = "riEc2"
      BY <3>2 DEF Answer, Ec2ReservationData
    <3>3. CASE service = "riRds"
      BY <3>3 DEF Answer, RdsReservationData
    <3> QED BY <1>7, <3>1, <3>2, <3>3
  <2>2. {AddCost(d) : d \in DailyReports(A, t)} = DailyReports(A, t)
    BY <1>7 DEF AddCost
  <2>3. service \notin Monthly
    BY <1>7 DEF Monthly
  <2> QED BY <2>1, <2>2, <2>3
<1> QED BY <1>1, <1>3, <1>4, <1>5, <1>6, <1>7 DEF AllServices

\* The costs that are added are those of the document, or of a namesake.
LEMMA AddCostIs ==
    ASSUME UsageInv, NEW d \in docs
    PROVE  /\ AddCost(d).account = d.account /\ AddCost(d).date = d.date
           /\ AddCost(d).res = d.res /\ AddCost(d).load = d.load
           /\ d.date # MonthStart => \/ {i.res : i \in AddCost(d).costs} \subseteq {d.res}
                                     \/ service \in {"rds", "elasticache"} /\ Namesake(d.account, d.res)
           /\ IsFiniteSet(AddCost(d).costs)
<1>1. d \in Document /\ d.account \in Accounts /\ d.res \in Resource
  BY DEF UsageInv, DocsInv, Document
<1>2. d.volumes \subseteq {d.res} /\ (d.date # MonthStart => d.costs = {}) /\ IsFiniteSet(d.costs)
  BY DEF UsageInv, DocsInv, DocOk
<1>7. ASSUME NEW kinds \in {{"instance"}, {"instance", "volume", "cloudwatch"}}, NEW T \in SUBSET Billed(d, kinds)
      PROVE  IsFiniteSet(T)
  <2> DEFINE P == kinds \X inventory[d.account]
             b == [p \in P |-> Item(p[1], p[2])]
  <2>1. IsFiniteSet(inventory[d.account])
    BY <1>1, ResourcesAre DEF UsageInv
  <2>2. IsFiniteSet(kinds)
    <3>1. IsFiniteSet({"instance"}) /\ IsFiniteSet({"volume"}) /\ IsFiniteSet({"cloudwatch"})
      BY FS_Singleton
    <3>2. {"instance", "volume", "cloudwatch"} = {"instance"} \cup {"volume"} \cup {"cloudwatch"}
      OBVIOUS
    <3>3. IsFiniteSet({"instance"} \cup {"volume"} \cup {"cloudwatch"})
      BY <3>1, FS_Union
    <3> QED BY <3>1, <3>2, <3>3
  <2>3. IsFiniteSet(P)
    BY <2>1, <2>2, FS_Product
  <2>4. IsFiniteSet({b[p] : p \in P})
    <3> HIDE DEF P, b
    <3> QED BY <2>3, FiniteImage
  <2>5. T \in SUBSET {b[p] : p \in P}
    <3>1. ASSUME NEW k \in kinds, NEW r \in inventory[d.account] PROVE Item(k, r) \in {b[p] : p \in P}
      <4>1. <<k, r>> \in P /\ b[<<k, r>>] = Item(k, r)
        OBVIOUS
      <4> HIDE DEF P, b
      <4> QED BY <4>1
    <3> HIDE DEF P, b
    <3> QED BY <3>1 DEF Billed
  <2> HIDE DEF P, b
  <2> QED BY <2>4, <2>5, FS_Subset
<1>3. CASE service = "ec2"
  <2> DEFINE more == {i \in Ec2Billed(d) : \/ i.kind # "volume" /\ i.res = d.res
                                           \/ i.kind = "volume" /\ i.res \in d.volumes}
  <2>1. AddCost(d) = [d EXCEPT !.costs = d.costs \cup more]
    BY <1>3 DEF AddCost, Ec2AddCost
  <2>2. \A i \in more : i.res = d.res
    BY <1>2
  <2>3. IsFiniteSet(more)
    BY <1>7 DEF Ec2Billed
  <2> HIDE DEF more
  <2>4. IsFiniteSet(d.costs \cup more)
    BY <1>2, <2>3, FS_Union
  <2> QED BY <1>1, <1>2, <2>1, <2>2, <2>4 DEF Document
<1>4. CASE service \in {"rds", "elasticache"}
  <2> DEFINE more == {i \in Billed(d, {"instance"}) : i.res.name = d.res.name}
  <2>1. AddCost(d) = [d EXCEPT !.costs = d.costs \cup more]
    BY <1>4 DEF AddCost, RdsAddCost, ElastiCacheAddCost, RdsBilled, ElastiCacheBilled
  <2>2. ASSUME NEW i \in more, i.res # d.res PROVE Namesake(d.account, d.res)
    <3>1. i.res \in inventory[d.account] /\ i.res.name = d.res.name
      BY DEF Billed, Item
    <3>2. i.res \in Resource
      BY <1>1, <3>1, ResourcesAre DEF UsageInv
    <3>3. IdOf(i.res) = IdOf(d.res)
      BY <1>1, <1>4, <3>1, <3>2, IdIs DEF UsageInv
    <3> QED BY <2>2, <3>1, <3>3 DEF Namesake
  <2>3. IsFiniteSet(more)
    BY <1>7
  <2> HIDE DEF more
  <2>4. IsFiniteSet(d.costs \cup more)
    BY <1>2, <2>3, FS_Union
  <2> QED BY <1>1, <1>2, <1>4, <2>1, <2>2, <2>4 DEF Document
<1>5. CASE service = "es"
  <2> DEFINE own == {i \in EsBilled(d) : i.res = d.res}
  <2>1. AddCost(d) = [d EXCEPT !.costs = own]
    BY <1>5 DEF AddCost, EsAddCost
  <2>2. \A i \in own : i.res = d.res
    OBVIOUS
  <2>3. IsFiniteSet(own)
    BY <1>7 DEF EsBilled
  <2> HIDE DEF own
  <2> QED BY <1>1, <2>1, <2>2, <2>3 DEF Document
<1>6. CASE service \notin {"ec2", "rds", "elasticache", "es"}
  BY <1>2, <1>6 DEF AddCost
<1> QED BY <1>3, <1>4, <1>5, <1>6

\* The monthly reports in an answer.
LEMMA MonthlyAre ==
    ASSUME UsageInv, NEW A \in SUBSET Accounts, NEW t
    PROVE  /\ \A d \in MonthlyReports(A, t) : d \in docs /\ d.account \in A /\ d.date = MonthStart /\ t = MonthStart
           /\ Cardinality(A) <= MaxBuckets =>
                  \A d \in docs : d.account \in A /\ d.date = MonthStart /\ t = MonthStart => d \in MonthlyReports(A, t)
<1> DEFINE S == {d \in docs : d.account \in A /\ d.date = MonthStart /\ t = MonthStart}
<1>1. Held(S, A)
  BY DEF Held
<1>2. MonthlyReports(A, t) = {d \in S : d.account \in AccountsIn(S)}
  BY DEF MonthlyReports
<1>3. Cardinality(A) <= MaxBuckets => AccountsIn(S) = {d.account : d \in S}
  <2> HIDE DEF S
  <2> QED BY <1>1, AccountsAre
<1> QED BY <1>2, <1>3
-----------------------------------------------------------------------------
(* Unused resources *)

\* s has k different elements of T, those of the largest weights first.
SortedSeq(s, k, T, w) ==
    /\ s \in [1 .. k -> T]
    /\ \A i, j \in 1 .. k : i # j => s[i] # s[j]
    /\ \A i, j \in 1 .. k : i < j => w[s[i]] >= w[s[j]]

\* A finite set can be sorted: as long as something is left the least of it goes to the front.
LEMMA SortingExists ==
    ASSUME NEW S, IsFiniteSet(S), NEW w \in [S -> Nat]
    PROVE  \E s : SortedSeq(s, Cardinality(S), S, w)
<1> DEFINE n == Cardinality(S)
           Least(k, T) == Cardinality(T) = k /\ \A x \in S \ T, y \in T : w[x] >= w[y]
           K == {k \in 0 .. n : \E T \in SUBSET S : Least(k, T) /\ \E s : SortedSeq(s, k, T, w)}
           m == Max(K)
<1>1. n \in Nat
  BY FS_CardinalityType
<1>2. 0 \in K
  <2>1. {} \in SUBSET S /\ Least(0, {})
    BY FS_EmptySet
  <2>2. SortedSeq(<<>>, 0, {}, w)
    BY DEF SortedSeq
  <2> HIDE DEF Least, n
  <2> QED BY <1>1, <2>1, <2>2
<1>3. m \in K /\ \A k \in K : m >= k
  <2>1. K \in SUBSET Nat /\ \A k \in K : k <= n
    BY <1>1
  <2> HIDE DEF K, n
  <2> QED BY <1>1, <1>2, <2>1, Greatest
<1> HIDE DEF m
<1>4. PICK T \in SUBSET S : Least(m, T) /\ \E s : SortedSeq(s, m, T, w)
  BY <1>3
<1>5. PICK s : SortedSeq(s, m, T, w)
  BY <1>4
<1>6. m \in 0 .. n /\ m \in Nat
  BY <1>1, <1>3
<1>7. CASE T = S
  BY <1>4, <1>5, <1>7
<1>8. CASE T # S
  <2> DEFINE W == {w[x] : x \in S \ T}
  <2>1. W \in SUBSET Nat /\ W # {}
    BY <1>8
  <2>2. PICK v \in W : \A u \in W : v <= u
    <3> HIDE DEF W
    <3> QED BY <2>1, NatMin
  <2>3. PICK x \in S \ T : v = w[x]
    BY <2>2
  <2> DEFINE U == T \cup {x}
             t == [i \in 1 .. m + 1 |-> IF i = 1 THEN x ELSE s[i - 1]]
  <2>4. Cardinality(U) = m + 1 /\ U \in SUBSET S
    <3>1. IsFiniteSet(T)
      BY FS_Subset
    <3> QED BY <1>4, <2>3, <3>1, FS_AddElement
  <2>5. \A y \in T : w[x] >= w[y]
    BY <1>4, <2>3
  <2>6. Least(m + 1, U)
    <3>1. ASSUME NEW z \in S \ U, NEW y \in U PROVE w[z] >= w[y]
      <4>1. z \in S \ T /\ w[z] \in W
        BY <3>1
      <4>2. CASE y = x
        <5>1. v <= w[z]
          BY <2>2, <4>1
        <5>2. w[z] \in Nat /\ v \in Nat
          BY <2>1, <2>2, <4>1
        <5> QED BY <2>3, <4>2, <5>1, <5>2
      <4>3. CASE y \in T
        BY <1>4, <4>1, <4>3
      <4> QED BY <3>1, <4>2, <4>3
    <3> QED BY <2>4, <3>1
  <2>7. SortedSeq(t, m + 1, U, w)
    <3>1. s \in [1 .. m -> T]
      BY <1>5 DEF SortedSeq
    <3>2. ASSUME NEW i \in 1 .. m + 1 PROVE i = 1 \/ (i - 1 \in 1 .. m /\ t[i] = s[i - 1] /\ t[i] \in T)
      BY <1>6, <3>1
    <3>3. t[1] = x /\ 1 \in 1 .. m + 1
      BY <1>6
    <3>4. t \in [1 .. m + 1 -> U]
      <4>1. \A i \in 1 .. m + 1 : t[i] \in U
        BY <3>2, <3>3
      <4> HIDE DEF U
      <4> QED BY <4>1
    <3> HIDE DEF t
    <3>5. ASSUME NEW i \in 1 .. m + 1, NEW j \in 1 .. m + 1, i # j PROVE t[i] # t[j]
      <4>1. CASE i = 1
        BY <2>3, <3>2, <3>3, <3>5, <4>1
      <4>2. CASE j = 1
        BY <2>3, <3>2, <3>3, <3>5, <4>2
      <4>3. CASE i # 1 /\ j # 1
        <5>1. i - 1 # j - 1
          BY <1>6, <3>5
        <5> QED BY <1>5, <3>2, <4>3, <5>1 DEF SortedSeq
      <4> QED BY <4>1, <4>2, <4>3
    <3>6. ASSUME NEW i \in 1 .. m + 1, NEW j \in 1 .. m + 1, i < j PROVE w[t[i]] >= w[t[j]]
      <4>1. j # 1
        BY <1>6, <3>6
      <4>2. CASE i = 1
        BY <2>5, <3>2, <3>3, <4>1, <4>2
      <4>3. CASE i # 1
        <5>1. i - 1 < j - 1
          BY <1>6, <3>6
        <5> QED BY <1>5, <3>2, <4>1, <4>3, <5>1 DEF SortedSeq
      <4> QED BY <4>2, <4>3
    <3> QED BY <3>4, <3>5, <3>6 DEF SortedSeq
  <2>8. m + 1 <= n
    <3>1. Cardinality(U) <= Cardinality(S)
      <4> HIDE DEF U
      <4> QED BY <2>4, FS_Subset
    <3> QED BY <2>4, <3>1
  <2>9. m + 1 \in K
    <3>1. m + 1 \in 0 .. n
      BY <1>1, <1>6, <2>8
    <3> HIDE DEF Least, U, t, n
    <3> QED BY <2>4, <2>6, <2>7, <3>1
  <2> QED BY <1>3, <1>6, <2>9
<1> QED BY <1>7, <1>8

\* Sorted sorts: there is a sorted sequence for CHOOSE to find.
LEMMA SortedIs ==
    ASSUME NEW S, IsFiniteSet(S), \A d \in S : IsFiniteSet(d.costs)
    PROVE  /\ Sorted(S) \in Seq(S) /\ DOMAIN Sorted(S) = 1 .. Cardinality(S)
           /\ \A i \in DOMAIN Sorted(S) : Sorted(S)[i] \in S
           /\ \A i, j \in DOMAIN Sorted(S) : i < j => Cardinality(Sorted(S)[i].costs) >= Cardinality(Sorted(S)[j].costs)
<1> DEFINE w == [d \in S |-> Cardinality(d.costs)]
           n == Cardinality(S)
           Falls(s) == \A i, j \in DOMAIN s : i < j => Cardinality(s[i].costs) >= Cardinality(s[j].costs)
<1>1. w \in [S -> Nat] /\ n \in Nat
  BY FS_CardinalityType
<1>2. PICK s : SortedSeq(s, n, S, w)
  <2> HIDE DEF w
  <2> QED BY <1>1, SortingExists
<1>3. s \in [1 .. n -> S] /\ DOMAIN s = 1 .. n
  BY <1>2 DEF SortedSeq
<1>4. s \in SetToSeqs(S)
  BY <1>2, <1>3 DEF SortedSeq, SetToSeqs
<1>5. Falls(s)
  <2> SUFFICES ASSUME NEW i \in DOMAIN s, NEW j \in DOMAIN s, i < j
               PROVE  Cardinality(s[i].costs) >= Cardinality(s[j].costs)
    OBVIOUS
  <2>1. w[s[i]] >= w[s[j]]
    BY <1>2, <1>3 DEF SortedSeq
  <2>2. s[i] \in S /\ s[j] \in S
    BY <1>3
  <2> QED BY <2>1, <2>2
<1>6. Sorted(S) = CHOOSE x \in SetToSeqs(S) : Falls(x)
  BY DEF Sorted
<1>7. Sorted(S) \in SetToSeqs(S) /\ Falls(Sorted(S))
  <2> HIDE DEF Falls
  <2> QED BY <1>4, <1>5, <1>6
<1>8. Sorted(S) \in [1 .. n -> S]
  BY <1>7 DEF SetToSeqs
<1>9. Sorted(S) \in Seq(S) /\ DOMAIN Sorted(S) = 1 .. n /\ \A i \in 1 .. n : Sorted(S)[i] \in S
  BY <1>1, <1>8
<1> QED BY <1>7, <1>9

\* What is listed of the unused.
Listed(answer) == {d \in answer : IF service = "elasticache" THEN d.load # Busy ELSE d.load = Idle}

LEMMA UnusedIs ==
    ASSUME service \in Monthly \ {"es"}, NEW A, NEW t, NEW n
    PROVE  LET unused == Sorted(Listed(Answer(A, t))) IN Unused(A, t, n) = FirstOf(n, Len(unused), unused)
<1> DEFINE answer == Answer(A, t)
<1>1. CASE service = "ec2"
  <2>1. {d \in answer : Ec2Unused(d)} = Listed(answer)
    BY <1>1 DEF Listed, Ec2Unused
  <2>2. Unused(A, t, n) = Ec2UnusedOf(n, answer)
    BY <1>1 DEF Unused
  <2> HIDE DEF answer
  <2> QED BY <2>1, <2>2 DEF Ec2UnusedOf, answer
<1>2. CASE service = "rds"
  <2>1. {d \in answer : RdsUnused(d)} = Listed(answer)
    BY <1>2 DEF Listed, RdsUnused
  <2>2. Unused(A, t, n) = RdsUnusedOf(n, answer)
    BY <1>2 DEF Unused
  <2> HIDE DEF answer
  <2> QED BY <2>1, <2>2 DEF RdsUnusedOf, answer
<1>3. CASE service = "elasticache"
  <2>1. {d \in answer : ElastiCacheUnused(d)} = Listed(answer)
    BY <1>3 DEF Listed, ElastiCacheUnused
  <2>2. Unused(A, t, n) = ElastiCacheUnusedOf(n, answer)
    BY <1>3 DEF Unused
  <2> HIDE DEF answer
  <2> QED BY <2>1, <2>2 DEF ElastiCacheUnusedOf, answer
<1> QED BY <1>1, <1>2, <1>3 DEF Monthly

\* The documents of an answer are finitely many, and so are their costs.
LEMMA AnswerFinite ==
    ASSUME UsageInv, NEW A \in SUBSET Accounts, NEW t, Answer(A, t) # Missing
    PROVE  IsFiniteSet(Answer(A, t)) /\ \A d \in Answer(A, t) : IsFiniteSet(d.costs)
<1>1. CASE Answer(A, t) = MonthlyReports(A, t)
  <2>1. Answer(A, t) \in SUBSET docs
    BY <1>1, MonthlyAre
  <2>2. IsFiniteSet(docs) /\ \A d \in docs : IsFiniteSet(d.costs)
    BY DEF UsageInv, DocsInv, DocOk
  <2> QED BY <2>1, <2>2, FS_Subset
<1>2. CASE Answer(A, t) = {AddCost(d) : d \in DailyReports(A, t)}
  <2> DEFINE D == DailyReports(A, t)
             b == [d \in D |-> AddCost(d)]
  <2>1. D \in SUBSET docs /\ IsFiniteSet(docs)
    BY DailyAre DEF UsageInv, DocsInv
  <2>2. IsFiniteSet(D)
    BY <2>1, FS_Subset
  <2>3. Answer(A, t) = {b[d] : d \in D}
    BY <1>2
  <2>4. \A d \in D : IsFiniteSet(AddCost(d).costs)
    BY <2>1, AddCostIs
  <2> HIDE DEF b, D
  <2>5. IsFiniteSet(Answer(A, t))
    BY <2>2, <2>3, FiniteImage
  <2> QED BY <1>2, <2>4, <2>5 DEF D
<1> QED BY <1>1, <1>2, AnswerIs

LEMMA UnusedFollow == UsageInv => UnusedAreUnused
<1> SUFFICES ASSUME UsageInv, service \in Monthly \ {"es"}, NEW q \in Questions, NEW n \in -1 .. 2
             PROVE  LET unused == Unused(q[1], q[2], n)
                        all    == Unused(q[1], q[2], -1)
                    IN /\ \A i \in DOMAIN all : all[i].load # Busy
                       /\ n >= 0 => Len(unused) <= n \/ unused = all
                       /\ \A d \in ToSet(all) \ ToSet(unused), e \in ToSet(unused) :
                              Cardinality(d.costs) <= Cardinality(e.costs)
  BY DEF UnusedAreUnused
<1> DEFINE A == q[1]
           t == q[2]
           S == Listed(Answer(A, t))
           s == Sorted(S)
           k == Cardinality(S)
<1>1. A \in SUBSET Accounts /\ Answer(A, t) # Missing
  BY DEF Questions
<1>2. IsFiniteSet(S) /\ (\A d \in S : IsFiniteSet(d.costs)) /\ \A d \in S : d.load # Busy
  <2>1. IsFiniteSet(Answer(A, t)) /\ \A d \in Answer(A, t) : IsFiniteSet(d.costs)
    BY <1>1, AnswerFinite
  <2>2. S \in SUBSET Answer(A, t) /\ \A d \in S : d.load # Busy
    BY DEF Listed, Idle, Busy
  <2> HIDE DEF S, A, t
  <2> QED BY <2>1, <2>2, FS_Subset
<1>3. \A x : Unused(A, t, x) = FirstOf(x, Len(s), s)
  BY UnusedIs
<1> HIDE DEF S
<1>4. s \in Seq(S) /\ DOMAIN s = 1 .. k /\ (\A i \in DOMAIN s : s[i] \in S)
      /\ \A i, j \in DOMAIN s : i < j => Cardinality(s[i].costs) >= Cardinality(s[j].costs)
  BY <1>2, SortedIs
<1> HIDE DEF s, k
<1>5. Len(s) \in Nat /\ DOMAIN s = 1 .. Len(s)
  BY <1>4
<1>6. Unused(A, t, -1) = s
  BY <1>3, <1>5 DEF FirstOf
<1> DEFINE u == Unused(A, t, n)
<1>7. CASE n \notin 0 .. Len(s)
  <2>1. u = s
    BY <1>3, <1>7 DEF FirstOf
  <2> HIDE DEF u
  <2> QED BY <1>2, <1>4, <1>6, <2>1 DEF u
<1>8. CASE n \in 0 .. Len(s)
  <2>1. u = SubSeq(s, 1, n)
    BY <1>3, <1>8 DEF FirstOf
  <2>2. Len(u) = n /\ DOMAIN u = 1 .. n /\ \A i \in 1 .. n : u[i] = s[i]
    BY <1>4, <1>5, <1>8, <2>1
  <2> HIDE DEF u
  <2>3. ASSUME NEW d \in ToSet(s) \ ToSet(u), NEW e \in ToSet(u)
        PROVE  Cardinality(d.costs) <= Cardinality(e.costs)
    <3>1. PICK j \in 1 .. Len(s) : d = s[j]
      BY <1>5 DEF ToSet
    <3>2. PICK i \in 1 .. n : e = u[i]
      BY <2>2 DEF ToSet
    <3>3. j \notin 1 .. n
      BY <2>2, <2>3, <3>1 DEF ToSet
    <3>4. i < j /\ i \in DOMAIN s /\ j \in DOMAIN s /\ e = s[i]
      BY <1>5, <1>8, <2>2, <3>1, <3>2, <3>3
    <3>5. Cardinality(s[i].costs) >= Cardinality(s[j].costs)
      BY <1>4, <3>4
    <3>6. Cardinality(s[i].costs) \in Nat /\ Cardinality(s[j].costs) \in Nat
      <4>1. s[i] \in S /\ s[j] \in S
        BY <1>4, <3>4
      <4> QED BY <1>2, <4>1, FS_CardinalityType
    <3> QED BY <3>1, <3>4, <3>5, <3>6
  <2>4. \A i \in DOMAIN s : s[i].load # Busy
    BY <1>2, <1>4
  <2> QED BY <1>6, <2>2, <2>3, <2>4 DEF u
<1> QED BY <1>7, <1>8
-----------------------------------------------------------------------------
(* Answers are true *)

LEMMA CountsFollow == UsageInv => AnswerCounts
<1> SUFFICES ASSUME UsageInv, NEW q \in Questions, NEW d \in Answer(q[1], q[2]), NEW e \in Answer(q[1], q[2])
             PROVE  /\ d.account = e.account /\ d.res = e.res => d = e
                    /\ d.date # MonthStart => \/ {i.res : i \in d.costs} \subseteq {d.res}
                                              \/ service \in {"rds", "elasticache"} /\ Namesake(d.account, d.res)
  BY DEF AnswerCounts
<1> DEFINE A == q[1]
           t == q[2]
<1>1. A \in SUBSET Accounts /\ Answer(A, t) # Missing
  BY DEF Questions
<1>2. \A x, y \in docs : x.account = y.account /\ x.date = y.date /\ x.res = y.res => x = y
  BY DEF UsageInv, DocsInv, DocOk, SameKey
<1>3. CASE Answer(A, t) = MonthlyReports(A, t)
  BY <1>1, <1>2, <1>3, MonthlyAre
<1>4. CASE Answer(A, t) = {AddCost(x) : x \in DailyReports(A, t)}
  <2>1. PICK x \in DailyReports(A, t), y \in DailyReports(A, t) : d = AddCost(x) /\ e = AddCost(y)
    BY <1>4
  <2>2. /\ x \in LastOf(InTime(A, t), x.account) /\ y \in LastOf(InTime(A, t), y.account)
        /\ x \in InTime(A, t) /\ x \in docs /\ y \in docs /\ x.date # MonthStart
    BY <1>1, DailyAre
  <2>3. /\ d.account = x.account /\ d.date = x.date /\ d.res = x.res
        /\ e.account = y.account /\ e.date = y.date /\ e.res = y.res
        /\ \/ {i.res : i \in d.costs} \subseteq {d.res}
           \/ service \in {"rds", "elasticache"} /\ Namesake(d.account, d.res)
    BY <2>1, <2>2, AddCostIs
  <2>4. ASSUME d.account = e.account, d.res = e.res PROVE d = e
    <3> DEFINE S == InTime(A, t)
    <3>1. S \in SUBSET docs /\ {z \in S : z.account = x.account} # {}
      BY <2>2 DEF InTime
    <3>2. \A z, w \in LastOf(S, x.account) : z.date = w.date
      BY <3>1, LastIs
    <3>3. x.date = y.date
      BY <2>2, <2>3, <2>4, <3>2
    <3> QED BY <1>2, <2>1, <2>2, <2>3, <2>4, <3>3
  <2> QED BY <2>3, <2>4
<1> QED BY <1>1, <1>3, <1>4, AnswerIs

LEMMA LastFollows == UsageInv => AnswerIsLast
<1> SUFFICES ASSUME UsageInv, NEW q \in Questions, NEW d \in Answer(q[1], q[2]), NEW e \in docs,
                    e.account = d.account, d.date < e.date, d.date # MonthStart,
                    ~(Cardinality({x.date : x \in {y \in docs : y.account = d.account}} \ {MonthStart}) > MaxBuckets)
             PROVE  FALSE
  BY DEF AnswerIsLast
<1> DEFINE A == q[1]
           t == q[2]
           S == InTime(A, t)
<1>1. A \in SUBSET Accounts /\ Answer(A, t) # Missing /\ t \in Nat
  BY DEF Questions, MonthStart
<1>2. CASE Answer(A, t) = MonthlyReports(A, t)
  <2>1. d \in MonthlyReports(A, t)
    BY <1>2
  <2>2. d.date = MonthStart
    <3> HIDE DEF A, t
    <3> QED BY <1>1, <2>1, MonthlyAre
  <2> QED BY <2>2
<1>3. CASE Answer(A, t) = {AddCost(x) : x \in DailyReports(A, t)}
  <2>1. PICK x \in DailyReports(A, t) : d = AddCost(x)
    BY <1>3
  <2>2. x \in LastOf(S, x.account) /\ x \in S /\ x \in docs
    BY <1>1, DailyAre
  <2>3. d.account = x.account /\ d.date = x.date
    BY <2>1, <2>2, AddCostIs
  <2>4. x.date \in Nat /\ e.date \in Nat
    <3>1. x \in Document /\ e \in Document
      BY <2>2 DEF UsageInv, DocsInv
    <3>2. \A y \in Document : y.date \in Dates \cup {MonthStart}
      BY DEF Document
    <3>3. x.date \in Dates \cup {MonthStart} /\ e.date \in Dates \cup {MonthStart}
      BY <3>1, <3>2
    <3>4. \A y \in Dates \cup {MonthStart} : y \in Nat
      BY DatesAre
    <3> QED BY <3>3, <3>4
  <2>5. e \in S
    <3>1. e.date # MonthStart
      BY <2>3, <2>4, DatesAre
    <3>2. today = MaxDays + 1 => e.date >= t
      BY <1>1, <2>2, <2>3, <2>4 DEF InTime, InRange
    <3> QED BY <2>2, <2>3, <3>1, <3>2 DEF InTime, InRange
  <2> DEFINE mine == {y.date : y \in {z \in S : z.account = x.account}}
             all  == {y.date : y \in {z \in docs : z.account = d.account}} \ {MonthStart}
  <2>6. mine \in SUBSET all
    BY <2>3 DEF InTime, InRange
  <2>7. IsFiniteSet(all)
    <3>1. MaxDays \in Nat /\ all \subseteq 0 .. MaxDays
      <4>1. \A y \in docs : y.date \in 0 .. MaxDays
        BY DatesAre DEF UsageInv, DocsInv, Document, Dates
      <4> QED BY <4>1, DatesAre
    <3>2. IsFiniteSet(0 .. MaxDays)
      BY <3>1, FS_Interval
    <3> HIDE DEF all
    <3> QED BY <3>1, <3>2, FS_Subset
  <2>8. ~(Cardinality(all) > MaxBuckets)
    OBVIOUS
  <2> HIDE DEF mine, all
  <2>9. Cardinality(mine) <= MaxBuckets
    <3>1. IsFiniteSet(mine) /\ Cardinality(mine) <= Cardinality(all)
      BY <2>6, <2>7, FS_Subset
    <3>2. Cardinality(mine) \in Nat /\ Cardinality(all) \in Nat /\ MaxBuckets \in Nat
      BY <2>7, <3>1, FS_CardinalityType, QueriesAssumption
    <3> QED BY <2>8, <3>1, <3>2
  <2>10. \A z \in LastOf(S, x.account), y \in S : y.account = x.account => y.date <= z.date
    <3>1. S \in SUBSET docs /\ {z \in S : z.account = x.account} # {}
      BY <2>2 DEF InTime
    <3> HIDE DEF S
    <3> QED BY <2>9, <3>1, LastIs DEF mine
  <2>11. e.date <= x.date
    BY <2>2, <2>3, <2>5, <2>10
  <2> QED BY <2>3, <2>4, <2>11
<1> QED BY <1>1, <1>2, <1>3, AnswerIs

LEMMA AccountsFollow == UsageInv => AnswerHasAccounts
<1> SUFFICES ASSUME UsageInv, NEW q \in Questions, NEW a \in q[1],
                    NEW d \in docs, d.account = a, d.date # MonthStart, today <= MaxDays \/ d.date >= q[2],
                    ~(Cardinality(q[1]) > MaxBuckets)
             PROVE  \/ \E e \in Answer(q[1], q[2]) : e.account = a
                    \/ q[2] = MonthStart /\ ~ReportExists(a) /\ \E x \in q[1] : ReportExists(x)
  BY DEF AnswerHasAccounts
<1> DEFINE A == q[1]
           t == q[2]
<1>1. A \in SUBSET Accounts /\ Answer(A, t) # Missing
  BY DEF Questions
<1>2. Cardinality(A) <= MaxBuckets
  <2>1. IsFiniteSet(A)
    BY <1>1, FS_Subset, UsageAssumption
  <2>2. Cardinality(A) \in Nat /\ MaxBuckets \in Nat
    BY <2>1, FS_CardinalityType, QueriesAssumption
  <2> QED BY <2>2
<1>3. CASE MonthlyReports(A, t) # {} /\ Answer(A, t) = MonthlyReports(A, t)
  <2>1. PICK m \in MonthlyReports(A, t) : TRUE
    BY <1>3
  <2>2. m \in docs /\ m.account \in A /\ m.date = MonthStart /\ t = MonthStart
    BY <1>1, <2>1, MonthlyAre
  <2>3. CASE ReportExists(a)
    <3>1. PICK e \in docs : e.account = a /\ e.date = MonthStart
      BY <2>3 DEF ReportExists
    <3>2. e \in MonthlyReports(A, t)
      BY <1>1, <1>2, <2>2, <3>1, MonthlyAre
    <3> QED BY <1>3, <3>1, <3>2
  <2>4. CASE ~ReportExists(a)
    BY <2>2, <2>4 DEF ReportExists
  <2> QED BY <2>3, <2>4
<1>4. CASE Answer(A, t) = {AddCost(x) : x \in DailyReports(A, t)}
  <2>1. d \in InTime(A, t)
    <3>1. today = MaxDays + 1 => d.date >= t
      BY DatesAre DEF UsageInv, Fixed
    <3> QED BY <3>1 DEF InTime, InRange
  <2>2. PICK x \in DailyReports(A, t) : x.account = a
    BY <1>1, <1>2, <2>1, DailyAre
  <2>3. AddCost(x).account = a
    BY <1>1, <2>2, DailyAre, AddCostIs
  <2> QED BY <1>4, <2>2, <2>3
<1> QED BY <1>1, <1>3, <1>4, AnswerIs

\* What a user is told is true: no account is left out, the daily part is the last report,
\* and each resource comes once, with its own costs, but for what the parts of the property
\* name (prepareResponse of usageReports/).
THEOREM AnswersHold == Spec => []AnswersAreTrue
<1>1. UsageInv => AnswersAreTrue
  BY AccountsFollow, LastFollows, CountsFollow, UnusedFollow DEF AnswersAreTrue
<1> QED BY <1>1, UsageInvHolds, PTL
=============================================================================
