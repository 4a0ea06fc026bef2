---------------------------- MODULE MCAnomalies ----------------------------
EXTENDS CostQueries

CONSTANTS p1, p2, x1, x2, u1, u2, u3, b1, nb, k1, k2, v1, v2, none, StartDays

\* The costs of p1 and p2 in the end: anomalies that come back after a month, also on a
\* day when the other product costs the same, and days without a cost.
Daily     == <<<<2, 2, 9, 2, 2, 9>>, <<0, 0, 0, 0, 0, 9>>>>
Gaps      == <<<<2, 0, 9, 0, 2, 9>>, <<5, 5, 5, 5, 5, 5>>>>
Histories == {Daily, Gaps}

Cost(h, p, d) == h[IF p = p1 THEN 1 ELSE 2][d]

MCBills == {b \in Products \X Days \X {2, 5, 9} : \E h \in Histories : Cost(h, b[1], b[2]) = b[3]}

\* Up to three accounts of three users, the first one given, and up to two shares of them.
Rows(n)   == {r \in [1 .. n -> [identity : {x1, x2}, owner : Users]] :
                 n > 0 => r[1] = [identity |-> x1, owner |-> u1]}
Shares(n) == UNION {[1 .. k -> [account : 1 .. n, user : Users]] : k \in 0 .. 2}
MCTables  == UNION {[accounts : Rows(n), shares : Shares(n)] : n \in 0 .. 3}

\* The account is also added by u2, and the first one is shared with u3.
Main == [accounts |-> <<[identity |-> x1, owner |-> u1], [identity |-> x1, owner |-> u2]>>,
         shares   |-> <<[account |-> 1, user |-> u3]>>]

F(rule, data) == [rule |-> rule, data |-> data, disabled |-> FALSE]
MCFilters == {F("cost_max", 5), F("cost_min", 9), F("expected_cost_max", 4),
              F("expected_cost_min", 4), F("level", {0, 3}), F("level", {1, 2}),
              F("month_day", {3, 31}), F("week_day", {6}), F("week_day", {0, 2, 3}),
              F("product", {p2}), F("level", {}),
              [rule |-> "cost_max", data |-> 0, disabled |-> TRUE]}

MCLevels == <<0, 24, 30, 40>>

\* Days of two units of time, weeks and months that do not begin together.
MCSpan   == [day |-> 2, week |-> 4, month |-> 6, year |-> 12]
MCRanges == {<<0, 5>>, <<1, 2>>, <<2, 2>>}

\* Line items of two accounts: usage of a machine that rises, a refund, a tax, and the kinds
\* of usage of a bucket, one of them an error. An account was added by two users; u3 has no index.
Line(index, account, product, region, zone, usage, resource, tags, marks, time, paid) ==
    [index |-> index, account |-> account, product |-> product, region |-> region,
     availabilityzone |-> zone, usage |-> usage, resource |-> resource, tags |-> tags,
     marks |-> marks, time |-> time, cost |-> paid]
Machine(time, paid, tags) == Line(u1, x1, p1, "r1", "z1", "machine", none, tags, {}, time, paid)
Bucket1(account, usage, resource, marks, time, paid) ==
    Line(u1, account, p2, "r1", "", usage, resource, {<<k1, none>>}, marks, time, paid)
MCLineItems ==
    {Machine(0, 2, {<<k1, v1>>, <<k2, none>>}), Machine(2, 3, {<<k1, v1>>, <<k2, v2>>}),
     Machine(5, 7, {<<k1, v2>>, <<k2, v2>>}), Machine(11, -4, {}),
     Line(u1, x1, p1, "taxes", "taxes", "tax", none, {}, {}, 0, 1),
     Line(u2, x1, p1, "r1", "z1", "machine", none, {<<k1, v1>>}, {}, 0, 2),
     Bucket1(x1, "stored", b1, {"TimedStorage"}, 3, 5), Bucket1(x2, "stored", b1, {"TimedStorage"}, 4, 1),
     Bucket1(x2, "asked", b1, {"Requests"}, 3, 1), Bucket1(x2, "asked", nb, {"Requests"}, 3, 1),
     Bucket1(x1, "received", b1, {"In", "AWSDataTransfer"}, 5, 3),
     Bucket1(x1, "sent", b1, {"Out", "AWSDataTransfer"}, 5, 4)}

\* The bills of a day come in on that day, but one of p1 at a time may come in later.
Comes(h) ==
    LET Due == {x \in Keys : x[2] <= now /\ cost[x[1]][x[2]] # Cost(h, x[1], x[2])}
    IN /\ \A x \in Keys : cost[x[1]][x[2]] \in {0, Cost(h, x[1], x[2])}
       /\ \/ Due \subseteq {p1} \X Days /\ Cardinality(Due) <= 1
          \/ Due \subseteq Products \X {now} /\ job = NoJob

\* The task begins on some of the days, and with one of the tables;
\* with a fault, or with bills from within the day, the costs are those of Daily.
Focus ==
    /\ tables = Main \/ (now = 1 /\ Items = {} /\ faults = 0)
    /\ faults > 0 => hour = 0
    /\ hour > 0 \/ faults > 0 => Comes(Daily)
    /\ \E h \in Histories : Comes(h)
    /\ job.pc = "fetch" => now \in StartDays
=============================================================================
