----------------------------- MODULE MCRiAdvice -----------------------------
EXTENDS RiAdvice

CONSTANTS z1, z2, z3, g1, g2, new, old, odd

MCRegionOf   == [z \in {z1, z2, z3} |-> IF z = z3 THEN g2 ELSE g1]
MCEquivalent == [t \in {old} |-> new]

\* Two of a kind in two zones, one of the previous generation, and one without an
\* equivalent in the other region.
I(id, z, t) == [id |-> id, zone |-> z, type |-> t, platform |-> "Linux/UNIX"]
A == I("a", z1, new)
B == I("b", z2, new)
C == I("c", z1, old)
D == I("d", z3, odd)
MCInstances == {A, B, C, D}

\* A reservation of a zone, and one of another platform.
R(id, z, p) == [id |-> id, region |-> g1, zone |-> z, type |-> new, platform |-> p, count |-> 1]
S1 == R("s1", z1, "Linux/UNIX")
S2 == R("s2", None, "Windows")
MCReservations == {S1, S2}

In(S, up) == [i \in MCInstances |-> IF i \in up THEN "running" ELSE IF i \in S THEN "stopped" ELSE None]
MCFleets == {In({}, {A, B, C}), In({A, B}, {A, D}), In({}, {})}
MCBooks  == {[r \in MCReservations |-> None],
             [r \in MCReservations |-> "active"],
             [r \in MCReservations |-> IF r = S2 THEN "active" ELSE None]}

Term(len, opt, hourly) ==
    [length |-> len, class |-> "standard", option |-> opt, hourly |-> hourly]
Offer(os, t, now, od, terms) ==
    [box |-> TRUE, byol |-> FALSE, operatingSystem |-> os, type |-> t, currentGeneration |-> now,
     onDemand |-> od, reserved |-> terms]
Byol(item) == [item EXCEPT !.byol = TRUE, !.reserved = {}]
Other(item) == [item EXCEPT !.box = FALSE]

Years(y1, y3) == {Term("1yr", "No Upfront", y1), Term("3yr", "No Upfront", y3),
                  Term("1yr", "All Upfront", 0)}

NewOffer == Offer("Linux", new, TRUE, 10, Years(7, 5))
Dearer   == Offer("Linux", new, TRUE, 12, {Term("1yr", "No Upfront", 9), Term("3yr", "All Upfront", 0)})
OldOffer == Offer("Linux", old, FALSE, 14, Years(11, 8))
OddOffer == Offer("Linux", odd, FALSE, 20, Years(15, 12))

First  == [g \in {g1, g2} |-> IF g = g1 THEN <<NewOffer, Byol(NewOffer), OldOffer, Other(Dearer)>>
                                        ELSE <<OddOffer>>]
Second == [g \in {g1, g2} |-> IF g = g1 THEN <<Dearer, OldOffer>> ELSE <<NewOffer>>]
Third  == [Second EXCEPT ![g2] = <<Offer(None, new, TRUE, 10, {})>>]
MCPriceLists == {First, Second, Third}

\* A run meets fetch-pricings when it reads the prices, and is alone before.
Apart == fetch.busy => job.at \in {"idle", "advise"}

\* A change of AWS, a failure or the end of the month: one of them.
OneEvent == changes + faults + (IF month > 1 THEN 1 ELSE 0) <= 1
=============================================================================
