------------------------------ MODULE MCUsage -------------------------------
EXTENDS UsageQueries

CONSTANTS n1, n2, ra, rb, u1, u2

R(n, g) == [name |-> n, region |-> g]

\* Three accounts; an account with namesakes in two regions; an account with two
\* resources in one region, of which one is busy or without a zone.
Each     == <<{R(n1, ra)}, {R(n1, ra)}, {R(n1, ra)}>>
Regional == <<{R(n1, ra), R(n1, rb)}, {}, {}>>
Pair     == <<{R(n1, ra), R(n2, ra)}, {R(n2, rb)}, {}>>

MCInventories == {Each, Regional, Pair}
MCZoneless    == {R(n2, rb)}
MCLoad  == [r \in Resource |-> CASE r.name = n1 -> Idle [] r = R(n2, ra) -> Busy [] OTHER -> None]
MCOwner == <<u1, u2, u1>>

\* Three accounts are there for the answers: nothing goes wrong and nothing is deleted.
\* Otherwise the first day and the monthly reports may fail; accounts without
\* resources have no reports.
Focus ==
    /\ inventory = Each => faults = 0 /\ cloud = inventory
    /\ harmed \subseteq Accounts \X {MonthStart, 1}
    /\ job # NoJob => inventory[job.account] # {}
=============================================================================
