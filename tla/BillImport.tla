----------------------------- MODULE BillImport -----------------------------
(***************************************************************************)
(* What ReadBills (aws/s3/readBills.go) promises the task that calls it:   *)
(* the line items of some manifests, each at most once and those of        *)
(* a report in their order, and the date of the latest of these manifests, *)
(* from which the next call will go on.                                    *)
(***************************************************************************)
EXTENDS Integers

CONSTANTS Manifests, Reports, Of, Records, OpenRecords, Month, Since

VARIABLES
    dates,   \* of the manifests, and of other objects
    taken,   \* the manifests that are imported
    passed,  \* the line items oli was called with
    done,    \* whether ReadBills has returned
    date     \* what it has returned

vars == <<dates, taken, passed, done, date>>

\* selectManifests: manifests up to a month older than the last import.
Recent(m) == dates[m] + Month > Since

\* The line items of a new bill, and those with no invoice.
Wanted(r, n) == dates[Of[r]] > Since \/ <<r, n>> \in OpenRecords

Take(m) ==
    /\ ~done /\ m \notin taken /\ Recent(m)
    /\ taken' = taken \cup {m}
    /\ UNCHANGED <<dates, passed, done, date>>

Pass(r, n) ==
    /\ ~done /\ Of[r] \in taken /\ <<r, n>> \notin passed /\ Wanted(r, n)
    /\ \A i \in 1 .. n - 1 : Wanted(r, i) => <<r, i>> \in passed
    /\ passed' = passed \cup {<<r, n>>}
    /\ UNCHANGED <<dates, taken, done, date>>

IsLatest(d) ==
    /\ \A m \in taken : dates[m] <= d
    /\ d = 0 \/ \E m \in taken : dates[m] = d

Return ==
    /\ ~done /\ done'
    /\ IsLatest(date')
    /\ UNCHANGED <<dates, taken, passed>>

Init == taken = {} /\ passed = {} /\ ~done /\ date = 0

Next ==
    \/ \E m \in Manifests : Take(m)
    \/ \E r \in Reports, n \in 1 .. Records : Pass(r, n)
    \/ Return

Spec == Init /\ [][Next]_vars
=============================================================================
