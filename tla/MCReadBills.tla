---------------------------- MODULE MCReadBills ----------------------------
(* Model values and instances for the runs of ReadBills.                   *)
EXTENDS ReadBills

CONSTANTS k1, k2, k3, x1, x2, x3

\* Two manifests on the first page and another object on the second, or on
\* the first with the second manifest on the next page.
Pages == [k \in Keys |-> IF k = k2 THEN 2 ELSE 1]

\* The reports of a manifest in two parts and of a manifest in one.
Parts == [r \in Reports |-> IF r = x3 THEN k2 ELSE k1]

\* The first line item of each report of k1 has no invoice yet.
NotInvoiced == {<<x1, 1>>, <<x2, 1>>}
=============================================================================
