-------------------------- MODULE MCBillIngestion --------------------------
(* Model values and symmetry for the runs of BillIngestion.                *)
EXTENDS BillIngestion, TLC

CONSTANTS r1, r2, b1, b2, p1, p2, w1, w2

\* Every period on one page, and every period on a page of its own.
OnePage == [p \in Periods |-> 1]
TwoPages == [p \in Periods |-> IF p = p1 THEN 1 ELSE 2]

Symmetric == Permutations(Buckets) \cup Permutations(Workers)

\* A bound: at most one deletion waits for ElasticSearch at a time.
OneClean == Cardinality(cleans) <= 1

\* Nothing more is asked of repositories once the line items of each are at risk.
Untainted == \E r \in (IF used = {} THEN Repos ELSE used) : cause[r] = "none"

\* Which repository comes first makes no difference.
InOrder == r2 \in used => r1 \in used

\* A job row that was left behind changes nothing else: it expires before the next task.
ExpiresFirst == stuck # {} => \A w \in Workers : job[w] = "idle"

\* A bound: the bills of the second page do not change any more.
SecondIsFinal == \A b \in Buckets : s3[b][p2] = Absent \/ s3[b][p2].inv

\* Two repositories on one bucket, both created at first, are followed while the periodic
\* task alone imports the bills of one period, up to the second unit of time and to the
\* first import that drops something.
TwinsAlone == Cardinality(used) > 1 =>
    /\ Cardinality({w \in Workers : job[w] # "idle"}) <= 1
    /\ \A w \in Workers : job[w] \in Periodic \cup {"idle", "post"}
    /\ (\E w \in Workers : job[w] = "post") => now = 0
    /\ \A b \in Buckets : s3[b][p2] = Absent
    /\ now <= 1
    /\ cleans = {} \/ \E w \in Workers : job[w] # "idle"
    /\ \A r \in used : cause[r] # "fault"
=============================================================================
