--------------------------- MODULE MCAccountJobs ---------------------------
(* Model values for the runs of AccountJobs.                               *)
EXTENDS AccountJobs, TLC

CONSTANTS payer, sub, w1, w2, r1, r2

SubOfPayer == [a \in Accounts |-> IF a = sub THEN payer ELSE NoAccount]
OneService == <<"ec2">>
AllOfEc2 == [r \in Resources |-> "ec2"]

Symmetric == Permutations(Workers) \cup Permutations(Resources)
=============================================================================
