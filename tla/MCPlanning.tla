----------------------------- MODULE MCPlanning -----------------------------
EXTENDS Planning, TLC

CONSTANTS j1, j2, a, b, c1, c2

TwoJobs == <<j2, j1>>

Shared == j1 :> a @@ j2 :> a
Apart == j1 :> a @@ j2 :> b

\* Two jobs of one repository, and a restart; two calls at once for one job, and a
\* restart; one job, a fault and a restart; and a repository for each job, and a fault.
AllMixes ==
    {[home |-> Shared, calls |-> {<<c1, j1>>, <<c1, j2>>}, faults |-> 0, crashes |-> 1],
     [home |-> Shared, calls |-> {<<c1, j1>>, <<c2, j1>>}, faults |-> 0, crashes |-> 1],
     [home |-> Shared, calls |-> {<<c1, j1>>}, faults |-> 1, crashes |-> 1],
     [home |-> Apart, calls |-> {<<c1, j1>>, <<c1, j2>>}, faults |-> 1, crashes |-> 0]}
=============================================================================
