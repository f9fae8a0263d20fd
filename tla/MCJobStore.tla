---------------------------- MODULE MCJobStore ----------------------------
EXTENDS JobStore, TLC

CONSTANTS r1, r2

TwoRuns == {r1, r2}

\* Bound: one task through two attempts and two run IDs, with commits of its branch
\* told apart, and no failing CI; or up to two tasks of one attempt each, with a CI
\* failure repeated up to three times.
Deep ==
    /\ planned \in {0, 1} /\ \A p \in Prints : failures[p] = 0
    /\ job.integrationSHA \in {NoSHA, 1} /\ ci.head \in {NoSHA, 1}

RunsOf(t) == {t.writerRun, t.reviewerRun}

Wide ==
    /\ job.integrationSHA \in {NoSHA, 1} /\ ci.head \in {NoSHA, 1}
    /\ job.holisticSHA \in {NoSHA, 1}
    /\ job.holisticRun \in {NoRun, r1}
    /\ \A k \in PlanKeys : /\ task[k].writerAttempts <= 1
                           /\ {task[k].base, task[k].commit} \subseteq {NoSHA, 1}
                           /\ RunsOf(task[k]) \subseteq {NoRun, r1}
                           /\ \A i \in DOMAIN task[k].history : task[k].history[i].run = r1

MCSpec == Init /\ [][OrderlyNext /\ (Deep \/ Wide)']_storeVars
============================================================================
