----------------------------- MODULE MCTaskRuns -----------------------------
(***************************************************************************)
(* The scenarios of the runs of TaskRuns: small jobs, each with the        *)
(* incidents that matter to it.                                            *)
(***************************************************************************)
EXTENDS TaskRuns

AllDispatches == Dispatches

\* One task, two attempts, nothing goes wrong but what agents answer.
Calm == [crashes |-> 0, faults |-> 0, pushes |-> 0, retried |-> 0, retries |-> 0,
         plans |-> {1}, attempts |-> 2, says |-> Answers, complaints |-> {"f1"},
         patient |-> FALSE]

\* As many attempts as there are, two different complaints, agents that do not outrun the store.
Loop == [Calm EXCEPT !.attempts = MaxAttempts, !.says = @ \ {"failed", "blocked"},
                     !.complaints = {"f1", "f2"}, !.patient = TRUE]

\* Plans of one and two tasks, one attempt, agents that do not outrun the store.
Pair == [Calm EXCEPT !.plans = {1, 2}, !.attempts = 1, !.patient = TRUE]

SafetyScenarios ==
    {[Calm EXCEPT !.crashes = 1],
     [Calm EXCEPT !.faults = 1],
     [Calm EXCEPT !.crashes = 2, !.faults = 1, !.attempts = 1],
     [Calm EXCEPT !.crashes = 1, !.faults = 2, !.attempts = 1, !.patient = TRUE,
                  !.says = {"approved"}],
     [Calm EXCEPT !.retries = 1],
     [Calm EXCEPT !.retries = 1, !.crashes = 1, !.attempts = 1,
                  !.says = @ \ {"blocked", "failed"}],
     [Pair EXCEPT !.crashes = 1, !.says = @ \ {"blocked", "failed"}],
     Pair, Loop}

FairScenarios ==
    {[Calm EXCEPT !.patient = TRUE, !.crashes = 1],
     [Pair EXCEPT !.crashes = 1, !.says = @ \ {"blocked"}],
     Loop}

Adoption == {[Calm EXCEPT !.crashes = 1, !.attempts = 2]}
Supersession == {[Calm EXCEPT !.retries = 1]}
Promotion == {Pair}
=============================================================================
