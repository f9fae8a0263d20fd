--------------------------- MODULE MCPublication ---------------------------
(***************************************************************************)
(* The scenarios of the runs of Publication: one incident each.            *)
(***************************************************************************)
EXTENDS Publication

AllDispatches == Dispatches

\* One task, one attempt, nobody disturbs it.
Plain == [crashes |-> 0, faults |-> 0, pushes |-> 0, retried |-> 0, retries |-> 0,
          plans |-> {1}, attempts |-> 1, says |-> Answers, complaints |-> {"f1"},
          patient |-> TRUE]

OneIncident == {[Plain EXCEPT !.crashes = 1], [Plain EXCEPT !.faults = 1],
                [Plain EXCEPT !.pushes = 1]}

OneCrash == {[Plain EXCEPT !.crashes = 1]}
OnePush == {[Plain EXCEPT !.pushes = 1]}
=============================================================================
