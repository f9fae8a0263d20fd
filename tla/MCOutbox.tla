------------------------------ MODULE MCOutbox ------------------------------
EXTENDS Outbox

AllMixes == {{"started", "pr_opened", "merged"}, {"started", "failed", "cancelled"},
             {"started", "blocked"}, {"started", "task cancelled"},
             {"started", "pr_opened", "failed by CI"}}
=============================================================================
