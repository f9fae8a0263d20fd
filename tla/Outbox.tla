------------------------------- MODULE Outbox -------------------------------
(***************************************************************************)
(* The notification outbox: internal/outbox/outbox.go, fed by the job      *)
(* transitions whose handlers call Notify, and restored from the job       *)
(* record by Reconcile at the start (cmd/opendev/main.go).  One job with   *)
(* one task; the time of an event is only whether it may be tried again.   *)
(***************************************************************************)
EXTENDS Naturals

CONSTANTS
    MaxCrashes,  \* bound
    MaxFaults,   \* bound: saves that fail, posts refused and answers lost
    Mixes,       \* bound: the transitions a job makes after it is started
    NoEvent

VARIABLES
    record,      \* what the job record says, as the events Reconcile makes of it
    owed,        \* the events that a handler has yet to tell Notify of
    untold,      \* what the record says that nobody tells Notify of
    events,      \* Store.events
    file,        \* notification-outbox.json
    batch,       \* the rest of the events that flush got from due
    posting,     \* the event that is being delivered
    answer,      \* what deliver returned for it
    received,    \* what the webhook has got
    up,          \* the process runs
    restored,    \* its Reconcile got to the end
    crashes, faults,
    mix          \* which of Mixes they are

outboxVars == <<record, owed, untold, events, file, batch, posting, answer, received,
                up, restored, crashes, faults, mix>>

facts == <<record, owed, untold, mix>>
delivery == <<batch, posting, answer, received>>

\* The order in which Reconcile restores the events of a job; it restores no other.
Rank == [started |-> 1, pr_opened |-> 2, merged |-> 3, failed |-> 4, blocked |-> 5]

Events == DOMAIN Rank \union {"cancelled", "task cancelled"}

ASSUME OutboxAssumption ==
    MaxCrashes \in Nat /\ MaxFaults \in Nat /\ NoEvent \notin Events

\* Made by outcome handlers, which run again until they have run to the end.
Redelivered == {"failed", "blocked", "cancelled", "task cancelled"}

Statuses == {"absent", "due", "waiting", "delivered"}

OutboxTypeOK ==
    /\ record \subseteq DOMAIN Rank /\ owed \subseteq Events /\ untold \subseteq record
    /\ events \in [Events -> Statuses] /\ file \in [Events -> Statuses]
    /\ batch \subseteq {e \in Events : events[e] # "absent"}
    /\ posting \in batch \union {NoEvent}
    /\ answer \in {"none", "accepted", "error"} /\ (posting = NoEvent => answer = "none")
    /\ received \subseteq Events
    /\ up \in BOOLEAN /\ restored \in BOOLEAN
    /\ crashes \in 0..MaxCrashes /\ faults \in 0..MaxFaults
    /\ mix \in Mixes

OutboxInit ==
    /\ record = {} /\ untold = {} /\ owed = {} /\ received = {}
    /\ events = [e \in Events |-> "absent"] /\ file = [e \in Events |-> "absent"]
    /\ batch = {} /\ posting = NoEvent /\ answer = "none"
    /\ up = TRUE /\ restored = TRUE
    /\ crashes = 0 /\ faults = 0
    /\ mix \in Mixes

Fault == faults < MaxFaults /\ faults' = faults + 1
NoFault == UNCHANGED faults

----------------------------------------------------------------------------
(* Job transitions, each of which is followed by a call of Notify. *)

Fact(fact, e) ==
    /\ up /\ e \in mix
    /\ record' = record \union {fact}
    /\ owed' = owed \union {e}
    /\ UNCHANGED <<untold, mix, events, file, delivery, up, restored, crashes, faults>>

\* The job is planned; gets its pull request; is merged; fails, with its run or with
\* the cancellation of its run; its task is blocked for the same reasons.
Transition ==
    \/ record = {} /\ Fact("started", "started")
    \/ /\ "started" \in record
       /\ \/ "failed" \notin record /\ Fact("pr_opened", "pr_opened")
          \/ "pr_opened" \in record /\ Fact("merged", "merged")
          \/ "failed" \notin record /\ \E e \in {"failed", "cancelled"} : Fact("failed", e)
          \/ "blocked" \notin record /\ \E e \in {"blocked", "task cancelled"} : Fact("blocked", e)

\* The CI of the pull request could not run, or failed the same way three times: the
\* job fails, and neither the CI poller nor anybody else calls Notify.
FailedByCI ==
    /\ up /\ "failed by CI" \in mix
    /\ "pr_opened" \in record /\ "failed" \notin record
    /\ record' = record \union {"failed"}
    /\ untold' = untold \union {"failed"}
    /\ UNCHANGED <<owed, mix, events, file, delivery, up, restored, crashes, faults>>

\* The run that blocked the task ended before its start was recorded; StartTaskWork
\* records it now and puts the task back to work.
StartTaskWork ==
    /\ up /\ "blocked" \in record
    /\ record' = record \ {"blocked"}
    /\ UNCHANGED <<owed, untold, mix, events, file, delivery, up, restored, crashes, faults>>

----------------------------------------------------------------------------
(* The store. *)

\* saveLocked, after the change in memory.
Saved ==
    \/ file' = events' /\ NoFault
    \/ UNCHANGED file /\ Fault

\* Broken variant: the event is recorded anew.
EnqueuedAgain(es) == [e \in Events |-> IF e \in es THEN "due" ELSE events[e]]

\* Enqueue, of each of es: an event that is there already stays as it is.
Enqueued(es) ==
    [e \in Events |-> IF e \in es /\ events[e] = "absent" THEN "due" ELSE events[e]]

Notify(e) ==
    /\ up /\ e \in owed
    /\ owed' = owed \ {e}
    /\ events' = Enqueued({e})
    /\ IF events' = events THEN UNCHANGED <<file, faults>> ELSE Saved
    /\ UNCHANGED <<record, untold, mix, delivery, up, restored, crashes>>

\* The delay of failed is over.
Elapse(e) ==
    /\ up /\ events[e] = "waiting"
    /\ events' = [events EXCEPT ![e] = "due"]
    /\ file' = [file EXCEPT ![e] = IF @ = "waiting" THEN "due" ELSE @]
    /\ UNCHANGED <<facts, delivery, up, restored, crashes, faults>>

----------------------------------------------------------------------------
(* The deliverer. *)

\* Broken variant: whatever is not to be retried later.
DueAgain == {e \in Events : events[e] \in {"due", "delivered"}}

Due == {e \in Events : events[e] = "due"}

Flush ==
    /\ up /\ batch = {} /\ Due # {}
    /\ batch' = Due
    /\ UNCHANGED <<facts, events, file, posting, answer, received, up, restored, crashes, faults>>

\* One after the other; that the oldest comes first matters to no property.
Post ==
    /\ up /\ posting = NoEvent
    /\ posting' \in batch
    /\ UNCHANGED <<facts, events, file, batch, answer, received, up, restored, crashes, faults>>

\* The webhook gets the event and says so, gets it and its answer is lost, or does
\* not get it.
Answer ==
    /\ up /\ posting # NoEvent /\ answer = "none"
    /\ \/ answer' = "accepted" /\ received' = received \union {posting} /\ NoFault
       \/ answer' = "error" /\ received' \in {received, received \union {posting}} /\ Fault
    /\ UNCHANGED <<facts, events, file, batch, posting, up, restored, crashes>>

\* Broken variant: the event leaves the batch before it is done with.
RecordedEarly ==
    /\ events' = [events EXCEPT ![posting] = IF answer = "accepted" THEN "delivered" ELSE "waiting"]
    /\ batch' = batch \ {posting} /\ UNCHANGED posting /\ answer' = "none"

\* delivered, or failed.
Recorded ==
    /\ events' = [events EXCEPT ![posting] = IF answer = "accepted" THEN "delivered" ELSE "waiting"]
    /\ batch' = batch \ {posting} /\ posting' = NoEvent /\ answer' = "none"

Record ==
    /\ up /\ answer # "none"
    /\ Recorded
    /\ Saved
    /\ UNCHANGED <<facts, received, up, restored, crashes>>

Deliver == Flush \/ Post \/ Answer \/ Record

----------------------------------------------------------------------------
(* The process. *)

\* What the handlers of tools and of the CI poller owed is lost with them.
Crash ==
    /\ up /\ crashes < MaxCrashes
    /\ crashes' = crashes + 1
    /\ up' = FALSE /\ restored' = FALSE
    /\ owed' = owed \intersect Redelivered
    /\ events' = [e \in Events |-> "absent"]
    /\ batch' = {} /\ posting' = NoEvent /\ answer' = "none"
    /\ UNCHANGED <<record, untold, mix, file, received, faults>>

\* Broken variant: the merge is not looked at.
MissingUnmerged == {e \in record : file[e] = "absent" /\ e # "merged"}

\* The events of the job record that are not in the file.
Missing == {e \in record : file[e] = "absent"}

FileWith(es) == [e \in Events |-> IF e \in es THEN "due" ELSE file[e]]

\* load, then Reconcile, which ends at the first save that fails: that event is in
\* memory only, and those after it nowhere.
Start ==
    /\ ~up /\ up' = TRUE
    /\ \/ /\ events' = FileWith(Missing) /\ file' = FileWith(Missing)
          /\ restored' = TRUE /\ untold' = {} /\ NoFault
       \/ \E last \in Missing :
             LET before == {e \in Missing : Rank[e] < Rank[last]}
             IN /\ events' = FileWith(before \union {last}) /\ file' = FileWith(before)
                /\ restored' = FALSE /\ UNCHANGED untold /\ Fault
    /\ UNCHANGED <<record, owed, mix, delivery, crashes>>

OutboxNext ==
    \/ Transition \/ FailedByCI \/ StartTaskWork
    \/ \E e \in Events : Notify(e) \/ Elapse(e)
    \/ Deliver
    \/ Crash \/ Start

OutboxSpec == OutboxInit /\ [][OutboxNext]_outboxVars

\* Handlers and the deliverer's ticker go on, and a stopped process is started again.
FairOutbox ==
    /\ OutboxSpec
    /\ \A e \in Events : WF_outboxVars(Notify(e)) /\ WF_outboxVars(Elapse(e))
    /\ WF_outboxVars(Deliver) /\ WF_outboxVars(Start)

----------------------------------------------------------------------------
\* An event is never posted again once its delivery is in the file, whatever
\* transitions are made, handlers run and processes started again: the webhook sees
\* duplicates only of what a crash, a lost answer or a failed save left in doubt.
NotPostedAgain == posting # NoEvent => file[posting] # "delivered"

\* No event and no delivery that is in the file is forgotten, also by a process that
\* starts from a file its predecessor could not bring up to date.
FileKeepsEvents ==
    [][\A e \in Events : /\ file[e] # "absent" => file'[e] # "absent"
                         /\ file[e] = "delivered" => file'[e] = "delivered"]_outboxVars

\* A failed job is told of as failed or as cancelled, a blocked task likewise.
ToldOf(e) ==
    \/ e \in received
    \/ e = "failed" /\ "cancelled" \in received
    \/ e = "blocked" /\ "task cancelled" \in received

\* What the record says is told of in the end, also when the process stops between a
\* transition and its Notify, unless it is taken back (a blocked task works again),
\* the last Reconcile was cut short by a failed save, or nobody has called Notify (a
\* failure of the CI) and the process has not been started since; and what is in the
\* file is told of in any case.
EveryFactAnnounced ==
    \A e \in Events :
        /\ e \in record ~> (ToldOf(e) \/ e \notin record \ untold \/ ~restored)
        /\ file[e] # "absent" ~> e \in received
=============================================================================
