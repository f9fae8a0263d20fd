---------------------------- MODULE OutboxProofs ----------------------------
(***************************************************************************)
(* What the outbox never forgets and never posts again, for any number of  *)
(* crashes and faults.  The invariant relates memory and file: a running   *)
(* process knows at least what its file says, and what is in the batch is  *)
(* still due.                                                              *)
(***************************************************************************)
EXTENDS Outbox, TLAPS

Typed ==
    /\ events \in [Events -> Statuses]
    /\ file \in [Events -> Statuses]
    /\ record \subseteq DOMAIN Rank

\* While the process runs, its memory is never behind its file.
NotBehind ==
    up => \A e \in Events : /\ file[e] # "absent" => events[e] # "absent"
                            /\ file[e] = "delivered" => events[e] = "delivered"

BatchDue ==
    /\ batch \subseteq {e \in Events : events[e] = "due"}
    /\ posting \in batch \union {NoEvent}
    /\ ~up => batch = {}

OInv == Typed /\ NotBehind /\ BatchDue

\* The file in FileKeepsEvents.
Keeps == \A e \in Events : /\ file[e] # "absent" => file'[e] # "absent"
                           /\ file[e] = "delivered" => file'[e] = "delivered"

----------------------------------------------------------------------------

LEMMA InitInv == OutboxInit => OInv
BY DEF OutboxInit, OInv, Typed, NotBehind, BatchDue, Events, Statuses

\* A step that changes neither the store nor the delivery.
LEMMA ElsewhereInv ==
  ASSUME OInv, UNCHANGED <<events, file, batch, posting, up>>, record' \subseteq DOMAIN Rank
  PROVE  OInv' /\ Keeps
BY DEF OInv, Typed, NotBehind, BatchDue, Keeps

LEMMA SavedInv ==
  ASSUME OInv, up, up', Saved, events' \in [Events -> Statuses],
         \A e \in Events : /\ events[e] # "absent" => events'[e] # "absent"
                           /\ events[e] = "delivered" => events'[e] = "delivered"
  PROVE  NotBehind' /\ file' \in [Events -> Statuses] /\ Keeps
BY DEF OInv, Typed, NotBehind, Keeps, Saved

LEMMA NotifyInv ==
  ASSUME OInv, NEW e \in Events, Notify(e)
  PROVE  OInv' /\ Keeps
<1>1. /\ up /\ up' /\ events' = Enqueued({e})
      /\ UNCHANGED <<record, batch, posting, up>>
  BY DEF Notify, delivery
<1>2. /\ events' \in [Events -> Statuses]
      /\ \A f \in Events : events[f] # "absent" => events'[f] = events[f]
  BY <1>1 DEF Enqueued, OInv, Typed, Statuses
<1>3. BatchDue'
  BY <1>1, <1>2 DEF OInv, BatchDue
<1>4. CASE events' = events
  BY <1>1, <1>3, <1>4 DEF Notify, OInv, Typed, NotBehind, Keeps
<1>5. CASE events' # events
  <2>1. Saved
    BY <1>5 DEF Notify
  <2> QED
    BY <1>1, <1>2, <1>3, <2>1, SavedInv DEF OInv, Typed
<1> QED
  BY <1>4, <1>5

LEMMA ElapseInv ==
  ASSUME OInv, NEW e \in Events, Elapse(e)
  PROVE  OInv' /\ Keeps
<1>1. /\ up /\ events[e] = "waiting"
      /\ events' = [events EXCEPT ![e] = "due"]
      /\ file' = [file EXCEPT ![e] = IF @ = "waiting" THEN "due" ELSE @]
      /\ UNCHANGED <<record, batch, posting, up>>
  BY DEF Elapse, facts, delivery
<1>2. Typed' /\ NotBehind' /\ Keeps
  BY <1>1 DEF OInv, Typed, NotBehind, Keeps, Statuses
<1>3. BatchDue'
  BY <1>1 DEF OInv, BatchDue, Typed
<1> QED
  BY <1>2, <1>3 DEF OInv

LEMMA DeliverInv ==
  ASSUME OInv, Deliver
  PROVE  OInv' /\ Keeps
<1>1. CASE Flush
  BY <1>1 DEF Flush, facts, OInv, Typed, NotBehind, BatchDue, Keeps, Due
<1>2. CASE Post
  BY <1>2 DEF Post, facts, OInv, Typed, NotBehind, BatchDue, Keeps
<1>3. CASE Answer
  BY <1>3, ElsewhereInv DEF Answer, facts, OInv, Typed
<1>4. CASE Record
  <2>1. /\ up /\ up' /\ Saved /\ UNCHANGED record
        /\ batch' = batch \ {posting} /\ posting' = NoEvent
        /\ events' = [events EXCEPT ![posting] =
                        IF answer = "accepted" THEN "delivered" ELSE "waiting"]
    BY <1>4 DEF Record, Recorded, facts
  <2>2. CASE posting = NoEvent /\ NoEvent \notin Events
    <3>1. events' = events
      BY <2>1, <2>2 DEF OInv, Typed
    <3> QED
      BY <2>1, <2>2, <3>1, SavedInv DEF OInv, Typed, BatchDue
  <2>3. CASE posting \in Events
    <3>1. /\ events' \in [Events -> Statuses]
          /\ events'[posting] # "absent"
          /\ \A f \in Events \ {posting} : events'[f] = events[f]
      BY <2>1, <2>3 DEF OInv, Typed, Statuses
    <3>2. posting \in batch /\ events[posting] = "due"
      BY <2>3, OutboxAssumption DEF OInv, BatchDue
    <3>3. \A e \in Events : /\ events[e] # "absent" => events'[e] # "absent"
                            /\ events[e] = "delivered" => events'[e] = "delivered"
      BY <3>1, <3>2
    <3>4. NotBehind' /\ file' \in [Events -> Statuses] /\ Keeps
      BY <2>1, <3>1, <3>3, SavedInv
    <3>5. BatchDue'
      BY <2>1, <3>1 DEF OInv, BatchDue
    <3> QED
      BY <2>1, <3>1, <3>4, <3>5 DEF OInv, Typed
  <2> QED
    BY <2>2, <2>3 DEF OInv, BatchDue
<1> QED
  BY <1>1, <1>2, <1>3, <1>4 DEF Deliver

LEMMA StartInv ==
  ASSUME OInv, Start
  PROVE  OInv' /\ Keeps
<1>1. /\ ~up /\ UNCHANGED <<record, batch, posting>>
      /\ \E more, es \in SUBSET Missing :
            es \subseteq more /\ events' = FileWith(more) /\ file' = FileWith(es)
  <2>1. CASE events' = FileWith(Missing) /\ file' = FileWith(Missing)
    BY <2>1 DEF Start, delivery
  <2>2. CASE \E last \in Missing :
               LET before == {e \in Missing : Rank[e] < Rank[last]}
               IN events' = FileWith(before \union {last}) /\ file' = FileWith(before)
    <3>1. PICK last \in Missing :
            LET before == {e \in Missing : Rank[e] < Rank[last]}
            IN events' = FileWith(before \union {last}) /\ file' = FileWith(before)
      BY <2>2
    <3> DEFINE before == {e \in Missing : Rank[e] < Rank[last]}
    <3>2. /\ before \in SUBSET Missing /\ before \union {last} \in SUBSET Missing
          /\ before \subseteq before \union {last}
          /\ events' = FileWith(before \union {last}) /\ file' = FileWith(before)
      BY <3>1
    <3> HIDE DEF before
    <3> QED
      BY <3>2 DEF Start, delivery
  <2> QED
    BY <2>1, <2>2 DEF Start
<1>2. PICK more \in SUBSET Missing, es \in SUBSET Missing :
            es \subseteq more /\ events' = FileWith(more) /\ file' = FileWith(es)
  BY <1>1
<1>3. Typed' /\ NotBehind' /\ Keeps
  BY <1>1, <1>2 DEF OInv, Typed, NotBehind, Keeps, FileWith, Missing, Statuses, Events
<1>4. BatchDue'
  BY <1>1 DEF OInv, BatchDue
<1> QED
  BY <1>3, <1>4 DEF OInv

LEMMA StepInv ==
  ASSUME OInv, [OutboxNext]_outboxVars
  PROVE  OInv' /\ Keeps
<1>1. CASE Transition \/ FailedByCI \/ StartTaskWork
  <2>1. UNCHANGED <<events, file, batch, posting, up>>
    BY <1>1 DEF Transition, Fact, FailedByCI, StartTaskWork, delivery
  <2>2. record' \subseteq DOMAIN Rank
    BY <1>1 DEF Transition, Fact, FailedByCI, StartTaskWork, OInv, Typed, Rank
  <2> QED
    BY <2>1, <2>2, ElsewhereInv
<1>2. CASE \E e \in Events : Notify(e) \/ Elapse(e)
  BY <1>2, NotifyInv, ElapseInv
<1>3. CASE Deliver
  BY <1>3, DeliverInv
<1>4. CASE Crash
  BY <1>4 DEF Crash, OInv, Typed, NotBehind, BatchDue, Keeps, Statuses
<1>5. CASE Start
  BY <1>5, StartInv
<1>6. CASE UNCHANGED outboxVars
  BY <1>6, ElsewhereInv DEF outboxVars, OInv, Typed
<1> QED
  BY <1>1, <1>2, <1>3, <1>4, <1>5, <1>6 DEF OutboxNext

\* No event is posted whose delivery is in the file (outbox.go:100-124, 231-243),
\* after any number of crashes and failed saves.
THEOREM NothingPostedAgain == OutboxSpec => []NotPostedAgain
<1>1. OInv /\ [OutboxNext]_outboxVars => OInv'
  BY StepInv
<1>2. OInv => NotPostedAgain
  BY DEF OInv, NotBehind, BatchDue, NotPostedAgain, Typed
<1> QED
  BY InitInv, <1>1, <1>2, PTL DEF OutboxSpec

\* The file never loses an event or a delivery (outbox.go:82-98, 278-325).
THEOREM FileNeverForgets == OutboxSpec => FileKeepsEvents
<1>1. OInv /\ [OutboxNext]_outboxVars => OInv' /\ [Keeps]_outboxVars
  BY StepInv
<1> QED
  BY InitInv, <1>1, PTL DEF OutboxSpec, FileKeepsEvents, Keeps

----------------------------------------------------------------------------
(* Types of the rest of the state. *)

\* Only FailedByCI leaves something untold, and no step takes a failure back.
Others ==
    /\ owed \subseteq Events /\ received \subseteq Events
    /\ untold \subseteq record \intersect {"failed"}
    /\ answer \in {"none", "accepted", "error"} /\ (posting = NoEvent => answer = "none")
    /\ up \in BOOLEAN /\ restored \in BOOLEAN
    /\ crashes \in 0..MaxCrashes /\ faults \in 0..MaxFaults
    /\ mix \in Mixes

LEMMA SavedFaults ==
  ASSUME faults \in 0..MaxFaults, Saved \/ NoFault \/ Fault
  PROVE  faults' \in 0..MaxFaults
BY OutboxAssumption DEF Saved, NoFault, Fault

LEMMA OthersStep ==
  ASSUME OInv, Others, [OutboxNext]_outboxVars
  PROVE  Others'
<1>1. CASE Transition
  <2>1. PICK fact \in DOMAIN Rank, e \in Events : Fact(fact, e)
    BY <1>1 DEF Transition, Events, Rank
  <2> QED
    BY <2>1 DEF Fact, delivery, Others
<1>2. CASE FailedByCI
  BY <1>2 DEF FailedByCI, delivery, Others
<1>3. CASE StartTaskWork
  BY <1>3 DEF StartTaskWork, delivery, Others
<1>4. CASE \E e \in Events : Notify(e)
  <2>1. Saved \/ NoFault
    BY <1>4 DEF Notify, NoFault
  <2> QED
    BY <1>4, <2>1, SavedFaults DEF Notify, delivery, Others
<1>5. CASE \E e \in Events : Elapse(e)
  BY <1>5 DEF Elapse, facts, delivery, Others
<1>6. CASE Flush \/ Post
  BY <1>6, OutboxAssumption DEF Flush, Post, facts, Others, OInv, BatchDue
<1>7. CASE Answer
  <2>1. posting \in Events
    BY <1>7 DEF Answer, OInv, BatchDue
  <2> QED
    BY <1>7, <2>1, SavedFaults DEF Answer, facts, Others
<1>8. CASE Record
  BY <1>8, SavedFaults DEF Record, Recorded, facts, Others
<1>9. CASE Crash
  <2>1. crashes' \in 0..MaxCrashes
    BY <1>9, OutboxAssumption DEF Crash, Others
  <2> QED
    BY <1>9, <2>1, Zenon DEF Crash, Others
<1>10. CASE Start
  <2>1. NoFault \/ Fault
    BY <1>10 DEF Start
  <2>2. untold' \in {{}, untold} /\ restored' \in BOOLEAN
    BY <1>10 DEF Start
  <2> QED
    BY <1>10, <2>1, <2>2, SavedFaults DEF Start, delivery, Others
<1>11. CASE UNCHANGED outboxVars
  BY <1>11 DEF outboxVars, Others
<1> QED
  BY <1>1, <1>2, <1>3, <1>4, <1>5, <1>6, <1>7, <1>8, <1>9, <1>10, <1>11
     DEF OutboxNext, Deliver

\* Every part of the outbox has its type; what is untold is in the record, although
\* tasks go back to work, and what is in the batch is recorded (outbox.go:82-124).
THEOREM OutboxTypeCorrect == OutboxSpec => []OutboxTypeOK
<1>1. OutboxInit => Others
  BY OutboxAssumption DEF OutboxInit, Others
<1>2. OInv /\ Others /\ [OutboxNext]_outboxVars => OInv' /\ Others'
  BY StepInv, OthersStep
<1>3. OInv /\ Others => OutboxTypeOK
  BY DEF OInv, Typed, BatchDue, Others, OutboxTypeOK
<1> QED
  BY InitInv, <1>1, <1>2, <1>3, PTL DEF OutboxSpec
=============================================================================
