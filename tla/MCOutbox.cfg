\* Two crashes, and a save, a post or an answer that fails.
SPECIFICATION FairOutbox
CONSTANTS
    MaxCrashes = 2
    MaxFaults = 1
    Mixes <- AllMixes
    NoEvent = NoEvent
INVARIANTS
    OutboxTypeOK
    NotPostedAgain
PROPERTIES
    FileKeepsEvents
    EveryFactAnnounced
CHECK_DEADLOCK FALSE
