\* Three calls at a time on one file.
SPECIFICATION FairTools
CONSTANTS
    r1 = r1
    r2 = r2
    r3 = r3
    Requests <- Three
    Mixes <- AllMixes
    Paths = {p1}
    Entries = {e1, e2}
    NoPath = NoPath
    NoEntry = NoEntry
    Contents = {"c1", "c2"}
    Absent = "absent"
    Torn = "torn"
    NoToken = "no token"
INVARIANTS
    ToolTypeOK
    Exclusion
    RefsAreUsers
PROPERTIES
    ImplementsAtomicFiles
    EveryCallEnds
