SPECIFICATION FairSpec
CONSTANTS
    MaxLine = 2
    Names = {a}
    Rows = {r1}
    NoName = NoName
    NoRow = NoRow
    Blank = Blank
    MaxVersions = 4
    MaxFaults = 1
CHECK_DEADLOCK FALSE
INVARIANTS
    TypeOK
    TimetablesHaveLines
    NothingRecordedAhead
PROPERTIES
    ImplementsReplica
    CatchesUp
