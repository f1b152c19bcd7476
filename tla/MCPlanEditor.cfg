SPECIFICATION FairSpec
CONSTANTS
    s1 = s1
    s2 = s2
    p1 = p1
    Stations = {s1, s2}
    Places = {p1}
    NoStation = NoStation
    Minutes = {m1, m2}
    m1 = m1
    m2 = m2
    OnSchedule = {s1}
    Near <- MCNear
    LastUntimed = 1
    MaxPlans = 1
    MaxItems = 3
    MaxRows = 3
    MaxEdits = 1
    MaxCalls = 2
    MaxFaults = 1
CHECK_DEADLOCK FALSE
INVARIANTS
    TypeOK
    CleanMeansSaved
    EditsLostOnlyDuringSave
PROPERTIES
    SavedAgainAndAgain
