SPECIFICATION BoardSpec
CONSTANTS
    s1 = s1
    s2 = s2
    s3 = s3
    Stations = {s1, s2, s3}
    Minutes = {0, 1}
    NoMinute = NoMinute
    Routes <- MCRoutes
    MaxChanges = 5
    MaxFaults = 2
CHECK_DEADLOCK FALSE
INVARIANTS
    BoardTypeOK
    SettledScheduleFits
PROPERTIES
    LoadingEnds
