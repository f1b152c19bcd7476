SPECIFICATION Spec
CONSTANTS
    a = a
    b = b
    c = c
    d = d
    e = e
    line1 = line1
    line2 = line2
    n1 = n1
    n2 = n2
    Stations = {a, b, c, d, e}
    Real <- MCReal
    LoopLine = 3
    Networks <- MCNetworks
    Timetables <- MCTimetables
    Routes <- MCRoutes
    Asked = {0, 2}
    NoTrain = NoTrain
    NoTime = NoTime
    Day = 6
    MaxLeg = 3
    ChangeTime = 1
CHECK_DEADLOCK FALSE
INVARIANTS
    CanBeTravelled
PROPERTIES
    ArrivesFirst
    ShortestWay
