SPECIFICATION Spec
CONSTANTS
    Users = {u1, u2, u3}
    Workers = {w1, w2, w3}
    NoUser = NoUser
    MaxCapacity = 2
    MaxDay = 1
    SerialOrganizer = TRUE
SYMMETRY Symmetry
CHECK_DEADLOCK FALSE
INVARIANTS
    WithinCapacity
    CountsStayGood
PROPERTIES
    FillingCloses
    DecisionStands
    ImplementsSeatBoard
