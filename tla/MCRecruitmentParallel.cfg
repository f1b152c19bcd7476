SPECIFICATION Spec
CONSTANTS
    Users = {u1, u2}
    Workers = {w1, w2, w3}
    NoUser = NoUser
    MaxCapacity = 1
    MaxDay = 2
    SerialOrganizer = FALSE
SYMMETRY Symmetry
CHECK_DEADLOCK FALSE
INVARIANTS
    TypeOK
    RowsConsistent
