SPECIFICATION Spec
CONSTANTS
    Users = {u1, u2}
    Workers = {w1, w2}
    NoUser = NoUser
    MaxCapacity = 2
    MaxDay = 1
    SerialOrganizer = FALSE
SYMMETRY Symmetry
CHECK_DEADLOCK FALSE
INVARIANT
    WithinCapacity
