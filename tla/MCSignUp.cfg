SPECIFICATION Spec
CONSTANTS
    Pages = {p1, p2}
    Emails = {e1}
    NoEmail = NoEmail
    MaxAttempts = 2
    MaxCodes = 2
    MaxTurns = 2
    MaxFaults = 1
SYMMETRY MCSymmetry
CHECK_DEADLOCK FALSE
INVARIANTS
    TypeOK
    ReadyToConfirm
