SPECIFICATION Spec
CONSTANTS
    Workers = {w1, w2, w3}
    MaxTokens = 4
    SerialSessions = {1, 3}
SYMMETRY Symmetry
CHECK_DEADLOCK FALSE
INVARIANTS
    TypeOK
    IdleSessionsEnd
    OneTokenPerSession
    NoTokenOutlivesAccount
