SPECIFICATION FailoverFairSpec
CONSTANTS
    Callers = {c1, c2}
    Cache = 5
    Timeout = 2
    FailThreshold = 2
    RecoverThreshold = 2
    ProbeWorkers = 2
    MaxBacklog = 1
INVARIANTS
    FailoverTypeOK
    AtMostOneProbe
PROPERTIES
    TurnsOnlyAfterStreak
    OutageDetected
    Recovers
