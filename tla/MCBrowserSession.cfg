SPECIFICATION Spec
CONSTANTS
    t1 = t1
    t2 = t2
    a1 = a1
    Tabs = {t1, t2}
    Accounts = {a1}
    NoAccount = NoAccount
    MaxTokens = 3
    MaxUserCalls = 1
    MaxLate = 1
CHECK_DEADLOCK FALSE
INVARIANTS
    TypeOK
    StaysLoggedOut
    StoredTokenFits
PROPERTIES
    RenewalsKeepSessions
