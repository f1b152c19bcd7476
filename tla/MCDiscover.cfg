SPECIFICATION Spec
CONSTANTS
    s1 = s1
    s2 = s2
    v1 = v1
    tour = tour
    food = food
    etc = etc
    Stations = {s1, s2}
    NoStation = NoStation
    Listed = {s1}
    Default = s1
    Places = {tour, food, etc}
    NoPlace = NoPlace
    Areas = {v1}
    NoArea = NoArea
    Found <- MCFound
    Kind <- MCKind
    Named = {food}
    Categories = {"FOOD", "CULTURE"}
    InitialCategories = {"FOOD"}
    LegacyOf <- MCLegacyOf
    Addresses <- MCAddresses
    NoAddress = NoAddress
    MaxCalls = 2
    MaxEvents = 2
CHECK_DEADLOCK FALSE
INVARIANTS
    TypeOK
    AnswersFit
PROPERTIES
    LinkIsFollowed
