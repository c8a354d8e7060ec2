SPECIFICATION FairSpec
CONSTANTS
    e1 = e1
    e2 = e2
    k1 = k1
    k2 = k2
    f1 = f1
    EventIds = {e1, e2}
    MkDates = {k1, k2}
    T1Statuses = {1}
    Messages <- MCTwo
    Files = {f1}
    Lines <- MCTwoLines
    Bad = Bad
    NoFile = NoFile
    NoLine = NoLine
    NoEntry = NoEntry
    ChildPowerMayFail = FALSE
    OraCodes = {1,12899}
    Permanent = {}
    Unretryable = {1,12899}
    NoCode = NoCode
    DupCode = 1
    Profiles = {factory}
    NoProfile = NoProfile
    NoRow = NoRow
    NoRecord = NoRecord
    OkMessage = "empty"
    KeepSent = {}
    MaxRows = 2
    PowerMayFail = FALSE
    PauseWalks = 2
PROPERTIES
    EveryRowIsDecided
CONSTRAINTS
    InOrder
    OneMessage
    QuietOffNetwork
    NoLate
    QuietHub
    LinkedWalks
    BothSubscriptions
