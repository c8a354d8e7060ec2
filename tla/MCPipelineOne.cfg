SPECIFICATION Spec
CONSTANTS
    e1 = e1
    k1 = k1
    f1 = f1
    f2 = f2
    EventIds = {e1}
    MkDates = {k1}
    T1Statuses = {1}
    Messages <- MCOne
    Files = {f1,f2}
    Lines <- MCOneLines
    Bad = Bad
    NoFile = NoFile
    NoLine = NoLine
    NoEntry = NoEntry
    ChildPowerMayFail = TRUE
    OraCodes = {1, 12899}
    Permanent = {}
    Unretryable = {1, 12899}
    NoCode = NoCode
    DupCode = 1
    Profiles = {factory}
    NoProfile = NoProfile
    NoRow = NoRow
    NoRecord = NoRecord
    OkMessage = "none"
    KeepSent = {0}
    MaxRows = 2
    PowerMayFail = FALSE
INVARIANTS
    TypeOK
    SentFilesAreInOracle
    SidecarListsTheRest
    AckedIsInOracle
PROPERTIES
    Implements
CONSTRAINTS
    OneMessage
    MessageOrLate
