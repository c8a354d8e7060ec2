SPECIFICATION BridgeSpec
CONSTANTS
    e1 = e1
    e2 = e2
    k1 = k1
    EventIds = {e1, e2}
    MkDates = {k1}
    T1Statuses = {1, 2}
    Messages <- MCAll
    OraCodes = {1, 942}
    Permanent = {942}
    Unretryable = {1}
    NoCode = NoCode
    DupCode = 1
    Profiles = {factory}
    NoProfile = NoProfile
    NoRow = NoRow
    NoRecord = NoRecord
    OkMessage = "empty"
    KeepSent = {0}
    MaxRows = 1
    PowerMayFail = FALSE
PROPERTIES
    AcceptedIsMarkedSent
