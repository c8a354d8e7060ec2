SPECIFICATION Spec
CONSTANTS
    e1 = e1
    e2 = e2
    EventIds = {e1}
    MkDates = {11, 12, 13, 21, 22}
    T1Statuses = {1, 2}
    Instants = {1, 2}
    OffsetsOf <- MCStepped
    MaxBoot = 1
    NoDate = NoDate
    Events <- MCEnter
    NoEntry = NoEntry
    NoEvent = NoEvent
    OraCodes = {1, 12170}
    Permanent = {}
    NoCode = NoCode
    DupCode = 1
    OkMessage = "empty"
    Profiles = {factory}
    Policy = "hold"
    NoProfile = NoProfile
    NoRow = NoRow
    NoWork = NoWork
    NoBaseline = NoBaseline
    KeepSent = {}
    MaxRows = 2
INVARIANTS
    OneRowPerEvent
