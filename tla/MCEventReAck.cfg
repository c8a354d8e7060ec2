SPECIFICATION FairSpec
CONSTANTS
    e1 = e1
    e2 = e2
    EventIds = {e2}
    MkDates = {11, 12, 13, 21, 22}
    T1Statuses = {1, 2}
    Instants = {1, 2}
    OffsetsOf <- MCSteady
    MaxBoot = 1
    NoDate = NoDate
    Events <- MCExit
    NoEntry = NoEntry
    NoEvent = NoEvent
    OraCodes = {1, 12170}
    Permanent = {}
    NoCode = NoCode
    DupCode = 1
    OkMessage = "empty"
    Profiles = {factory}
    Policy = "hold"
    NoProfile = NoProfile
    NoRow = NoRow
    NoWork = NoWork
    NoBaseline = NoBaseline
    KeepSent = {}
    MaxRows = 2
PROPERTIES
    EventIsAcked
