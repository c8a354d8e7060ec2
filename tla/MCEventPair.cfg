SPECIFICATION Spec
CONSTANTS
    e1 = e1
    e2 = e2
    EventIds = {e1, e2}
    MkDates = {11, 12, 13, 21, 22}
    T1Statuses = {1, 2}
    Instants = {1, 2}
    OffsetsOf <- MCStepped
    MaxBoot = 1
    NoDate = NoDate
    Events <- MCBoth
    NoEntry = NoEntry
    NoEvent = NoEvent
    OraCodes = {1}
    Permanent = {}
    NoCode = NoCode
    DupCode = 1
    OkMessage = "empty"
    Profiles = {factory}
    Policy = "drop"
    NoProfile = NoProfile
    NoRow = NoRow
    NoWork = NoWork
    NoBaseline = NoBaseline
    KeepSent = {1}
    MaxRows = 1
INVARIANTS
    ConfirmedEvents
PROPERTIES
    WaitingEventsDroppedLast
CONSTRAINTS
    NoneLeftRunning
    SubscriptionKept
    OneMessageEachWay
    EnterMisread
