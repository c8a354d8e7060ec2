SPECIFICATION FairSpec
CONSTANTS
    e1 = e1
    e2 = e2
    EventIds = {e1}
    MkDates = {11, 12, 13, 21, 22}
    T1Statuses = {1, 2}
    Instants = {1, 2}
    OffsetsOf <- MCTwoBoots
    MaxBoot = 2
    NoDate = NoDate
    Events <- MCEnter
    NoEntry = NoEntry
    NoEvent = NoEvent
    OraCodes = {1, 942, 12170}
    Permanent = {942}
    NoCode = NoCode
    DupCode = 1
    OkMessage = "empty"
    Profiles = {factory}
    Policy = "use_last"
    NoProfile = NoProfile
    NoRow = NoRow
    NoWork = NoWork
    NoBaseline = NoBaseline
    KeepSent = {0}
    MaxRows = 1
INVARIANTS
    EventTypeOK
PROPERTIES
    SentEventStays
    ImplementsOutcome
    EventReachesOracle
CONSTRAINTS
    MessageOrLate
