SPECIFICATION DevicesSpec
CONSTANTS
    Parts = {"view"}
    EnterTime = 3
    ExitTime = 4
    LostReads = 3
    MaxStep = 2
    Cells = {x1, x2}
    NoCell = NoCell
    Window = 5
    Regap = 2
    Debounce = 3
    CodeTables <- MCCodeTables
    NoCode = NoCode
    Timeout = 2
    Interval = 1
    Keepalive = 1
    RingSize = 2
    MaxTime = 3
    Hubs = {a, b}
    Home = a
    NoHub = NoHub
    Kids = {k1}
    Takers = {t1}
    NoJob = NoJob
    MaxJobs = 2
    Devs = {d1, d2}
    NoDev = NoDev
    Ips = {i1, i2}
    NoIp = NoIp
    Names = {n1, n2}
    First = n1
    FixedIp = NoIp
    Alias <- MCAlias
    Gatherers = {g1, g2}
    Idle = Idle
    MaxMoves = 1
    MaxGathers = 2
    Addresses = {good, bad}
    Reachable = {good}
    Dhcp = Dhcp
    Changes = {1}
    NoTimer = 0
INVARIANTS
    RegisteredChildIsSpared
CHECK_DEADLOCK FALSE
