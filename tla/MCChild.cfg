SPECIFICATION ChildSpec
CONSTANTS
    Files = {1, 2}
    MaxRows = 2
    BadRows <- MCBadRows
    Senders = {auto, request}
    AutoSender = auto
    NoSender = NoSender
    Crops = {full, half}
    FullCrop = full
    CamSizes = {large, small}
    DefaultCamSize = large
    NoCamSize = NoCamSize
    Models = {object_detection, signal_tower}
    DefaultModel = object_detection
    WebThreads = {web}
    TouchThread = touch
    Torn = Torn
    NoJob = NoJob
    MaxRequests = 2
    Buffers = {b1, b2, b3}
    NoBuffer = NoBuffer
    MaxKills = 1
INVARIANTS
    ChildTypeOK
    CountedIsAtBroker
    ResentOnlyAfterFault
    SettingsAreAsAsked
    OffLeavesBuffers
    NoBufferLost
PROPERTIES
    EveryRowArrives
    CameraFollows
    ImagesKeepComing
CHECK_DEADLOCK FALSE
