SPECIFICATION Spec
CONSTANTS
    binary = binary
    crob = crob
    EventType = {binary}
    MaxEvents <- MCMaxEvents
    SeqMod = 2
    StaticCells = {0, 1, 2}
    OctetCells = {1, 2}
    InitialMask = {"EC1"}
    allowUnsolicited = TRUE
    Item = {crob}
    Requests <- MCRequests
    InitialClass <- MCClass
    MaxRoom = 1
    MaxUpdates = 2
    MaxRequests = 3
    MaxDowns = 1
    MaxStale = 1
INVARIANTS
    TypeOK
    NothingLeftWaiting
    WaitHasTimer
    OneTransmission
    WrittenWasSent
    ExecutedOnce
