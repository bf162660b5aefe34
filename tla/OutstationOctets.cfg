SPECIFICATION Spec
CONSTANTS
    binary = binary
    crob = crob
    EventType = {binary}
    MaxEvents <- MCMaxEvents
    SeqMod = 2
    StaticCells = {0, 1, 2}
    OctetCells = {1, 2}
    InitialMask = {"EC1"}
    allowUnsolicited = TRUE
    Item = {crob}
    Requests <- MCRequests
    InitialClass <- MCClass
    MaxRoom = 1
    MaxUpdates = 1
    MaxRequests = 2
    MaxDowns = 1
    MaxStale = 0
INVARIANT OnlyAskedIsSelected
