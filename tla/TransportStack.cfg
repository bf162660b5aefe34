SPECIFICATION Spec
CONSTANTS
    NoData = NoData
    s = s
    r = r
    sender = s
    receiver = r
    addrS = addrS
    addrR = addrR
    Address <- MCAddress
    Segment <- MCSegment
    NodeConfig <- Confirmed
    Lengths <- MCLengths
    MaxTpduPayload = 1
    SeqModulus = 4
    MaxRxFragSize = 3
    MaxFragments = 3
    MaxReconnects = 2
    Modes = {"TCPClient", "CloseNew", "CloseExisting"}
INVARIANTS
    TypeOK
    SendRejectedWhileSending
    CompletionOwed
    FragmentsIntact
