SPECIFICATION Spec
CONSTANTS
    NoData = NoData
    s = s
    r = r
    sender = s
    receiver = r
    addrS = addrS
    addrR = addrR
    Address <- MCAddress
    Segment <- MCSegment
    NodeConfig <- Confirmed
    Lengths <- MCLengths
    MaxTpduPayload = 1
    SeqModulus = 8
    MaxRxFragSize = 3
    MaxFragments = 2
    MaxReconnects = 1
    Modes = {"TCPClient"}
INVARIANTS
    FragmentsAlwaysIntact
