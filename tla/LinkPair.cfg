SPECIFICATION Spec
CONSTANTS
    NoData = NoData
    m = m
    o = o
    addrM = addrM
    addrO = addrO
    Node <- MCNode
    Address <- MCAddress
    Segment <- MCSegment
    Script <- MCScript
    NodeConfig <- MCNodeConfig
    MaxDisturbances = 1
INVARIANTS
    TypeOK
    DeliveredOnceInOrder
    AckedWasDelivered
PROPERTY
    SendCompletes
