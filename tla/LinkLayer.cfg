SPECIFICATION EndpointSpec
CONSTANTS
    NoData = NoData
    local = local
    remote = remote
    seg = seg
    Address <- MCAddress
    Segment <- MCSegment
    SendSet <- MCSendSet
    Configs <- MCConfigs
    MaxPosted = 1
    MaxStaleRsp = 1
    MaxStaleKeepAlive = 1
INVARIANTS
    EndpointTypeOK
    TransmitAccounting
    BuffersIntact
    WaitHasTimer
    SegmentsPresent
    NoLostWork
    OfflineQuiet
