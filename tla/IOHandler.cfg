SPECIFICATION Spec
CONSTANTS
    Session = {s1, s2, s3}
    MaxQueue = 4
    MaxOrphans = 2
    MaxStale = 1
INVARIANTS
    TypeOK
    SessionsFollowChannel
    NothingStalls
CHECK_DEADLOCK FALSE
