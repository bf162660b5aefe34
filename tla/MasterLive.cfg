SPECIFICATION FairSpec
CONSTANTS
    m1 = m1
    m2 = m2
    integrity = integrity
    command = command
    restart = restart
    poll = poll
    scan = scan
    Runner = {m1}
    Task = {integrity, command, scan}
    Owner <- MCOwner
    Kind <- MCKind
    Enabled = {integrity, command, scan}
    RetryPeriod = 1
    MaxRetry = 1
    ScanPeriod = 1
    StartTimeout = 1
    Never = 2
    Heeded = {"DEVICE_RESTART"}
    SeqMod = 2
    Responses <- MCResponses
    Unsolicited <- MCUnsolicited
    MaxConfirms = 1
    MaxDowns = 1
    MaxStale = 0
PROPERTY SubmittedCompletes
