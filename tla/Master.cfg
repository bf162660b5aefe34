SPECIFICATION Spec
CONSTANTS
    m1 = m1
    m2 = m2
    integrity = integrity
    command = command
    restart = restart
    poll = poll
    scan = scan
    Runner = {m1, m2}
    Task = {integrity, command, poll}
    Owner <- MCOwner
    Kind <- MCKind
    Enabled = {integrity, command, poll}
    RetryPeriod = 1
    MaxRetry = 1
    ScanPeriod = 1
    StartTimeout = 1
    Never = 2
    Heeded = {"DEVICE_RESTART"}
    SeqMod = 1
    Responses <- MCResponses
    Unsolicited = {}
    MaxConfirms = 1
    MaxDowns = 1
    MaxStale = 1
INVARIANTS
    TypeOK
    RunnersAgree
    WaitsForSomething
    EachTaskOnce
    WillWakeUp
