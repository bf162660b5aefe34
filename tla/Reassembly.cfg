SPECIFICATION Spec
CONSTANTS
    a = a
    b = b
    Source <- MCSource
    MaxTpduPayload = 2
    SeqModulus = 8
    MaxRxFragSize = 5
    Lengths <- MCLengths
    Quota <- MCQuota
    MaxLostFirst = 1
INVARIANTS
    TypeOK
    CompleteIsDelivered
PROPERTY
    ImplementsChannel
