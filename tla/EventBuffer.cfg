SPECIFICATION BufferSpec
CONSTANTS
    binary = binary
    analog = analog
    counter = counter
    EventType = {binary, analog, counter}
    MaxEvents <- MCMaxEvents
    MaxRecorded = 5
INVARIANTS
    BufferTypeOK
    ListsAgree
    CountersAgree
PROPERTIES
    NoSilentLoss
