SPECIFICATION SafetySpec
CONSTANTS
    Senders = {s1, s2}
    MaxChunks = 2
    QueueEnabled = TRUE
    MaxQueue = 2
    Expire = 0
    MaxClock = 1
    Handlers = {}
    MaxGoroutines = 1
SYMMETRY Symmetry
INVARIANTS TypeOK AtMostOnce HeldIsUnsent
PROPERTIES NoSilentLoss KeepsCreationTime
