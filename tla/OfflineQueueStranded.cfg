SPECIFICATION FairSpec
CONSTANTS
    Senders = {s1}
    MaxChunks = 1
    QueueEnabled = TRUE
    MaxQueue = 2
    Expire = 0
    MaxClock = 0
    Handlers = {}
    MaxGoroutines = 1
PROPERTY QueueDrains
