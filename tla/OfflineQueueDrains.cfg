SPECIFICATION StableSocketSpec
CONSTANTS
    Senders = {s1, s2}
    MaxChunks = 1
    QueueEnabled = TRUE
    MaxQueue = 2
    Expire = 0
    MaxClock = 0
    Handlers = {h1}
    MaxGoroutines = 1
PROPERTY QueueDrains
