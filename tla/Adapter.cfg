SPECIFICATION MCSpec
CONSTANTS
    Conns = {k1, k2, k3}
    Requests = {r1, r2}
    Echoes = {e1, e2}
    UniqueEchoes = TRUE
    None = None
    Messages <- AllMessages
    MaxText = 4
    MaxImages = 2
    MarkLength = 2
    Threshold = 1
    MaxRunes = 6
    MaxSegments = 4
    Groups = {g1}
    Users = {u1}
    Handlers = {h1, h2}
    MaxObjects = 4
    MaxEvents = 4
INVARIANTS AllTypesOK NoPanic OneOpenSocket WithinLimits RosterMatches
PROPERTIES  ImplementsRPC ContentKept
CHECK_DEADLOCK FALSE
