SPECIFICATION MCSpec
CONSTANTS
    Events = {e1, e2}
    Groups = {g1, g2}
    Workers = {w1, w2}
    LargeNotifyLimit = 2
    EventCap = 1
    NotifyCap = 1
    NotifyParallel = 1
    MaxPanics = 1
    SeriesGroups = {g1, g2}
    Aids <- ThreeAids
    PageSize = 2
    Unsub = FALSE
    SeriesCap = 1
    MaxCommands = 2
    MaxFaults = 1
    StreamGroups = {g1}
    Titles = {"t1", "t2"}
    Dispatchers = {d1}
    OnlyOnlineNotify = TRUE
    TwitchCap = 1
    MaxBroadcasts = 2
    MaxTwitchFaults = 1
INVARIANTS AllTypesOK ClosedBehindWriters StopDelivers ArchivesNewAndOnce
           StreamsToldTrue
   
CHECK_DEADLOCK FALSE
