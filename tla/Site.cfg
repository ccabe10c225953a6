SPECIFICATION MCSpec
CONSTANTS
    Ids = {i1, i2, i3}
    None = None
    Groups = {g1}
    Titles = {"t1", "t2"}
    Placeholder = "t2"
    Dispatchers = {d1}
    OnlyOnlineNotify = FALSE
    Unsub = TRUE
    AddOverlaps = FALSE
    EventCap = 1
    MaxBroadcasts = 2
    MaxFaults = 1
    Admins = {a1}
    QueueEnabled = FALSE
    MaxOutages = 1
    MaxAlertFaults = 1
    NewsGroups = {g1}
    FeedSize = 2
    MaxCards = 1
    MaxPosts = 2
    MaxDynamicFaults = 1
INVARIANTS AllTypesOK FairTurns   
PROPERTIES
    QueueLives  OutagesAreReported DynamicsArePushed
CHECK_DEADLOCK FALSE
