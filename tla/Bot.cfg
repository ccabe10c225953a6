SPECIFICATION MCSpec
CONSTANTS
    Groups = {g1, g2}
    Refreshers = {r1, r2}
    Retriers = {t1, t2}
    MaxRetries = 2
    MaxLifecycles = 2
    Users = {q1, q2}
    Admins = {q2}
    Invited = {g1}
    Commands = {c1}
    MaxRequests = 2
    MaxChanges = 2
    SameMillisecond = FALSE
    Callers = {c1}
    Codes = {1, 12}
    SiteIds = {i1, i2}
    Types = {live, news}
    FirstId = i1
    FirstType = live
    MaxGroupConcern = 1
    MaxRestarts = 1
    WeiboGroups = {g1, g2}
    FeedSize = 2
    MaxPosts = 2
    MaxTime = 2
    MaxFaults = 1
    MaxSubs = 3
    MaxFailures = 2
INVARIANTS AllTypesOK RequestsKept SubscribedIsPolled NewsOnce
PROPERTIES StartsWhole FirstLoadEnds OnlyNewPosts PostIsPushed LoginSettles
CHECK_DEADLOCK FALSE
