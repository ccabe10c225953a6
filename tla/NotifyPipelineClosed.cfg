SPECIFICATION Spec
CONSTANTS
    Events = {e1}
    Groups = {g1, g2}
    Workers = {w1}
    LargeNotifyLimit = 2
    EventCap = 1
    NotifyCap = 1
    NotifyParallel = 1
    MaxPanics = 0
INVARIANT NeverCrashes
CHECK_DEADLOCK FALSE
