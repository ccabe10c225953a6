SPECIFICATION SubsSpec
CONSTANTS
    Callers = {c1}
    Codes = {1, 2, 12}
    SiteIds = {i1}
    Types = {live}
    MaxGroupConcern = 0
    MaxRestarts = 1
PROPERTY OwnGroupOnly
CHECK_DEADLOCK FALSE
