SPECIFICATION InviteSpec
CONSTANTS
    Users = {u1, u2}
    Admins = {u2}
    Invited = {g1}
    Commands = {c1}
    MaxRequests = 1
    MaxChanges = 1
    SameMillisecond = FALSE
INVARIANT CommandsAnswer
CHECK_DEADLOCK FALSE
