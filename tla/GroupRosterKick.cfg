SPECIFICATION RosterSpec
CONSTANTS
    Groups = {g1}
    Users = {u1}
    Handlers = {h1}
    MaxObjects = 4
    MaxEvents = 3
PROPERTY KeepsItsGroups
CHECK_DEADLOCK FALSE
