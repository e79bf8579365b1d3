SPECIFICATION FairSpec
CONSTANTS
    Bots = {b1, b2}
    Commanded = {b1}
    Lists = 2
    Commands = {c1, c2}
    Early = {c1}
    Foreign = f
    MaxStarts = 2
    MaxSyncs = 1
    MaxFaults = 2
INVARIANTS  ListsKept
PROPERTIES CommandsArrive
CHECK_DEADLOCK FALSE
