\* A poll that has found its session while the user logs out.
SPECIFICATION Spec
CONSTANTS
    p1 = p1
    p2 = p2
    NoPoll = NoPoll
    Polls = {p1, p2}
    MaxStarts = 1
    MaxSessions = 1
    MaxRemovals = 1
    MaxCrashes = 0
PROPERTIES
    RemovedStaysRemoved
CHECK_DEADLOCK FALSE
