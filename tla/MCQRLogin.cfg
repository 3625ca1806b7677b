\* Two requests that open a session, two that poll, one that removes.
\* The system rests once the user is deleted; RemovalEnds rules out deadlocks.
SPECIFICATION LiveSpec
CONSTANTS
    p1 = p1
    p2 = p2
    NoPoll = NoPoll
    MaxStarts = 2
    Polls = {p1, p2}
    MaxSessions = 2
    MaxRemovals = 1
    MaxCrashes = 1
INVARIANTS
    OneOpenSession
    RemovalWaitsForPolls
PROPERTIES
    RemovalEnds
CHECK_DEADLOCK FALSE
