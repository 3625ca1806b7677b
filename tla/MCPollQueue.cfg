\* Two creators, two schedules, every period; safety and liveness.
SPECIFICATION LiveSpec
CONSTANTS
    Day = 4
    MaxInterval = 4
    MaxWorkWindows = 1
    c1 = c1
    c2 = c2
    NoCreator = NoCreator
    Creators = {c1, c2}
    Schedules <- MCSchedules
    Backoff <- MCBackoff
    MaxJitter = 1
    LongAgo = 3
    MaxLag = 1
    MaxChanges = 2
    MaxFaults = 1
INVARIANTS
    BackoffKept
    ScheduleReachesEveryRow
PROPERTIES
    PolledAgainAndAgain
