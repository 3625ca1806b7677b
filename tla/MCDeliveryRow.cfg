\* One row through every outcome: two changes of configuration, two faults,
\* two windows that overlap across midnight.
SPECIFICATION Spec
CONSTANTS
    Day = 5
    MaxInterval = 1
    MaxWorkWindows = 1
    u1 = u1
    NoUser = NoUser
    Users = {u1}
    MaxDeliveries = 1
    MaxAttempts = 3
    RetryDelay <- MCRetryDelay
    LongAgo = 2
    MaxLag = 1
    MaxChanges = 2
    MaxFaults = 2
    Windows <- MCWindows
    Prompt = FALSE
INVARIANTS
    TypeOK
    WorkerItemIsCurrent
    CancelledIsNotPushed
    NoDuplicatePush
    PushesAreBounded
    DeferralIsJustified
    NoPushInsideWindow
PROPERTIES
    BackoffNeverShortened
    ImplementsNotification
