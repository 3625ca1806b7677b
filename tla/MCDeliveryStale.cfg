\* A change of configuration while the worker decides.
SPECIFICATION Spec
CONSTANTS
    Day = 4
    MaxInterval = 1
    MaxWorkWindows = 1
    u1 = u1
    NoUser = NoUser
    Users = {u1}
    MaxDeliveries = 1
    MaxAttempts = 2
    RetryDelay <- MCRetryDelay
    LongAgo = 2
    MaxLag = 1
    MaxChanges = 1
    MaxFaults = 0
    Windows <- MCWindows
    Prompt = FALSE
INVARIANTS
    DeferralFollowsConfiguration
