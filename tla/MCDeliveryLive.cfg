\* Liveness: a lone row, and every window, change and fault it may meet.
SPECIFICATION LiveSpec
CONSTANTS
    Day = 4
    MaxInterval = 1
    MaxWorkWindows = 1
    u1 = u1
    NoUser = NoUser
    Users = {u1}
    MaxDeliveries = 1
    MaxAttempts = 2
    RetryDelay <- MCRetryDelay
    LongAgo = 2
    MaxLag = 1
    MaxChanges = 1
    MaxFaults = 1
    Windows <- MCWindows
    Prompt = TRUE
PROPERTIES
    DeliveryIsSettled
