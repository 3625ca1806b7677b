\* One user, every interleaving of a renewal with what else may happen.
SPECIFICATION LiveSpec
CONSTANTS
    u1 = u1
    Users = {u1}
    Cap = 5
    Old = 0
    MaxFaults = 1
INVARIANTS
    TokenBelongsToCookie
    StoredIsLastChoice
    StoredCookieIsNotEnded

PROPERTIES
    StatusRecovers
