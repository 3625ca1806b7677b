\* One user with two tabs: the same creator added by UID and imported at the same time.
SPECIFICATION Spec
SYMMETRY TabsAlike
CONSTANTS
    u1 = u1
    u2 = u2
    c1 = c1
    c2 = c2
    t1 = t1
    t2 = t2
    Tabs = {t1, t2}
    NoCreator = NoCreator
    Users = {u1}
    Creators = {c1}
    Methods = {"add", "import"}
    PageSize = 2
    MaxPosts = 2
    MaxTime = 1
    MaxChanges = 1
    MaxCrashes = 1
INVARIANTS
    NoNotificationLost
PROPERTIES
    HistoryIsNotNotified
