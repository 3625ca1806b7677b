\* Two users, of whom the second adds by UID what the first follows.
SPECIFICATION Spec
CONSTANTS
    u1 = u1
    u2 = u2
    c1 = c1
    c2 = c2
    t1 = t1
    t2 = t2
    Tabs = {t1}
    NoCreator = NoCreator
    Users = {u1, u2}
    Creators = {c1}
    Methods = {"add"}
    PageSize = 2
    MaxPosts = 1
    MaxTime = 1
    MaxChanges = 0
    MaxCrashes = 0
PROPERTIES
    DetectedForEverySubscriber
