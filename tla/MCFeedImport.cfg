\* Two users who import the same creator: who records a video first, and for
\* whom; deletion of one of them; and that everyone is notified in the end.
SPECIFICATION LiveSpec
CONSTANTS
    u1 = u1
    u2 = u2
    c1 = c1
    c2 = c2
    t1 = t1
    t2 = t2
    Tabs = {t1}
    NoCreator = NoCreator
    Users = {u1, u2}
    Creators = {c1}
    Methods = {"import"}
    PageSize = 1
    MaxPosts = 1
    MaxTime = 1
    MaxChanges = 2
    MaxCrashes = 0
INVARIANTS
    NoNotificationLost
    ReferencesHold
PROPERTIES
    DeletionSparesOthers
    NotGivenTwice
    NotifiedEventually
