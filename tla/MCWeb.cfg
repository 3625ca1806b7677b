\* Two tabs, a user and an administrator; one page at a time.
\* Users may stop.
SPECIFICATION WebSpec
CONSTANTS
    t1 = t1
    t2 = t2
    alice = alice
    root = root
    NoUser = NoUser
    Tabs = {t1, t2}
    Users = {alice, root}
    Admins = {root}
    Addresses = {"admin"}
    MaxRequests = 3
    MaxSessions = 2
    MaxEvents = 1
    MaxCodes = 2
    MaxCalls = 2
    MaxUpsets = 1
    i1 = i1
    i2 = i2
    Items = {i1, i2}
    MaxAttempts = 1
    MaxListCalls = 2
    MaxMoves = 2
    MaxFailures = 1
    a1 = a1
    a2 = a2
    Accounts = {a1, a2}
    MaxFollowed = 3
    MaxSelected = 2
    MaxFetches = 3
    MaxOpenings = 3
    MaxPages = 3
    MaxLoads = 2
    MaxClicks = 3
    Others = {a1, a2}
    Nobody = Nobody
    NewUser = NewUser
    MaxActs = 4
INVARIANTS
    SwitchShowsServer
    WritesAreOnesOwn
    PagesAreAllowed
    ResetEndsOldAccess
    SelectionIsOnPage
    AddressShowsPage
    TypedForItsUser
PROPERTIES
    ConfirmedLoginIsNoticed
    ClosedDialogFallsSilent
    RefreshingStops
    InitializationIsShown
CHECK_DEADLOCK FALSE
