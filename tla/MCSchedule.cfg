SPECIFICATION Spec
CONSTANTS
    Day = 5
    MaxInterval = 3
    MaxWorkWindows = 3
INVARIANTS
    DeferralEndsWhenOpenWindowsClose
    NextTransitionIsNextChange
