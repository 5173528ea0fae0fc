SPECIFICATION FairSpec
CONSTANTS
    Dispatches = {d1, d2}
    None = none
    MaxGenerations = 2
    MaxStarts = 3
    MaxOverruns = 2
    MaxFaults = 2
    MaxReports = 1
    MaxServiceClaims = 1
INVARIANTS
    AtMostOnce
    DeliveredMeansSent
    IsolatedCanBeReconciled
PROPERTIES
    NeverTakenBack
    EventuallySettled
CHECK_DEADLOCK FALSE
