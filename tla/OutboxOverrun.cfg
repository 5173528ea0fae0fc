SPECIFICATION FairSpec
CONSTANTS
    Conversations = {c1}
    Processes = {p1, p2}
    MaxSequence = 1
    MaxAttempts = 2
    BatchSize = 2
    MaxOverruns = 2
    MaxFaults = 1
    MaxReconciliations = 1
INVARIANTS
    NewestClaimOwnsRow
    DeliveredOnce
PROPERTIES
    DeliveredIsFinal
    EventuallyConcluded
