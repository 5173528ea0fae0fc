SPECIFICATION Spec
CONSTANTS
    Conversations = {c1}
    Processes = {p1, p2}
    MaxSequence = 2
    MaxAttempts = 2
    BatchSize = 2
    MaxOverruns = 0
    MaxFaults = 1
    MaxReconciliations = 0
SYMMETRY Symmetry
INVARIANTS
    InOrder
    AuditIsTrue
PROPERTIES
    RefinesOrder
