SPECIFICATION Spec
CONSTANTS
    Departments = {"commercial", "operations"}
    Users = {u1, u2}
    None = none
    Documents = {d1, d2}
    Batches = {b1, b2}
    MaxQuotes = 2
    MaxIsolations = 1
    MaxOverlaps = 1
    Commands <- Asked
SYMMETRY Symmetry
INVARIANTS
    RequestFollowsQuote
    ProposalsInOrder
    InboundIsNeverRefused
PROPERTIES
    OnlyClosingPreventsConfirmation
    UndisturbedConfirmationCounts
