SPECIFICATION FairSpec
CONSTANTS
    Departments = {"commercial"}
    Users = {u1}
    None = none
    Documents = {d1, d2}
    Batches = {b1}
    MaxQuotes = 1
    MaxIsolations = 1
    MaxOverlaps = 1
    Commands <- Asked
PROPERTIES
    LastConfirmationCounts
