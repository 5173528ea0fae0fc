SPECIFICATION FairRowSpec
CONSTANTS
    Departments = {"commercial"}
    Users = {u1}
    None = none
    Messages = {m1}
    MaxVersion = 6
    MaxOvertakes = 1
PROPERTIES
    TakeOverStands
CHECK_DEADLOCK FALSE
