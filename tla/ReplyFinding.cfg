SPECIFICATION Spec
CONSTANTS
    Departments = {"commercial"}
    Alphabet = {"1"}
    MaxMessages = 2
    MaxQueue = 1
    MaxDisturbances = 1
    MaxAttempts = 1
PROPERTIES
    SilentWhileAttended
CHECK_DEADLOCK FALSE
