SPECIFICATION Spec
CONSTANTS
    Departments = {"commercial"}
    Alphabet = {"0", "1", "2", "yes", "media"}
    MaxMessages = 6
    MaxQueue = 2
    MaxDisturbances = 1
    MaxAttempts = 2
INVARIANTS
    Safety
PROPERTIES
    AnswersShownMenu
    ConfirmedByCustomer
    HumanIsNotDisturbed
    EventuallyConcluded
CHECK_DEADLOCK FALSE
