SPECIFICATION Spec
CONSTANTS
    p1 = p1
    p2 = p2
    p3 = p3
    Roster <- MCRoster
    Vehicles = 2
    Seats = 1
    Capacities = {1, 2}
    Edited = {1}
    Boards <- MCBoards
    Requests = {1, 2}
    MaxInputs = 4
    None = None
INVARIANTS
    PlansHold
PROPERTIES
    ApprovedAsReviewed
CHECK_DEADLOCK FALSE
