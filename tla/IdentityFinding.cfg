SPECIFICATION Spec
CONSTANTS
    Users = {u1, u2, u3}
    FirstRoot = u1
    Managers = {u2}
    Established = {u1, u2}
    Requests = {r1, r2}
    MaxSessions = 2
    MaxLinks = 2
    MaxRotations = 3
    MaxRequests = 3
    MaxRestarts = 1
    None = None
SYMMETRY MCSymmetry
INVARIANTS
    AdministratorRemains
CHECK_DEADLOCK FALSE
