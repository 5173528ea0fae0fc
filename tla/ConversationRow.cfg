SPECIFICATION RowSpec
CONSTANTS
    Departments = {"commercial", "operations"}
    Users = {u1, u2}
    None = none
    Messages = {m1, m2}
    MaxVersion = 7
    MaxOvertakes = 1
SYMMETRY Symmetry
INVARIANTS
    AttendanceFits
    UnreadIsExact
PROPERTIES
    MessageKeepsAttendant
CHECK_DEADLOCK FALSE
