SPECIFICATION Spec
CONSTANTS
  Workers = {w1, w2}
  Types = {"identity", "military"}
  Conditional = {"military"}
  Files = {f1, f2}
  Commands = {c1, c2}
  MaxOperations = 4
  MaxRequests = 2
  MaxItems = 2
  MaxVersions = 2
SYMMETRY Interchangeable
INVARIANTS
    StatusFollowsItems
    HistoryIsTrue
PROPERTIES
    ApprovalSettlesType
    UploadKeepsApproval
CHECK_DEADLOCK FALSE
