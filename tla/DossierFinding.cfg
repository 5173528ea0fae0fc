SPECIFICATION Spec
CONSTANTS
  Workers = {w1, w2}
  Types = {"identity", "military"}
  Conditional = {"military"}
  Files = {f1}
  Commands = {c1}
  MaxOperations = 4
  MaxRequests = 2
  MaxItems = 2
  MaxVersions = 1
INVARIANTS
    ApprovalRecalculates
CHECK_DEADLOCK FALSE
