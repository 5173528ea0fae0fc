SPECIFICATION FairImportSpec
CONSTANTS
  Absent = Absent
  w1 = w1
  w2 = w2
  Workers = {w1, w2}
  Phones = {"p1"}
  Exts = {"e1", "e2"}
  PhoneOf <- MCPhoneOf
  Messages = {"m1", "m2"}
  Batches = {"b1", "b2"}
  Package <- MCPackage
  MaxRuns = 4
  MaxActivity = 1
PROPERTIES
    ImportIsSerializable
CHECK_DEADLOCK FALSE
