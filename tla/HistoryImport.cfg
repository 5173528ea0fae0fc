SPECIFICATION HistorySpec
CONSTANTS
  Nil = Nil
  Instances = {"i1"}
  Front = {"i1"}
  BackupMessages = {"new", "old"}
  Divergent = {"old"}
  DbUploads = {"d1"}
  MediaUploads = {"z1"}
  Chunks <- MCChunks
  MaxCrashes = 1
  MaxDetours = 1
INVARIANTS
    JobsAreOrderly
    ReceivedIsPrefix
PROPERTIES
    ImportSettles
CHECK_DEADLOCK FALSE
