SPECIFICATION StandardsSpec
CONSTANTS
  Stds = {s1, s2}
  Contents <- SomeContents
  Offered <- TwoVersions
  MaxVersions = 2
  MaxTasks = 2
  MaxImportances = 2
  Uses = {"write", "attach"}
SYMMETRY Symmetry
CHECK_DEADLOCK FALSE
INVARIANTS
  RunsRecordWhatTheyRun
  QuietStandardsAreSettled
PROPERTIES
  ImportancesAreKept
