SPECIFICATION Spec
CONSTANTS
  s1 = s1
  s2 = s2
  main = main
  release = release
  w1 = w1
  w2 = w2
  NoRef = NoRef
  Sweeper = Sweeper
  NoOne = NoOne
  Standards = {s1, s2}
  Branches <- TwoBranches
  RunBranch <- ReadsEither
  AppliesTo <- TwoBranchFilter
  Importance <- RequiredAndMinor
  Outcomes <- OnlyPass
  Archivable = {}
  Requests = {r1}
  Runners = {w1}
  MaxJobs = 1
  MaxHead = 2
  MaxFaults <- CrashAndDatabase
  MayOutliveCutoff = FALSE
INVARIANTS
  TypeOK
  PinnedRunReadsItsCommit
  ReportedOncePerAttempt
PROPERTIES
  SettledStaysSettled
  ChecksAreDecidedOnce
