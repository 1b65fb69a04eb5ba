SPECIFICATION FairSpec
CONSTANTS
  s1 = s1
  s2 = s2
  main = main
  release = release
  w1 = w1
  w2 = w2
  NoRef = NoRef
  Sweeper = Sweeper
  NoOne = NoOne
  Standards = {s1}
  Branches <- OneBranch
  RunBranch <- ReadsMain
  AppliesTo <- OneBranchFilter
  Importance <- RequiredAndMinor
  Outcomes <- PassOrFail
  Archivable = {s1}
  Requests = {}
  Runners = {w1}
  MaxJobs = 2
  MaxHead = 1
  MaxFaults <- CrashDatabaseSweep
  MayOutliveCutoff = FALSE
PROPERTIES
  EveryRunSettles
  EveryCheckIsScored
