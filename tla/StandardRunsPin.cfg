SPECIFICATION Spec
CONSTANTS
  s1 = s1
  s2 = s2
  main = main
  release = release
  w1 = w1
  w2 = w2
  NoRef = NoRef
  Sweeper = Sweeper
  NoOne = NoOne
  Standards = {s1, s2}
  Branches <- OneBranch
  RunBranch <- ReadsMain
  AppliesTo <- OneBranchFilter
  Importance <- RequiredAndMinor
  Outcomes <- PassOrFail
  Archivable = {}
  Requests = {r1}
  Runners = {w1}
  MaxJobs = 1
  MaxHead = 2
  MaxFaults <- NoFaults
  MayOutliveCutoff = FALSE
INVARIANTS
  ChecksReadOneCommit
