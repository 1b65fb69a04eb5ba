SPECIFICATION FairSpec
CONSTANTS
  Nobody = Nobody
  Projects = {p1, p2}
  Publishers = {a1}
  Runners = {w1}
  Attempts = 1
  MaxJobs = 3
  MaxHead = 1
  Deletable = {}
  MaxFaults <- AnyDeath
INVARIANTS
  CutEdgesAreMappedAgain
PROPERTIES
  EveryRefreshSettles
