SPECIFICATION Spec
CONSTANTS
  Nobody = Nobody
  Projects = {p1}
  Publishers = {a1}
  Runners = {w1, w2}
  Attempts = 2
  MaxJobs = 3
  MaxHead = 2
  Deletable = {p1}
  MaxFaults <- EveryWorkerFault
SYMMETRY RunnerSymmetry
INVARIANTS
  StoredMapIsCurrent
  OneAlarmPerFailedJob
