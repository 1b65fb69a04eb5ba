SPECIFICATION MCSpec
CONSTANTS
  Standards = {s1, s2}
  Scores = {0, 33, 100}
  Ranks = {"required", "minor"}
  MaxRuns = 3
  ann = ann
  bob = bob
  People <- TwoPeople
  Outcomes <- ThreeOutcomes
  Branches <- Main
  RecentChecks = 2
  MaxCommits = 3
  MaxChecks = 3
  MaxNotes = 2
  MaxCrashes = 1
  Uses = {"runs", "people"}
SYMMETRY Symmetry
CHECK_DEADLOCK FALSE
INVARIANTS
  AverageIsNearestToTheMean
  HeadsAgree
  
  DeliveredOnce
PROPERTIES
  RerunReplacesItsStandard
  OldChecksNeverMoveTheBranch
