SPECIFICATION MapSpec
CONSTANTS
  p1 = p1
  p2 = p2
  s1 = s1
  s2 = s2
  Projects <- TwoProjects
  Stacks <- TwoStacks
  Shapes <- RootOrParts
  Refs <- SomeRefs
  Systems <- SomeSystems
  Datastores <- JustRedis
  MaxBirths = 2
  MaxSaves = 2
  MaxEdits = 2
SYMMETRY Symmetry
CHECK_DEADLOCK FALSE
INVARIANTS
  CutProjectsAreMappedAgain
  MapIsTheLastAnswer
PROPERTY
  StacksAreKept
