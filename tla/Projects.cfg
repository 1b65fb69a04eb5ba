SPECIFICATION Spec
CONSTANTS
  w1 = w1
  w2 = w2
  p1 = p1
  p2 = p2
  s1 = s1
  s2 = s2
  Workspaces <- TwoWorkspaces
  Artifacts <- TwoArtifacts
  Shas <- TwoShas
  MaxHooks = 2
  MaxPushes = 2
  MaxTasks = 2
  Uses <- EverythingFollowed
SYMMETRY Symmetry
CHECK_DEADLOCK FALSE
INVARIANTS
  HooksMatchProjects
  
  
  CommitsHaveTheirArchive
