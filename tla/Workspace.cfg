SPECIFICATION MCSpec
CONSTANTS
  Users = {ann, bob}
  NoOne = NoOne
  RolesGiven = {"owner", "member"}
  MaxInvites = 1
  MaxTasks = 2
  Deployments <- TwoDeployments
  Parts <- SessionParts
  NumWorkspaces = 2
  Installations = {acme}
  Tabs = {t1, t2}
  Nothing = Nothing
SYMMETRY Symmetry
CHECK_DEADLOCK FALSE
INVARIANTS
  
  EveryAccountIsVouchedFor
  ReadyRequestsAreTold
  SupportViewIsAsEntered
  ConnectionsAreVouched
  
PROPERTIES
  SeatsAreGivenOnce
