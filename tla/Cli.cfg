SPECIFICATION Spec
CONSTANTS
  s1 = s1
  s2 = s2
  NoHost = NoHost
  Nobody = Nobody
  Hosts = {h1, h2}
  Shells = {a, b}
  MaxGrants = 2
  MaxTurns = 2
  Standards = {s1, s2}
  Importance <- RequiredAndMinor
  Pipelines = {p1, p2}
  FailUnder <- Under80
  MaxHead = 2
  MaxChecks = 2
  MaxBuilds = 3
  Staff = {u1, u2}
  Workspaces = {ws1, ws2}
  MaxTokens = 2
CHECK_DEADLOCK FALSE
SYMMETRY CliSymmetry
INVARIANTS
  SavedLoginsWork
  ExitIsOfMyCheck
  ABuildIsInstalled
  AutomationSurvivesPeople
