SPECIFICATION Spec
CONSTANTS
  ProfileFields <- MCProfileFields
  ScopeFields <- MCScopeFields
  Values = {1, 2}
  Names = {"-", "none", "default", "lost", "c1", "c2"}
  Configs <- MCConfigs
  Requests <- MCRequests
  HasCaps = TRUE
INVARIANTS
  ScopeKept
