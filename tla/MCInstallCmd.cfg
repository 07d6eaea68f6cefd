SPECIFICATION Spec
CONSTANTS
  firefox = firefox
  mpv = mpv
  make = make
  lost = lost
  Names = {firefox, mpv, make, lost}
  RuleSets <- MCRuleSets
  Ignored = {make}
  Linked = {firefox}
  Broken = {lost}
  InPath = TRUE
  Cap = 1
  MaxInstalls = 3
INVARIANTS
  TypeOK
  CompleteAtReturn
  LastGoodKept
PROPERTIES
  Finishes
