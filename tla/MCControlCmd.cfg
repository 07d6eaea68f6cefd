SPECIFICATION Spec
CONSTANTS
  Procs <- MCProcs
  Groups <- MCGroups
  Pgrp <- MCPgrp
  Ruled = {1, 2}
  Broken = {}
  Workers = {w1, w2}
  Cap = 1
  Seen <- MCSeen
  MaxScans = 2
  Verbose = TRUE
INVARIANTS
  TypeOK
  InScanOrder
  Accounted
PROPERTIES
  Drains
  Obeyed
