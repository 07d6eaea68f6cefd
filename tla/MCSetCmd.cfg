SPECIFICATION Spec
CONSTANTS
  Procs <- MCProcs
  Groups <- MCGroups
  Pgrp <- MCPgrp
  Ruled <- MCRuled
  Broken = {6}
  Workers = {w1, w2}
  Cap = 1
  Scans <- MCScans
INVARIANTS
  TypeOK
  EachJobOnce
  CompleteAtReturn
  WaitGroups
PROPERTIES
  NoSendOnClosed
  ImplementsApplyOnce
