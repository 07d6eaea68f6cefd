SPECIFICATION Spec
CONSTANTS
  Pids = {1, 2}
  Rules <- MCRules
  Starts <- MCStarts
  SliceUnit = "managed"
  Workers = {w1, w2}
  MaxChanges = 1
INVARIANTS
  TypeOK
  LeaderReconciled
  WholeGroupReniced
  MovesSeenMembers
PROPERTIES
  Reconciles
