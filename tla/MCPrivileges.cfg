SPECIFICATION Spec
CONSTANTS
  Workers = {w1, w2}
  Jobs <- MCJobs
  HasCaps = TRUE
  IsRoot = FALSE
INVARIANTS
  TypeOK
  SuitedUnlessOverlapped
  RaisedForSomeone
PROPERTIES
  DroppedInTheEnd
