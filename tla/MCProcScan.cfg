SPECIFICATION Spec
CONSTANTS
  Files <- MCFiles
  Mine = {1, 3}
  UserSlice = {1, 10, 3}
  Blank = {3}
  Scopes = {"user", "global", "system", "all"}
  Workers = {w1, w2}
INVARIANTS
  TypeOK
  FilteredUnlessRaced
  NothingForeign
PROPERTIES
  Ends
