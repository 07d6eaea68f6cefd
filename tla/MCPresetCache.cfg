SPECIFICATION Spec
CONSTANTS
  Dirs <- MCDirs
  Keys = {"cgroup", "rule"}
  Contents <- MCContents
  Section <- MCSection
  Parts = 2
  Processes = {p1, p2}
  MaxLoads = 2
  MaxEdits = 1
SYMMETRY Symmetry
INVARIANTS
  TypeOK
  PresetsOfFiles
