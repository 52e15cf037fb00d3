SPECIFICATION StorageSpec
CONSTANTS
  Job = {j1, j2}
  Names = {a, b}
  MaxProfile = 4
  MaxKey = 4
  Limit = 1
  Cap = 2
  MaxAsked = 2
SYMMETRY Symmetry
CONSTRAINT Within
INVARIANTS Openable NoOrphans WithinLimit
PROPERTIES OnlyReplaced CutoverWhole
CHECK_DEADLOCK FALSE
