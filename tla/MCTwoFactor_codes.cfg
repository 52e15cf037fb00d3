SPECIFICATION MCSpec
CONSTANTS
  Req = {r1, r2}
  Sid = {s1, s2}
  Sheet = {c1}
  Faults = TRUE
  MaxSecrets = 2
  MaxSheets = 2
  MaxStep = 2
  MaxVersion = 2
SYMMETRY Symmetry
INVARIANTS PaperCodeOnce NobodyInOnOneFactorAlone
PROPERTIES EnrolmentStands
CHECK_DEADLOCK FALSE
