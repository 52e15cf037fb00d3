SPECIFICATION Spec
CONSTANTS
  Browsers = {b1, b2}
  Req = {q1, q2}
  MaxStep = 2
  Tours = {t1}
  Attempts = 2
  MaxFaults = 1
SYMMETRY Symmetry
CONSTRAINT Apart
INVARIANTS AnsweredKept DecisionNotLost
PROPERTIES DecidedForGood
CHECK_DEADLOCK FALSE
