SPECIFICATION SetupSpec
CONSTANTS
  Browsers = {b1}
  Req = {q1, q2}
  MaxStep = 1
  Tours = {}
  Attempts = 2
  MaxFaults = 2
PROPERTIES DecisionArrives
CHECK_DEADLOCK FALSE
