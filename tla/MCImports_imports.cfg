SPECIFICATION ImportsSpec
CONSTANTS
  Job = {j1, j2}
  Line = {l1, l2}
  Name = {n1, n2}
  l1 = l1
  l2 = l2
  n1 = n1
  n2 = n2
  NameOf <- OneName
  NoName = NoName
  Sheets <- Two
  Opening = 5
  MaxTag = 2
  MaxAcct = 2
  MaxCrashes = 1
INVARIANTS NeitherLostNorDoubled BalancesHeal UndoableWhileThere
PROPERTIES OwnRowsOnly
SYMMETRY Symmetry
CHECK_DEADLOCK FALSE
