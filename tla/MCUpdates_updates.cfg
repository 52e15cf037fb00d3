SPECIFICATION MCSpec
CONSTANTS
  Tabs = {t1, t2}
  MaxBuild = 3
  MaxReloads = 1
  MaxDeploys = 2
  MaxOutages = 1
  MaxVisits = 2
PROPERTIES Undisturbed NobodyStranded
CHECK_DEADLOCK FALSE
