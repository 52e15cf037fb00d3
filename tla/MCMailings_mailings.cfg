SPECIFICATION MailSpec
CONSTANTS
  Users = 2
  Run = {r1, r2}
  Window <- Days
  Batch = 1
  Limit = 1
  HalfOf <- Halves
  MaxDay = 2
  MaxAddr = 1
  MaxMoves = 2
SYMMETRY Symmetry
CONSTRAINT Within
INVARIANTS WeekOneOnce OnceUnlessUnsure StopLinksWork
CHECK_DEADLOCK FALSE
PROPERTIES EndedLinksStayEnded
