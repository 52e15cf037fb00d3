SPECIFICATION FairSpec
CONSTANTS
  Subs = {s1}
  Customers = {c1}
  Tiers = {basic}
  Handlers = {h1, h2}
  Checkouts = {k1}
  NoSub = NoSub
  NoCust = NoCust
  Free = Free
  NoPick = NoPick
  MaxEvents = 4
  MaxPeriod = 1
  MaxCrashes = 1
  Worlds <- Trouble
PROPERTIES EventsDrain LinkedEventually
CHECK_DEADLOCK FALSE
