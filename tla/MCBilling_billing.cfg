SPECIFICATION Spec
CONSTANTS
  Subs = {s1, s2}
  Customers = {c1, c2}
  Tiers = {basic, advanced}
  Handlers = {h1, h2}
  Checkouts = {k1, k2}
  NoSub = NoSub
  NoCust = NoCust
  Free = Free
  NoPick = NoPick
  MaxEvents = 6
  MaxPeriod = 2
  MaxCrashes = 1
  Worlds <- All
CONSTRAINT Within
SYMMETRY Symmetry
INVARIANTS AppliedOnce FreeRowIsBlank SettledAgreement OneLivePerCustomer
PROPERTIES DropOnlyWhenNothingElseLive NoResurrectionOfOne
CHECK_DEADLOCK FALSE
