SPECIFICATION Spec
CONSTANTS
  a = a
  b = b
  o = o
  X = X
  Y = Y
  None = None
  Server = {a, b, o}
  Name = {l, m, n}
  Home <- MCHome
  Page = 2
  MaxClaims = 2
  PerConversation = 2
  Rows = 2
  MaxAsks = 4
INVARIANTS
  TypeOK
  OrderKept
  AdviceHolds
PROPERTIES
  OnlyOwnNamesRestored
  RestoredInOrder
CHECK_DEADLOCK FALSE
