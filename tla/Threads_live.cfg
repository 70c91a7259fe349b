SPECIFICATION FairSpec
CONSTANTS
  a = a
  b = b
  o = o
  X = X
  Y = Y
  None = None
  Server = {a, b}
  Name = {l, m, n}
  Home <- MCHome
  Page = 2
  MaxClaims = 2
  PerConversation = 2
  Rows = 2
  MaxAsks = 4
PROPERTIES
  NamesComeBack
CHECK_DEADLOCK FALSE
