\* Two servers with room for one claim each, under fairness.
SPECIFICATION FairSpec
CONSTANTS
  a = a
  b = b
  c = c
  x = x
  y = y
  NoName = none
  Server <- Pair
  Name <- Names
  Pid <- Pids
  Own <- Owns
  Durable = {}
  Orphan = {}
  Attended = {a}
  MaxClaims = 1
  MaxAsks = 2
  MaxOwed = 0
INVARIANT
  AdoptionFits
PROPERTIES
  WaitIsServed
  OwnLaneRegained
CHECK_DEADLOCK FALSE
