\* Two servers, one with a lane of its own, and three explicit calls.
SPECIFICATION Spec
CONSTANTS
  a = a
  b = b
  c = c
  x = x
  y = y
  NoName = none
  Server <- Pair
  Name <- Names
  Pid <- Pids
  Own <- Owns
  Durable = {a}
  Orphan = {}
  Attended = {a}
  MaxClaims = 2
  MaxAsks = 3
  MaxOwed = 1
INVARIANTS
  OnlyWanted
  AdvertisedInOrder
CHECK_DEADLOCK FALSE
