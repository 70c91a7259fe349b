\* A server, its successor under the same pid, and a stranger.
SPECIFICATION Spec
CONSTANTS
  a = a
  b = b
  c = c
  x = x
  y = y
  NoName = none
  Server <- Three
  Name <- Names
  Pid <- Pids
  Own <- Owns
  Durable = {a, b}
  Orphan = {a}
  Attended = {a}
  MaxClaims = 2
  MaxAsks = 1
  MaxOwed = 1
PROPERTIES
  KeepsNamePromise
  OnlyGivenUp
CHECK_DEADLOCK FALSE
