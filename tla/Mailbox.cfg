\* Two sessions over one lane and the shared name, one message to a batch.
SPECIFICATION FairSpec
CONSTANTS
  a = a
  b = b
  x = x
  Bare = bare
  NoReader = nobody
  Reader <- Readers
  Lane <- Lanes
  Limit = 1
  MaxSent = 2
  Caller = {a}
  Attended = {a}
INVARIANTS
  ConsumedOnce
  DrainedMeansEmpty
  SweepMissesNothing
PROPERTIES
  OnlyHoldersConsume
  BacklogDrains
CHECK_DEADLOCK FALSE
