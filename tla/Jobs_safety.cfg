\* One job, its owner and two other servers that read, sweep and cancel it.
SPECIFICATION FairSpec
CONSTANTS
  Server = {s1, s2, s3}
  Nobody = nobody
  Job = {j1}
  MaxChildren = 2
INVARIANTS
  NoticeMatchesRow
  LostMeansDead
  NoChildUnlessClaimed
  CancelReachesChild
  OneCanceller
PROPERTIES
  KeepsPromise
  AcceptedIsTold
CHECK_DEADLOCK FALSE
