SPECIFICATION FairSpec
CONSTANTS
  m = m
  o = o
  Name <- MCName
  Earlier = {o}
  Moves <- MCMoves
  Kinds = {"inbox", "codex", "push", "watch", "turns"}
  MaxSent = 2
  MaxLeft = 1
  Scan = 1
  Batch = 1
  MaxRemind = 2
  LastRemind = 1
INVARIANTS
  OneNoticeOut
  NoSecondNotice
  NoSecondCopy
  ReportHonest
PROPERTY
  MailIsTold
CHECK_DEADLOCK FALSE
