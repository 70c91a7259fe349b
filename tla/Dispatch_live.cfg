\* One call at a time and two jobs, one of whose results the store never takes.
SPECIFICATION FairSpec
CONSTANTS
  Server = {me}
  Nobody = nobody
  Self = me
  Job = {j1, j2}
  Caller = {c1}
  Exit = exit
  MaxPending = 2
  MaxWorkers = 1
  Refused = {j1}
PROPERTY AcceptedIsSettled
CHECK_DEADLOCK FALSE
