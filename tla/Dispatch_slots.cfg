\* One server at its smallest that two admissions, a cancel and a settling pass
\* can meet in: two jobs, two tool calls, two slots and one worker.
SPECIFICATION Spec
CONSTANTS
  Server = {me}
  Nobody = nobody
  Self = me
  Job = {j1, j2}
  Caller = {c1, c2}
  Exit = exit
  MaxPending = 2
  MaxWorkers = 1
  Refused = {}
SYMMETRY Alike
INVARIANTS SlotsConserved UnpaidKeepsSlot NothingForgotten ExitOwesNothing NoIdleQueue ReconciledFirst
CHECK_DEADLOCK FALSE
