\* Expected to fail: a cancel reported clean leaves its child running.
SPECIFICATION Spec
CONSTANTS
  Server = {s1, s2}
  Nobody = nobody
  Job = {j1}
  MaxChildren = 1
PROPERTIES
  CleanCancelMeansDead
CHECK_DEADLOCK FALSE
