\* One ask of up to two commands, each with two output pipes and an input.
SPECIFICATION FairSpec
CONSTANTS
  Stream = {out, err}
  Stdin = stdin
  Legacy = {{stdin}, {out, stdin}}
  Fragile = {out}
  MaxChildren = 2
INVARIANTS
  AnswerHonest
  NoneEscapesCancel
PROPERTY
  CallEnds
CHECK_DEADLOCK FALSE
