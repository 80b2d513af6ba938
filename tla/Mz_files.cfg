SPECIFICATION Spec
CONSTANTS
  Args <- SomeArgs
  MaxArgs = 4
  DefaultTail = 2
  Worlds <- SomeWorlds
  BlockLimit = 3
  Grown <- SomeGrown
INVARIANTS SourceKept OutputFaithful
PROPERTY Progress
CHECK_DEADLOCK FALSE
