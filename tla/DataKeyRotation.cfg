SPECIFICATION FairSpec
CONSTANTS
  Record = {1, 2}
  File = {3}
  Writer = {w1}
  Command = {c1}
  BatchSize = 1
  MaxGeneration = 2
  MaxOperations = 3
  MaxFailures = 2
PROPERTY RotationCompletes
INVARIANTS
  Readable
  NothingBehindCursor
  SweptWhenComplete
