SPECIFICATION FairSpec
CONSTANTS
  Record = {1, 2}
  File = {3}
  Writer = {w1}
  Command = {c1}
  BatchSize = 1
  MaxGeneration = 3
  MaxOperations = 2
  MaxFailures = 1
PROPERTY EveryRotationCompletes
