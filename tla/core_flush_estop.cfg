SPECIFICATION FairSpec
CONSTANTS
  Commands <- StopKinds
  MaxCommands = 2
  MaxQueue = 2
  MaxBatch = 2
  Spawned <- CommandPath
  Stored <- AnyFile
  Failures = {}
  FlushAlways = TRUE
  Relock <- Blocks
PROPERTIES LatchDisables
CHECK_DEADLOCK FALSE
