SPECIFICATION FairSpec
CONSTANTS
  Commands <- StopKinds
  MaxCommands = 2
  MaxQueue = 1
  MaxBatch = 2
  Spawned <- CommandPath
  Stored <- AnyFile
  Failures <- BootFailures
  FlushAlways = FALSE
  Relock <- AllRelock
INVARIANTS AcksTruthful ExitClean FinalSave NoEStopLost
PROPERTIES NoReEnable StopTerminates LatchDisables
