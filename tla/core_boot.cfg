SPECIFICATION FairSpec
CONSTANTS
  Commands <- BootKinds
  MaxCommands = 1
  MaxQueue = 1
  MaxBatch = 1
  Spawned <- EveryThread
  Stored <- TwoFiles
  Failures <- AllFailures
  FlushAlways = TRUE
  Relock <- AllRelock
INVARIANTS IInv
PROPERTIES EStopGetsThrough StopTerminatesUnlatched
CHECK_DEADLOCK FALSE
