SPECIFICATION FairSpec
CONSTANTS
  Clients = {k}
  Commands = {stop, halt, signal, scan}
  Empty = {scan}
  Stopping = {stop, halt}
  Timed = {halt}
  Wedging = {halt}
  MaxBatch = 2
  MaxQueue = 2
  LongFrames = FALSE
  MaxFrames = 0
  MaxRestarts = 1
  MaxClientFaults = 0
  Unpublishable = {signal}
INVARIANTS ResultsInOrder LeftBehind
PROPERTIES IsAChannel PayloadAnswered ShutdownRepeats
CHECK_DEADLOCK FALSE
