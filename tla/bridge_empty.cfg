SPECIFICATION FairSpec
CONSTANTS
  Clients = {k}
  Commands = {stop, signal}
  Empty = {stop}
  Stopping = {}
  Timed = {}
  Wedging = {}
  MaxBatch = 1
  MaxQueue = 2
  LongFrames = FALSE
  MaxFrames = 0
  MaxRestarts = 0
  MaxClientFaults = 0
  Unpublishable = {}
PROPERTIES SentDelivered
CHECK_DEADLOCK FALSE
