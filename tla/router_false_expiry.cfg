SPECIFICATION Spec
CONSTANTS
  Consumers = {control}
  Commands = {Stop, Signal}
  Stopping = {}
  Wedging = {}
  Stamps <- AnyStamp
  Ttls <- OneTtl
  Priorities <- Normal
  HandlerStatuses <- OneStatus
  MaxQueue = 2
  MaxBatch = 2
  Modulus = 8
  MaxSubmits = 2
  MaxClock = 3
INVARIANTS NoFalseExpiry
