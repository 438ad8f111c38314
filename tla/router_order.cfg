SPECIFICATION FairSpec
CONSTANTS
  Consumers = {control}
  Commands = {Stop, EmergencyStop}
  Stopping = {EmergencyStop}
  Wedging = {EmergencyStop}
  Stamps <- EarlyStamps
  Ttls <- OneTtl
  Priorities <- Normal
  HandlerStatuses <- OneStatus
  MaxQueue = 2
  MaxBatch = 2
  Modulus = 8
  MaxSubmits = 3
  MaxClock = 3
INVARIANTS AnsweredInOrder NoLateExecution
PROPERTIES KeepsPromise AcceptedAnswered
