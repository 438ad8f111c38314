SPECIFICATION Spec
CONSTANTS
  Clients = {k, l}
  Commands = {stop, signal}
  Empty = {}
  Stopping = {}
  Timed = {}
  Wedging = {}
  MaxBatch = 1
  MaxQueue = 2
  LongFrames = TRUE
  MaxFrames = 2
  MaxRestarts = 1
  MaxClientFaults = 1
  Unpublishable = {}
INVARIANTS DamageNeedsRace SubmittedOnce ResultsAreGenuine
SYMMETRY ClientsAlike
CHECK_DEADLOCK FALSE
