SPECIFICATION FairSpec
CONSTANTS
  Threads <- AllThreads
  Workers <- SomeWorkers
  WorkerLog <- WithFatal
  MinLevel = "Info"
  Relock <- AllRelock
  MaxLines = 5
  MaxKills = 1
INVARIANTS LinesWhole TeardownSafe ExitComplete
PROPERTIES IsAJournal LogReturns
CHECK_DEADLOCK FALSE
