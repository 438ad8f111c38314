SPECIFICATION FairSpec
CONSTANTS
  Values = {cold, calibrated, issuer}
  Cold = cold
  Faults <- AllFaults
  MaxFaults = 3
  MaxWrites = 2
  MaxDeaths = 2
INVARIANTS NoRollback
PROPERTIES IsACell Survives CatchesUp
