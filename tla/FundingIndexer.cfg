SPECIFICATION FairSpec
CONSTANTS
  Txs = {x1, x2}
  Confirmations = 2
  ScanRange = 2
  MaxHeight = 4
  MaxReorgs = 1
  MaxAborts = 2
  MaxStops = 1
  None = None
INVARIANTS
  OneHistory CrashRepaired
PROPERTIES
  EventuallyCaughtUp
