SPECIFICATION SyncSpec
CONSTANTS
  d1 = d1
  t1 = t1
  Donations = {d1}
  Prepared <- MCPrepared
  FirstCalls <- MCFirstCalls
  Calls <- MCCalls
  Junk = Junk
  Confirmations = 2
  BatchSize = 2
  MaxBatches = 1
  MaxHeight = 4
  MaxReorgs = 1
  MaxFaults = 1
  MaxTasks = 1
  NoCall = NoCall
INVARIANTS
  LedgerOfOneChain
  ConfirmedIsIndexed
PROPERTY EventuallyConfirmed
