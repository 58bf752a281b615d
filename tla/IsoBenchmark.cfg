SPECIFICATION BenchSpec
CONSTANTS
  ISO_MAX_CHAN = 2
  TX_BUF_COUNT = 2
  LATEST = 3
  PERIOD = 2
  UINT32 = 9
  MaxPackets = 10
INVARIANTS BenchTypeOK CleanStart LeavesOnlyLostBig Broadcasting BroadcasterCleansUp
  RatesTrue
PROPERTIES LostBigRestarts
CHECK_DEADLOCK FALSE
