SPECIFICATION FairSpec
CONSTANTS
  a1 = a1
  a2 = a2
  s1 = s1
  s2 = s2
  NULL = NULL
  Addrs <- MCAddrs
  Slots <- MCSlots
  Distances = {1}
  TIMEOUT_STEPS = 2
  TOTAL_NUM_FILTER = 2
  MSGQ_MAX = 1
  MaxAdds = 3
  MaxResults = 2
INVARIANTS TypeOK BlocksApart FilterWithinBuffer
PROPERTIES ListAccounted StaleOnlyThroughThread SilentPeerExpires
