SPECIFICATION PoolSpec
CONSTANTS
  NoIP = NoIP
  NoKey = NoKey
  NoPool = NoPool
  Malformed = Malformed
  ip1 = ip1
  ip2 = ip2
  k1 = k1
  left = left
  right = right
  bad = bad
  IPs <- MCIPs
  IPStrings <- MCIPs
  Canonical <- MCCanonical
  Keys <- MCKeys
  Entries <- MCEntries
  Addresses <- MCAddresses
  ParseCIDR <- MCParseCIDR
  Listeners = {}
  InitialPools <- NoPools
  PoolOps = {"create", "delete"}
  MaxPoolOps = 3
  MaxPoolFaults = 0
  MaxRestarts = 0
  MaxRetries = 2
CHECK_DEADLOCK FALSE
PROPERTIES
  EventuallyLoaded
