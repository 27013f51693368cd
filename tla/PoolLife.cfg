SPECIFICATION PoolSpec
CONSTANTS
  NoIP = NoIP
  NoKey = NoKey
  NoPool = NoPool
  Malformed = Malformed
  ip1 = ip1
  ip2 = ip2
  k1 = k1
  left = left
  right = right
  bad = bad
  IPs <- MCIPs
  IPStrings <- MCIPs
  Canonical <- MCCanonical
  Keys <- MCKeys
  Entries <- MCEntries
  Addresses <- MCAddresses
  ParseCIDR <- MCParseCIDR
  Listeners = {}
  InitialPools <- NoPools
  PoolOps = {"create", "edit", "touch", "delete", "resync"}
  MaxPoolOps = 4
  MaxPoolFaults = 2
  MaxRestarts = 1
  MaxRetries = 2
CHECK_DEADLOCK FALSE
INVARIANTS
  PoolTypeOK
  AnnouncedIsLoaded
  ReleasedWhenGone
PROPERTIES
  KeptIsLoaded
  EventuallyQuiet
  KeptIsAnnounced
