SPECIFICATION SystemSpec
CONSTANTS
  NoIP = NoIP
  NoKey = NoKey
  NoPool = NoPool
  NoService = NoService
  NoFloatingIP = NoFloatingIP
  NoIngress = NoIngress
  Malformed = Malformed
  ip1 = ip1
  ip2 = ip2
  long1 = long1
  junk = junk
  k1 = k1
  k2 = k2
  left = left
  right = right
  torn = torn
  IPs <- MCIPs
  Keys = {k1, k2}
  IPStrings <- MCIPs
  Canonical <- MCCanonical
  Entries <- MCEntries
  ParseCIDR <- MCParseCIDR
  Addresses <- MCAddresses
  Listeners <- ServiceOnly
  InitialPools <- TwoIPPools
  PoolOps = {}
  MaxPoolOps = 0
  MaxPoolFaults = 0
  MaxRestarts = 0
  MaxRetries = 1
  SvcKeys = {k1}
  InitialServices <- OnlyNewServices
  SvcOps = {"ip"}
  MaxSvcOps = 2
  MaxSvcFaults = 0
  MaxSvcRetries = 1
  FipKeys = {}
  InitialFloatingIPs <- OnlyNewFips
  FipOps = {}
  MaxFipOps = 0
  MaxFipFaults = 0
  MaxFipRetries = 1
CHECK_DEADLOCK FALSE
INVARIANTS
  NoLeak
