SPECIFICATION SystemSpec
CONSTANTS
  NoIP = NoIP
  NoKey = NoKey
  NoPool = NoPool
  NoService = NoService
  NoFloatingIP = NoFloatingIP
  NoIngress = NoIngress
  Malformed = Malformed
  ip1 = ip1
  ip2 = ip2
  long1 = long1
  junk = junk
  k1 = k1
  k2 = k2
  left = left
  right = right
  torn = torn
  IPs <- MCIPs
  Keys = {k1, k2}
  IPStrings <- MCIPs
  Canonical <- MCCanonical
  Entries <- MCEntries
  ParseCIDR <- MCParseCIDR
  Addresses <- MCAddresses
  Listeners <- Both
  InitialPools <- NewOrAnnounced
  PoolOps = {}
  MaxPoolOps = 0
  MaxPoolFaults = 0
  MaxRestarts = 0
  MaxRetries = 0
  SvcKeys = {k1}
  InitialServices <- OnlyNewServices
  SvcOps = {"resync"}
  MaxSvcOps = 0
  MaxSvcFaults = 1
  MaxSvcRetries = 0
  FipKeys = {k1}
  InitialFloatingIPs <- OnlyNewFips
  FipOps = {"status", "delete", "resync"}
  MaxFipOps = 1
  MaxFipFaults = 1
  MaxFipRetries = 0
CHECK_DEADLOCK FALSE
PROPERTIES
  EventuallyServed
  EventuallyLeased
