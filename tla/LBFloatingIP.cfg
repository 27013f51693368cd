SPECIFICATION SystemSpec
CONSTANTS
  NoIP = NoIP
  NoKey = NoKey
  NoPool = NoPool
  NoService = NoService
  NoFloatingIP = NoFloatingIP
  NoIngress = NoIngress
  Malformed = Malformed
  ip1 = ip1
  ip2 = ip2
  long1 = long1
  junk = junk
  k1 = k1
  k2 = k2
  left = left
  right = right
  torn = torn
  IPs <- MCIPs
  Keys = {k1, k2}
  IPStrings <- AnyString
  Canonical <- AnyCanonical
  Entries <- MCEntries
  ParseCIDR <- MCParseCIDR
  Addresses <- MCAddresses
  Listeners <- FloatingIPOnly
  InitialPools <- OnlyNewPool
  PoolOps = {"edit"}
  MaxPoolOps = 1
  MaxPoolFaults = 0
  MaxRestarts = 1
  MaxRetries = 1
  SvcKeys = {}
  InitialServices <- OnlyNewServices
  SvcOps = {}
  MaxSvcOps = 0
  MaxSvcFaults = 0
  MaxSvcRetries = 1
  FipKeys = {k1}
  InitialFloatingIPs <- NewOrNoFips
  FipOps = {"create", "ip", "touch", "status", "delete", "resync"}
  MaxFipOps = 1
  MaxFipFaults = 0
  MaxFipRetries = 1
CHECK_DEADLOCK FALSE
INVARIANTS
  AsksEmptyHanded
  StatusIsLeased
  StatusAsAsked
  DeletedHoldsNothing
