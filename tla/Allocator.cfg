SPECIFICATION Spec
CONSTANTS
  NoIP = NoIP
  NoKey = NoKey
  Malformed = Malformed
  ip1 = ip1
  ip2 = ip2
  ip3 = ip3
  long1 = long1
  junk = junk
  k1 = k1
  k2 = k2
  left = left
  right = right
  bad = bad
  IPs <- MCIPs
  IPStrings <- MCIPStrings
  Canonical <- MCCanonical
  Keys <- MCKeys
  Entries <- MCEntries
  Addresses <- MCAddresses
  ParseCIDR <- MCParseCIDR
SYMMETRY KeySymmetry
INVARIANTS
  TypeOK
  UsedByOwner
  ExclusiveLease
PROPERTIES
  ImplementsLeases
