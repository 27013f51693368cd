SPECIFICATION Spec
CONSTANTS
  Bits <- MCBits
  Bits4 <- MCBits4
  Size <- MCSize
  Base4 <- MCBase4
  CIDRs <- MCCIDRs
  Ranges <- MCRanges
CHECK_DEADLOCK FALSE
INVARIANTS
  TypeOK
  Tiles
  FewPrefixes
  ContainsListed
  ScansInOrder
