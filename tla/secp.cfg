CONSTANTS
  NULL = NULL
  Order = 7
  XCoord <- RunXCoord
  YCoord <- RunYCoord
  TopByte = 9
  MaxLag = 2
SPECIFICATION FairSpec
INVARIANTS
  KeysStayPaired
  SignaturesVerify
PROPERTY
  SigningEnds
