CONSTANTS
  NULL = NULL
  Order = 7
  XCoord <- RunXCoord
  PrivKey = 3
  Digests <- RunDigests
  ByteBits = 2
  Offered <- RunOffered
SPECIFICATION Spec
INVARIANTS
  ErrorsAreNoVerdicts
