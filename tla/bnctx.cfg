\* Bundles of two numbers and room for two frames at first, so that both
\* memories grow twice and every release across a bundle's edge happens.
CONSTANTS
  PoolSize = 2
  StartFrames = 2
  MaxUsed = 6
  MaxOpen = 5
SPECIFICATION CtxSpec
INVARIANTS
  CtxTypeOK
  FramesMatch
PROPERTY ImplementsFrames
