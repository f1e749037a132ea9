CONSTANTS
  Moduli <- MCModuli
  W = 7
  Base = 128
  Pad = 3
  Rounds = 6
  VarRounds = 4
  Limbs = 3
SPECIFICATION FairSpec
INVARIANTS
  TypeOK
  BatchTracks
  NumbersInRange
  ResultIsInverse
PROPERTIES
  ImplementsDivsteps
  CallReturns
\* A call that returned is over; CallReturns says that none stops before.
CHECK_DEADLOCK FALSE
