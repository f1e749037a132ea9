CONSTANTS
  Inputs <- RunInputs
  Regs = {r1, r2}
  Excess = 1
  Infinity = Infinity
  Undefined = Undefined
SPECIFICATION Spec
INVARIANTS
  TypeOK
  AnswersMatch
PROPERTY ImplementsLaw
