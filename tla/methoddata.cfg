CONSTANTS
  Threads = {t1, t2, t3}
  Kinds = {"ECDSA", "ECDH"}
  Addresses = {a1, a2, a3, a4}
  NULL = NULL
SPECIFICATION Spec
SYMMETRY Interchangeable
INVARIANTS
  TypeOK
  OneOwner
  HeldIsLive
  KeyOutlivesHolders
PROPERTIES
  NullMeansNoMemory
  ImplementsCell
\* Once the key is freed nothing is left to do.
CHECK_DEADLOCK FALSE
