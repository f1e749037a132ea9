CONSTANTS
  Threads = {t1, t2}
  Kinds = {"ECDSA", "ECDH"}
  Addresses = {a1, a2, a3}
  NULL = NULL
SPECIFICATION FairSpec
PROPERTIES
  ChecksReturn
  NothingLeft
\* Once the key is freed nothing is left to do.
CHECK_DEADLOCK FALSE
