SPECIFICATION Spec
CONSTANTS
  v1 = v1
  v2 = v2
  v3 = v3
  Version = {v1, v2, v3}
  Size <- MCSize
  Mixed = Mixed
  NoFile = NoFile
  HasBootId = TRUE
  MaxEvents = 4
INVARIANTS
  IndInv
  TrustedIsPrefix
  ReadOnce
PROPERTIES
  AtomicSpec
  Completes
CHECK_DEADLOCK FALSE
