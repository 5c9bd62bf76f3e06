SPECIFICATION LockSpec
CONSTANTS
  p1 = p1
  p2 = p2
  p3 = p3
  Process <- MCProcess
  NoFile = NoFile
  Access <- MCAccess
SYMMETRY MCSymmetry
INVARIANTS
  LockTypeInvariant
  SoleUnlessOverlap
PROPERTY
  RefusedOnlyIfHeld
