SPECIFICATION FairSpec
CONSTANTS
  r1 = r1
  r2 = r2
  None = None
  Requests = {r1, r2}
  IdSpace = 2
  MaxEncoders = 2
  MaxCommands = 2
  Offered = {None}
INVARIANTS
  TypeInvariant
  UniqueStreams
  StreamLedger
PROPERTIES
  CallsReturn
CHECK_DEADLOCK FALSE
