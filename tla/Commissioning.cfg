SPECIFICATION Spec
CONSTANTS
  Configs <- MCConfigs
  Pairs <- MCPairs
  DeviceConfig <- MCDevice
  MaxNodes = 3
  FirstNodes = 2
  MaxGone = 1
  Foreign <- MCForeign
INVARIANTS
  TypeInvariant
  CodeTellsDevice
  CleanupExact
PROPERTY
  AttemptEnds
