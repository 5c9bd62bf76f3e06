SPECIFICATION Spec
CONSTANTS
  s1 = s1
  s2 = s2
  s3 = s3
  Schemas <- MCSchemas
  NoHash = NoHash
PROPERTY
  ReconnectsOnRestart
