SPECIFICATION FairSpec
CONSTANTS
  d1 = d1
  d2 = d2
  plain = plain
  driven = driven
  sensor = sensor
  NoChild = NoChild
  Devices <- MCDevices
  Switches <- MCSwitches
  Sensors <- MCSensors
  Parent <- MCParent
  HardwareDriven <- MCHardwareDriven
INVARIANTS
  TypeInvariant
  ReachableFollowsDevice
  NoLostNotification
PROPERTIES
  MasterOffReachesAll
  OffBeforeUnreachable
  RefinesLiveView
