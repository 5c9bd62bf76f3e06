SPECIFICATION FairSpec
CONSTANTS
  temperature = temperature
  contact = contact
  NoCell = NoCell
  Cells <- MCCells
  Synced <- MCSynced
  Values <- MCValues
  MaxVersion = 2
INVARIANTS
  TypeInvariant
  SyncedFilterSafe
  NoLostUpdate
PROPERTY
  RefinesLiveView
