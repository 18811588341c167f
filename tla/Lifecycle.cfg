SPECIFICATION LifeFairSpec
CONSTANTS
  MACs = {a}
  IPs = {}
  Hosts = {}
  Names = {n}
  Vendors = {v}
  Labels = {}
  MaxTime = 1
  MaxRows = 1
  None = None
  Unsure = Unsure
INVARIANTS
  LifeTypeOK
  StopLosesNothing
  CleanMeansSaved
PROPERTIES
  ImplementsStore
  ShutdownEnds
