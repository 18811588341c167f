SPECIFICATION ErrSpec
CONSTANTS
  MACs = {a}
  IPs = {i}
  Hosts = {g, h}
  Names = {}
  Vendors = {}
  Labels = {l}
  MaxTime = 0
  MaxRows = 1
  None = None
  Unsure = Unsure
PROPERTIES
  RenameAllOrNothing
