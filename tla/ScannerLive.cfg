SPECIFICATION LiveSpec
CONSTANTS
  a = a
  b = b
  c = c
  v = v
  MACs = {a, b, c}
  IPs = {i}
  Hosts = {}
  Names = {}
  Vendors = {}
  Labels = {}
  MaxTime = 0
  None = None
  Unsure = Unsure
  ArpTables <- LiveTables
  SelfName = None
  VendorOf <- NoVendors
  MaxProbes = 1
  Interval = 1
  ReprobeAfter = 2
PROPERTIES
  TriggerIsServed
  RunReturns
  NamelessTakeTurns
