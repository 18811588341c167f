SPECIFICATION QuietSpec
CONSTANTS
  a = a
  b = b
  c = c
  v = v
  MACs = {a, b, c}
  IPs = {i}
  Hosts = {}
  Names = {n}
  Vendors = {}
  Labels = {}
  MaxTime = 0
  None = None
  Unsure = Unsure
  ArpTables <- StillTables
  SelfName = n
  VendorOf <- NoVendors
  MaxProbes = 1
  Interval = 1
  ReprobeAfter = 1
PROPERTIES
  NamelessIsProbed
