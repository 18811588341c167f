SPECIFICATION Spec
CONSTANTS
  a = a
  b = b
  c = c
  v = v
  MACs = {a, b}
  IPs = {i, j}
  Hosts = {}
  Names = {n}
  Vendors = {v}
  Labels = {}
  MaxTime = 0
  None = None
  Unsure = Unsure
  ArpTables <- Tables
  SelfName = n
  VendorOf <- OneVendor
  MaxProbes = 1
  Interval = 1
  ReprobeAfter = 0
INVARIANTS
  TypeOK
  MaterialIsSaved
PROPERTIES
  DeletedStaysDeleted
  NamesComeFromCurrentAddress
