SPECIFICATION Spec
CONSTANTS
  g = g
  h = h
  i = i
  MACs = {a}
  IPs = {i}
  Hosts = {g, h}
  Names = {}
  Vendors = {}
  Labels = {}
  MaxTime = 0
  None = None
  Unsure = Unsure
  UDPLanes = {u}
  TCPLanes = {}
  Questions <- EveryKind
  V6 = {}
  Rank <- ByName
  LongHosts = {h}
  SingleLabel = TRUE
  NumUpstreams = 2
  MaxTCPQueries = 2
INVARIANTS
  SingleLabelGoesUpstream
