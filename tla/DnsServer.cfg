SPECIFICATION OneByOneSpec
CONSTANTS
  g = g
  h = h
  i = i
  MACs = {a}
  IPs = {i, j}
  Hosts = {g, h}
  Names = {}
  Vendors = {}
  Labels = {}
  MaxTime = 0
  None = None
  Unsure = Unsure
  UDPLanes = {u}
  TCPLanes = {t}
  Questions <- EveryKind
  V6 = {j}
  Rank <- ByName
  LongHosts = {h}
  SingleLabel = TRUE
  NumUpstreams = 2
  MaxTCPQueries = 2
INVARIANTS
  TypeOK
  AnsweredAsOfOneMoment
  OwnNamesStayHome
  ServFailAfterAll
PROPERTIES
  QueriesAreAnswered
