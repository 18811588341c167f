SPECIFICATION Spec
CONSTANTS
  MACs = {a}
  IPs = {i, j}
  Hosts = {h}
  Names = {}
  Vendors = {}
  Labels = {}
  MaxTime = 7
  None = None
  Unsure = Unsure
  Interval = 2
  Jitter = 1
  MinWindow = 3
  TTL = 1
  Linger = 1
  Watched = a
  Neighbours = {b}
  Name = h
SYMMETRY EitherAddress
INVARIANTS
  TypeOK
  AnswersFollow
  PresentIsOnline
  GoneIsOffline
