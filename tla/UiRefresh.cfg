SPECIFICATION OneAtATimeSpec
CONSTANTS
  MACs = {a}
  Static = Static
  Slots = {s, t}
  None = None
  Pending = Pending
INVARIANTS
  TypeOK
  FormFollowsUser
  EditKeepsTarget
PROPERTIES
  PageCatchesUp
  ScanButtonReturns
