SPECIFICATION Inputs
CONSTANTS
  MaxLabel = 2
  MaxTotal = 5
  MaxDepth = 2
  Uppers = {4}
  ToLower = 3
  Error = Error
  PTR = 1
  NBStat = 2
  ClassIN = 1
  Local <- LocalLabel
  Blank = 4
  Unprintable = {0, 1}
  NameLen = 2
  Width = 6
  Bytes = {0, 1, 2, 4, 9}
  MaxLen = 7
  MaxPad = 3
  MaxData = 2
  MaxList = 6
  MaxHosts = 14
  WireNames <- AllTestNames
INVARIANTS
  DecodeReads
  DecodersAgree
  WrittenIsRead
  HostsAreTheSubnet
  RepliesReadBack
  NodeNameIsFirst
CHECK_DEADLOCK FALSE
