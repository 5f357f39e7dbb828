CONSTANTS
  WordRange = 24
  FirstInterval = 2
  MaxRetries = 2
  u1 = u1
  u2 = u2
  gw = gw
  host = host
  far = far
  User = {u1, u2}
  Node = {gw, host}
  Gateway = gw
  RemoteHost <- MCRemote
  MaxReplaced = 1
  RxSize = 7
  SeqRange = 16
  StreamLength = 11
  MaxSegment = 5
  MaxStale = 8
  Connections = 1
  File = {"index"}
  Content <- MCContent
  Protected = {"index"}
  Form = {"index"}
  Script <- MCScript
  RxFifo = 3
  TxFifo = 2
SPECIFICATION StackSpec
INVARIANTS
  NeverToAnotherNode
  RxInv
PROPERTIES
  RepeatedInTime
  ArpRecovers
  StreamGetsThrough
  WatchdogWorksAlone
