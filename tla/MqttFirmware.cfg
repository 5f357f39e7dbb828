CONSTANTS
  m1 = m1
  m2 = m2
  RingSize = 3
  Kinds = {"publish"}
  Bodies = {m1, m2}
  QOS = 1
  Unsolicited = {}
  MaxInbound = 2
  CallsEndUsage = FALSE
  BeginsAgain = FALSE
  DnsTimeout = 0
  ReplyTimeout = 0
  ReconnectDelay = 0
  PingInterval = 1
  PingTimeout = 0
  AckTimeout = 0
SPECIFICATION FairSpec
INVARIANTS
  ResourcesMatchState
  SessionMatchesState
  OneAckAtATime
  ReaderStartsAfresh
PROPERTIES
  ImplementsSession
  DeadLinkNoticed
  TriesAgain
