CONSTANTS
  m1 = m1
  m2 = m2
  RingSize = 2
  Kinds = {"publish"}
  Bodies = {m1}
  QOS = 1
  Unsolicited = {}
  MaxInbound = 2
  CallsEndUsage = FALSE
  BeginsAgain = FALSE
  DnsTimeout = 1
  ReplyTimeout = 1
  ReconnectDelay = 1
  PingInterval = 2
  PingTimeout = 1
  AckTimeout = 1
SPECIFICATION FairSpec
PROPERTY NoStateOutlivesLink
