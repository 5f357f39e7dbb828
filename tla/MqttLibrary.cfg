CONSTANTS
  m1 = m1
  m2 = m2
  RingSize = 3
  Kinds = {"subscribe", "unsubscribe"}
  Bodies = {m1}
  QOS = 1
  Unsolicited = {"PUBLISH1", "PINGREQ"}
  MaxInbound = 1
  CallsEndUsage = TRUE
  BeginsAgain = TRUE
  DnsTimeout = 0
  ReplyTimeout = 0
  ReconnectDelay = 0
  PingInterval = 0
  PingTimeout = 0
  AckTimeout = 0
SPECIFICATION Spec
PROPERTIES
  ImplementsSession
