CONSTANTS
  MaxSockets = 3
  DnsPatience = 0
  HasSecondary = TRUE
  MqttPatience = 1
  SntpPatience = 1
  SntpInterval = 0
  MqttLiteral = FALSE
SPECIFICATION FairSpec
INVARIANTS
  SocketsAccountedFor
  OnlyAddressesAreUsed
PROPERTIES
  SntpKeepsTrying
  OnlySntpAbandonsDns
