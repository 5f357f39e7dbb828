CONSTANTS
  MaxSockets = 3
  DnsPatience = 0
  HasSecondary = FALSE
  MqttPatience = 1
  SntpPatience = 1
  SntpInterval = 0
  MqttLiteral = FALSE
SPECIFICATION FairSpec
PROPERTY DnsIsReleased
