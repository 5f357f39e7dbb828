CONSTANTS
  WordRange = 24
  FirstInterval = 2
  MaxRetries = 2
SPECIFICATION GatewaySpec
PROPERTIES
  RepeatedForEver
