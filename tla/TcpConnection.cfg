CONSTANTS
  TxSize = 2
  RxRoom = 2
  MSS = 2
  WordRange = 8
  PeerWindow = 2
  MaxPut = 2
  MaxRetries = 1
  MaxSynRetries = 1
  MaxKeepAlives = 1
SPECIFICATION FairSpec
INVARIANTS
  TcpInv
PROPERTIES
  DeadPeerNoticed
  ImplementsSocket
CHECK_DEADLOCK FALSE
