SPECIFICATION FairSpec
CONSTANTS
  a = a  b = b
  Clients <- TwoClients  Ports <- ThreePorts  NoPort = 0
  Address <- Addresses  Hosts <- Behind  Destinations <- Targets
  BridgeClients <- JustB
  NoBroadcast = FALSE  NoMulticast = FALSE
  A = A  B = B  C = C  M = M  Bcast = Bcast  Nil = Nil
  Unicast <- UnicastABC  Multicast <- MulticastM  Broadcast = Bcast  Zero = Nil
  MaxConns <- Connects  MaxSends = 2
INVARIANTS TypeOK InOrder NoEcho Private
PROPERTIES AddressSettles ClientsKeepPromise
CHECK_DEADLOCK FALSE
