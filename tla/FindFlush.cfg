SPECIFICATION FairSpec
CONSTANTS
  FirstFd = 1  LastFd = 2  ServerFd = 0
  HasTap = FALSE  TapMac = A  ConfBridge = FALSE
  NoBroadcast = FALSE  NoMulticast = FALSE
  MaxVars = 4  SyscallsFail = FALSE
  A = A  B = B  C = C  M = M  Bcast = Bcast  Nil = Nil
  Unicast <- UnicastABC  Multicast <- MulticastM  Broadcast = Bcast  Zero = Nil
  Requests <- LiveRequests
  Messages <- LiveMessages
  TapFrames = {}
  MaxConns = 2  MaxSends = 2
PROPERTY FlushedEventually
CHECK_DEADLOCK FALSE
