SPECIFICATION Spec
CONSTANTS
  FirstFd = 1  LastFd = 2  ServerFd = 0
  HasTap = FALSE  TapMac = A  ConfBridge = FALSE
  NoBroadcast = FALSE  NoMulticast = FALSE
  MaxVars = 4  SyscallsFail = FALSE
  A = A  B = B  C = C  M = M  Bcast = Bcast  Nil = Nil
  Unicast <- UnicastABC  Multicast <- MulticastM  Broadcast = Bcast  Zero = Nil
  Requests <- KillRequests
  Messages <- NoMessages
  TapFrames = {}
  MaxConns = 2  MaxSends = 0
INVARIANT BatchLive
CHECK_DEADLOCK FALSE
