SPECIFICATION Spec
CONSTANTS
  FirstFd = 1  LastFd = 3  ServerFd = 0
  HasTap = TRUE  TapMac = C  ConfBridge = TRUE
  NoBroadcast = TRUE  NoMulticast = FALSE
  MaxVars = 3  SyscallsFail = TRUE
  A = A  B = B  C = C  M = M  Bcast = Bcast  Nil = Nil
  Unicast <- UnicastABC  Multicast <- MulticastM  Broadcast = Bcast  Zero = Nil
  Requests <- SwitchRequests
  Messages <- SwitchMessages
  TapFrames <- SwitchTapFrames
  MaxConns = 2  MaxSends = 2
INVARIANT TableOK
PROPERTIES ImplementsSwitch NoHairpin
CHECK_DEADLOCK FALSE
