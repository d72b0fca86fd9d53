SPECIFICATION Spec
CONSTANTS
  FirstFd = 1  LastFd = 3  ServerFd = 0
  HasTap = FALSE  TapMac = A  ConfBridge = FALSE
  NoBroadcast = FALSE  NoMulticast = FALSE
  MaxVars = 4  SyscallsFail = FALSE
  A = A  B = B  C = C  M = M  Bcast = Bcast  Nil = Nil
  Unicast <- UnicastABC  Multicast <- MulticastM  Broadcast = Bcast  Zero = Nil
  Requests <- ForwardRequests
  Messages <- ForwardMessages
  TapFrames = {}
  MaxConns = 3  MaxSends = 1
INVARIANTS TypeOK TableOK PendingWatched RightParser ReplyFirst
PROPERTY SpuriousEventHarmless
CHECK_DEADLOCK FALSE
