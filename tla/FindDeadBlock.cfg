SPECIFICATION Spec
CONSTANTS
  Transports = {"ws"}
  MaxThrottle = 2
  F = F
  Messages <- OneFrame  Frames <- OneFrame
  Reply101 = Reply101  Refusal = Refusal  Close = Close  Torn = Torn
  Request = Request  WsPing = WsPing  TapFrame = TapFrame
  Capacity = 1  MaxSends = 3  MaxTap = 2
INVARIANT NeverDeadBlocked
CHECK_DEADLOCK FALSE
