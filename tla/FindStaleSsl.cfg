SPECIFICATION Spec
CONSTANTS
  Transports = {"wss"}
  MaxThrottle = 2
  F = F
  Messages <- OneFrame  Frames <- OneFrame
  Reply101 = Reply101  Refusal = Refusal  Close = Close  Torn = Torn
  Request = Request  WsPing = WsPing  TapFrame = TapFrame
  Capacity = 1  MaxSends = 1  MaxTap = 1
INVARIANT SessionsClosedOnce
CHECK_DEADLOCK FALSE
