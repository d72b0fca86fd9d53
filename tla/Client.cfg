SPECIFICATION FairSpec
CONSTANTS
  Transports = {"ws", "wss"}
  MaxThrottle = 1
  F = F
  Messages <- AllMessages  Frames <- OneFrame
  Reply101 = Reply101  Refusal = Refusal  Close = Close  Torn = Torn
  Request = Request  WsPing = WsPing  TapFrame = TapFrame
  Capacity = 2  MaxSends = 3  MaxTap = 1
INVARIANTS TypeOK InOrder
PROPERTIES ImplementsLink CloseNoticed ServerHeard TapServed
CHECK_DEADLOCK FALSE
