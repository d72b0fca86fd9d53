SPECIFICATION FairSpec
CONSTANTS
  w1 = w1  w2 = w2  cucumber = cucumber
  Windows <- TwoWindows  Ids <- OneId  Id <- SharedId
  Senders <- OneSender  Slots <- ThreeSlots  Servers <- EitherServer  None = None
  MaxSends = 2  MaxGiveUps = 2  MaxRestarts = 1
INVARIANTS TypeOK AtMostOnce InOrder Accounted NoServerError
PROPERTIES Collected
