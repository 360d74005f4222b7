SPECIFICATION TxSpec
CONSTANTS
  SeqModulus = 8
  MaxInterPacketTime = 2
  InTransitWindow = 1
  HistoryLength = 2
  MaxIntervals = 2
  StartSeqs = {0}
  Sizes = {1}
  RxTimes = {1}
  MaxTime = 2
  StartTwcc <- MCFirstOne
  MaxBatch = 2
  MaxSent = 5
PROPERTY FeedbackNamesItsPacket
CHECK_DEADLOCK FALSE
