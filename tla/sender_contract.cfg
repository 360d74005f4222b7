SPECIFICATION ContractSpec
CONSTANTS
  SeqModulus = 8
  MaxInterPacketTime = 2
  InTransitWindow = 3
  HistoryLength = 2
  MaxIntervals = 3
  StartSeqs <- MCStart
  Sizes = {1}
  RxTimes <- MCRx
  MaxTime = 4
INVARIANTS TypeOK InTransitIsTail NumbersInOrder NoAbort LogWithinWindow SizeSumExact BaseDelayIsLeast IntervalsMatchLog
PROPERTY LogGrowsInOrder
CHECK_DEADLOCK FALSE
