SPECIFICATION TxSpec
CONSTANTS
  SeqModulus = 8
  MaxInterPacketTime = 2
  InTransitWindow = 1
  HistoryLength = 2
  MaxIntervals = 2
  StartSeqs = {0}
  Sizes = {1}
  RxTimes = {1}
  MaxTime = 2
  StartTwcc <- MCFirstAny
  MaxBatch = 2
  MaxSent = 5
INVARIANTS TxTypeOK NumbersFollowTwcc TailBetweenSends AbortIsExplained PanicsOnlyAtWrap
CHECK_DEADLOCK FALSE
