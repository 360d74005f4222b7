SPECIFICATION FairRxSpec
CONSTANTS
  Streams = {1, 2}
  SeqModulus = 16
  HistorySize = 8
  Reported = 8
  AckDiff = 3
  PacketsDue = 3
  StreamDue = 1
  Intervals = {1}
  PerMessage = 1
  AgeCap = 2
  Starts <- MCStarts
  MaxGap = 3
  MaxLate = 1
  MaxRecv <- MCMaxRecv
  LastNumber = 20
INVARIANTS RxTypeOK BlocksAreTrue
PROPERTIES HoleLossIsExplained PendingIsReported
CHECK_DEADLOCK FALSE
