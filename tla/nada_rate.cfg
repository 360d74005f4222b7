SPECIFICATION BoundedNadaSpec
CONSTANTS
  SeqModulus = 8
  MaxInterPacketTime = 2
  InTransitWindow = 3
  HistoryLength = 2
  MaxIntervals = 2
  StartSeqs <- MCStart
  Sizes = {1}
  RxTimes = {0, 2}
  MaxTime = 2
  Delta = 1
  QEps = 1
  MinPacketLog = 3
  Rates = {0, 2, 4}
  DefaultBw = 2
  DefaultMinBw = 2
  DefaultMaxBw = 3
  GlueMinBw = 1
  GlueMaxBw = 3
  MaxLog = 3
INVARIANTS NadaTypeOK BandwidthInRange
PROPERTIES RampUpOnCleanLog RateIsPaced
CHECK_DEADLOCK FALSE
