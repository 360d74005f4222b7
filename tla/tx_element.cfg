SPECIFICATION FairSpec
CONSTANTS
  Timers = {t1, t2}
  NoOne = NoOne
  MaxBuffers = 4
  MaxFlushes = 2
INVARIANT TypeOK
PROPERTIES ImplementsRelay LossIsExplained NothingAfterFailure QueueDrains SinkReturns
CHECK_DEADLOCK FALSE
