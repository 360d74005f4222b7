SPECIFICATION Spec
CONSTANTS
  Timers = {t1, t2}
  NoOne = NoOne
  MaxBuffers = 4
  MaxFlushes = 2
PROPERTY AllPassThrough
CHECK_DEADLOCK FALSE
