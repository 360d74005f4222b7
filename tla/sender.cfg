SPECIFICATION FairSpec
CONSTANTS
  Stream = stream
  Setters = {stream, app}
  NoSetter = NoSetter
  Untold = Untold
  DefaultRate = 4
  Rates = {1, 3}
  Multiply = 2
  RateModulus = 5
  MaxChanges = 2
  MaxClock = 2
  MaxErrors = 1
INVARIANTS SenderTypeOK TargetFollowsSetting EncoderFollowsRate ClockPanicIsExplained FreedOnlyIfUnnamed
PROPERTY EndOfStreamEndsProgram
CHECK_DEADLOCK FALSE
