SPECIFICATION FairSpec
CONSTANTS
  SeqModulus = 8
  DeltaModulus = 4
  VectorBits = 3
  Lengths <- MCLengths
  Bases = {0, 4, 5}
  Counts = {0, 1, 4}
  Runs = {0, 1, 2, 5}
  RefTimes = {0, 1}
  SmallDeltas = {0, 3}
  LargeDeltas <- MCLargeDeltas
INVARIANTS ParserTypeOK ReportIsContiguous TimesAreCongruent PanicOnlyAcrossWrap
PROPERTY ParseEnds
CHECK_DEADLOCK FALSE
