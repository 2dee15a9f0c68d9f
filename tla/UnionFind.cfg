CONSTANTS
  N = 5
  MaxFrames = 5
  MayRename = FALSE
SPECIFICATION FairSpec
INVARIANTS TypeOK TreeOfClass CountIsSize DepthIsLogarithmic
PROPERTIES FindReturns IsPartition
