CONSTANTS
  NFrames = 10
  Tab = 4
  KHeap = 3
  KStack = 4
  KSEnd = 6
  UMem = 8
  UStack = 20
  NPages = 24
  Procs = {1, 2}
  Images <- MCImages
  Ends <- MCEnds
  Incrs <- MCIncrs
  MaxCalls = 5
SPECIFICATION FairSpec
INVARIANTS NoSharing FramesSound CleanExec
PROPERTY CallsReturn
