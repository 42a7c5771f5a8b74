SPECIFICATION PipesSpec
CONSTANTS
  Areas = {"shell"}
  Blk = 3
  MaxTotal = 7
  Inputs <- MCInputs
  Help <- MCHelp
  Exit <- MCExit
  Names <- MCNames
  ArgBuf = 4
  OpenMax = 9
  FirstFd = 3
  MaxLines = 2
  MaxOrphans = 1
  Jobs = {j1, j2}
  Word = 4
  MaxTyped = 2
INVARIANTS LaunchWaits
CHECK_DEADLOCK FALSE
