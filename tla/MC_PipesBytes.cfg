SPECIFICATION PipesSpec
CONSTANTS
  Areas = {"bytes"}
  Blk = 4
  MaxTotal = 6
  Inputs <- MCInputs
  Help <- MCHelp
  Exit <- MCExit
  Names <- MCNames
  ArgBuf = 4
  OpenMax = 9
  FirstFd = 3
  MaxLines = 2
  MaxOrphans = 1
  Jobs = {j1, j2}
  Word = 4
  MaxTyped = 2
INVARIANTS BytesInOrder
CHECK_DEADLOCK FALSE
