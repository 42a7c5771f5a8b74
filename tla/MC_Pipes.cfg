SPECIFICATION PipesSpec
CONSTANTS
  Areas = {"bytes", "shell", "terminal"}
  Blk = 4
  MaxTotal = 10
  Inputs <- MCInputs
  Help <- MCHelp
  Exit <- MCExit
  Names <- MCNames
  ArgBuf = 4
  OpenMax = 9
  FirstFd = 3
  MaxLines = 2
  MaxOrphans = 2
  Jobs = {j1, j2}
  Word = 4
  MaxTyped = 2
INVARIANTS InOrder PendingInPlace CommandsWired LineDone LineKept Heard
CHECK_DEADLOCK FALSE
