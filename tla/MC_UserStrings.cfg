SPECIFICATION UserSpec
CONSTANTS
  Areas = {"strings"}
  EnvNames <- MCEnvNames
  EnvVals <- MCEnvVals
  Stale <- MCStale
  NoValue = NoValue
  EnvSlots = 2
  Align = 4
  MaxEnv = 3
  Argvs <- MCArgvs
  Envps <- MCEnvps
  Equals = 3
  Top = 320
  StackSize = 56
  Junk = 7
  Fds = {0, 1}
  MaxCalls = 2
  PageSize = 2
  Limit = 10
  Word = 64
  Blocks = {"a", "b", "c"}
  MaxAsk = 3
  StrSize = 6
  StrChars = {1, 2}
  Delims <- MCDelims
INVARIANT MovesBlock
CHECK_DEADLOCK FALSE
