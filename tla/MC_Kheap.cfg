CONSTANTS
  Page = 4
  Skew = 2
  Base = 4
  Limit = 24
  Word = 256
  Requests <- MCRequests
SPECIFICATION Spec
INVARIANTS
  ListSound
  BlocksKept
