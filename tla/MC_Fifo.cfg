CONSTANTS
  Procs = {1, 2}
  Creator = 1
  Fds = {3, 4}
  Block = 1
  MaxBytes = 2
  Garbage <- MC_Garbage
  MaxOpens = 4
SPECIFICATION FairSpec
INVARIANTS
  CountersExact
PROPERTIES
  OpensMeet
  ReadEnds
