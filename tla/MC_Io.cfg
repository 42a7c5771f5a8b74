CONSTANTS
  Areas = {"stdin", "keys", "files"}
  Ring = 4
  MaxRead = 2
  MaxAhead = 4
  MaxKeys = 9
  Keys <- MC_Keys
  MaxWire = 8
  MaxEvents = 3
  Block = 4
  Names = {"b", "long", "stderr"}
  Long = {"long"}
  OpenMax = 4
  FirstFd = 3
  Disks <- MC_Disks
  Sizes = {1, 4}
  Offsets <- MC_Offsets
  Froms = {0, 3}
  MaxCalls = 3
  MaxBytes = 9
SPECIFICATION IoSpec
INVARIANTS
  RingSound
  Decoded
  ModifiersTracked
  InPlace
  PlainCallsSafe
PROPERTIES
  UnsetOnlyWhenFull
  ReadReturns
  NamesStable
CHECK_DEADLOCK FALSE
