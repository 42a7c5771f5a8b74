CONSTANTS
  MaxPid = 5
  Word = 8
SPECIFICATION FairSpec
INVARIANTS
  TypeOK
  QueueHoldsTheDead
  ChildrenCounted
  NoLostWakeup
  NoCycle
  SomeTaskReady
PROPERTIES
  ImplementsLifecycle
  StarvationFree
  WaitReturns
