SPECIFICATION FairSpec
CONSTANTS
  Thread = {w1, w2, w3}
  NoThread = NoThread
  MaxQueue = 3
  MaxTasks = 5
INVARIANT NoLostWakeup
INVARIANT CleanExit
PROPERTY FullRingWithoutWorkerIsFinal
PROPERTY ImplementsExecutor
PROPERTY AcceptedTaskFinishes
PROPERTY QuitReturns
