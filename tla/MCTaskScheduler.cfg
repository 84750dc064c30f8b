SPECIFICATION FairSpec
CONSTANTS
  Tasks <- MCTasks
  TaskIds <- MCTasks
  IdOf <- MCIdOf
  PriorityOf <- MCPriorityOf
  ChanCap = 1
INVARIANTS TypeOK Conservation WithdrawnIsNotDispatched TrackedIsWatched
PROPERTIES NoOvertaking CancelledStays ActiveIsReleased StopReturns
CHECK_DEADLOCK FALSE
