SPECIFICATION FairSpec
CONSTANTS
  Tasks <- MCTasks
  TaskIds <- MCTasks
  IdOf <- MCIdOf
  PriorityOf <- MCPriorityOf
  ChanCap = 1
PROPERTY EmergencyIsServed
CHECK_DEADLOCK FALSE
