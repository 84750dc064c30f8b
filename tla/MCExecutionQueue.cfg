SPECIFICATION Spec
CONSTANTS
  Ids <- MCIds
  Clients = {c1, c2}
  ClientOps <- MCOps
  MaxSize = 1
  SendCap = 1
  CompleteCap = 1
  MaxPush = 2
INVARIANTS TypeOK IndexCoversCommands WithinCapacity
PROPERTIES ImplementsCommandTable NoLiveEntryReclaimed
SYMMETRY MCSymmetry
CHECK_DEADLOCK FALSE
