SPECIFICATION Spec
CONSTANTS
  MaxVersion = 2
  Axes <- MCAxes
  AxisDevice <- MCAxisDevice
  DecomposeTree <- DecomposeNode
  Shapes <- MCShapes
  ChanSize = 1
  MaxTasks = 2
  EventBuffer = 1
  MaxTicks = 1
  Requests = {"home"}
  MaxStarts = 2
INVARIANT HomeReachesAxes
CHECK_DEADLOCK FALSE
