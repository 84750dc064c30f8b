SPECIFICATION FairSpec
CONSTANTS
  MaxVersion = 2
  Axes <- MCAxes
  AxisDevice <- MCAxisDevice
  DecomposeTree <- DecomposeNode
  Shapes <- MCShapes
  ChanSize = 1
  MaxTasks = 2
  EventBuffer = 1
  MaxTicks = 1
  Requests = {"home"}
  MaxStarts = 2
INVARIANTS TypeOK PanicOnlyAfterClose NamedIdsDistinct
PROPERTIES ConfigNeverGoesBack HotReload ShutdownProgress
CHECK_DEADLOCK FALSE
