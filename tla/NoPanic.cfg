SPECIFICATION XSpec
CONSTANTS
  Ids <- MCIds
  Clients = {c1}
  ClientOps <- MCPushStop
  MaxSize = 2
  SendCap = 2
  CompleteCap = 1
  MaxPush = 2
  Devices <- MCDevices
  DeviceOf <- MCDeviceOf
INVARIANT NoPanic
CHECK_DEADLOCK FALSE
