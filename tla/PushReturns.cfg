SPECIFICATION FairSpec
CONSTANTS
  Ids <- MCIds
  Clients = {c1}
  ClientOps <- MCPushOnly
  MaxSize = 2
  SendCap = 1
  CompleteCap = 1
  MaxPush = 2
  Devices <- MCDevices
  DeviceOf <- MCDeviceOf
PROPERTY PushReturns
CHECK_DEADLOCK FALSE
