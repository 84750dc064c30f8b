SPECIFICATION FairSpec
CONSTANTS
  Ids <- MCIds
  Clients = {c1}
  ClientOps <- MCPushOnly
  MaxSize = 2
  SendCap = 2
  CompleteCap = 1
  MaxPush = 2
  Devices <- MCDevices
  DeviceOf <- MCDeviceOf
PROPERTY AcceptedCommandsSettle
CHECK_DEADLOCK FALSE
