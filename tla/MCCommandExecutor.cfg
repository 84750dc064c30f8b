SPECIFICATION FairSpec
CONSTANTS
  Ids <- MCIds
  Clients = {c1}
  ClientOps <- MCPushStop
  MaxSize = 2
  SendCap = 1
  CompleteCap = 1
  MaxPush = 2
  Devices <- MCDevices
  DeviceOf <- MCDeviceOf
INVARIANTS XTypeOK WriteTakesTwoPushes CompletedWasWritten
PROPERTIES SentCommandsSettle StopReturns
CHECK_DEADLOCK FALSE
