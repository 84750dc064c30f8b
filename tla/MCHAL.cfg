SPECIFICATION Spec
CONSTANTS
  t1 = t1  t2 = t2  t3 = t3  d1 = d1
  Tasks = {t1, t2, t3}
  Direct = {t2}
  Types <- MCTypes
  Ids = {"x", "y", "q", "s"}
  Configured <- MCConfigured
  Needs <- MCNeeds
  NoType = NoType
  Devices = {d1}
  Writers = {w1}
  Targets <- MCTargets
  NoDevice = NoDevice
  Protocol <- MCProtocol
INVARIANTS TypeOK NoOrphan Exclusive StatusAgrees ReportedWasSent
CHECK_DEADLOCK FALSE
