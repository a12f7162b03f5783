SPECIFICATION Spec
CONSTANTS
  t1 = t1
  t2 = t2
  t3 = t3
  NULL = NULL
  Tasks = {t1, t2, t3}
  Topologies <- Mixed
  QLen = 2
  BroadcastMax = 3
  MaxMsgs = 3
  MaxPrms = 2
INVARIANTS MsgInOnePlace AcksExpected PrmInUse
PROPERTY SendsReturn
CHECK_DEADLOCK FALSE
