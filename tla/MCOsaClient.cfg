SPECIFICATION Spec
CONSTANTS
  Kinds <- AllKinds
  Fds = {3, 4}
INVARIANTS ProcessBeforeFree OneSocket HandleSocketOpen
PROPERTIES HeartKeepsBeating StopsOnceConnected
CHECK_DEADLOCK FALSE
