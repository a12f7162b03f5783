SPECIFICATION Spec
CONSTANTS
  Kinds <- Reconnecting
  Fds = {3, 4}
PROPERTY ConnectedBeats
CHECK_DEADLOCK FALSE
