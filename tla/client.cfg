SPECIFICATION Spec
CONSTANTS
  Reconnects = TRUE
  supported_versions = {1}
  Versions = {1, 4}
  MaxConns = 2
  MaxTimers = 2
  MaxWire = 1
CHECK_DEADLOCK FALSE
INVARIANT OneConnection
PROPERTIES NoFalseDeath SilenceNoticed ComesBack
