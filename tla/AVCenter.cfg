SPECIFICATION Spec
CONSTANTS
  Owner = {"avsync"}
  Dev = {"d1"}
  SPECIAL = "special"
  Listener <- MCListener
  NoListener = "null"
  MaxSock = 3
  MaxThread = 1
  Client = {"screen", "speaker"}
  NoClient = "none"
  DevOf <- MCDevOf
  Center = "center"
  MaxId = 3
INVARIANTS MapsHoldEngines
CHECK_DEADLOCK FALSE
