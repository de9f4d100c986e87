SPECIFICATION Spec
CONSTANTS
  Client = {"screen", "speaker"}
  SceneOf <- MCSceneOf
  DevOf <- MCDevOf
  Handler = {"h1"}
  MaxStream = 3
  MaxMem = 2
INVARIANTS StreamsShareClock
CHECK_DEADLOCK FALSE
