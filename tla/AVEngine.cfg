SPECIFICATION Spec
CONSTANTS
  Owner = {"screen"}
  Dev = {"d1"}
  SPECIAL = "special"
  Listener <- MCListener
  NoListener = "null"
  MaxSock = 2
  MaxThread = 2
  Engine = {"eng", "twin"}
  Streaming = {"eng"}
  Made <- MCMade
  Provider = "provider"
  ServerSess <- MCServerSess
  MediaTag = {"AUDIO_SAMPLE_RATE"}
INVARIANTS RunningNeedsPipeline OpenedIsUnderWay
CHECK_DEADLOCK FALSE
