SPECIFICATION Spec

CONSTANTS
  Requests = {r1, r2}
  Never = Never
  IdleTimeout = 2
  ReadyWindow = 1
  DemoTimeout = 2
  ArduinoTimeout = 1
  MaxPlayers = 2

PROPERTIES
  IdleIsEarned
  ReadyIsEarned
