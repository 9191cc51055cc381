SPECIFICATION Spec

CONSTANTS
  Networks = {home, venue}
  Helpers = {h1, h2}
  Nobody = Nobody
  MaxAttempts = 2
  WindowTicks = 2
  SessionTicks = 1
  MaxPolls = 1

INVARIANT
  OneGoodCopy
