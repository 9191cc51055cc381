SPECIFICATION Spec

CONSTANTS
  NoKey = NoKey
  Statuses = {"ready", "running"}
  NoStatus = "none"
  MaxEvents = 3
  MaxHistory = 2
  MaxMade = 3

INVARIANTS
  NeverAgain
