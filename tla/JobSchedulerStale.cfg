SPECIFICATION Spec
CONSTANTS
  Jobs = {j1}
  Once = {}
  Limit = 2
  MaxOcc = 2
  MaxDefers = 1
  MaxEdits = 2
  MaxTroubles = 0
PROPERTY StaleNeverRuns
CHECK_DEADLOCK FALSE
