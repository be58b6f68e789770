SPECIFICATION AllSpec
CONSTANTS
  c1 = c1
  c2 = c2
  o1 = o1
  t1 = t1
  None = None
  MaxLegs = 3
  LiveCalls = {TRUE, FALSE}
  Crashing = TRUE
  Notifying = FALSE
CHECK_DEADLOCK FALSE
INVARIANTS LedgerSound SessionsSound
PROPERTIES LegsLawful
