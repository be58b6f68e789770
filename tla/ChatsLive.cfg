SPECIFICATION LiveSpec
CONSTANTS
  c1 = c1
  c2 = c2
  o1 = o1
  t1 = t1
  None = None
  MaxLegs = 2
  LiveCalls = {FALSE}
  Crashing = TRUE
  Notifying = TRUE
CHECK_DEADLOCK FALSE
PROPERTIES ExchangeSettles
