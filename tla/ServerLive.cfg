SPECIFICATION FairSpec
CONSTANTS
  j1 = j1
  u1 = u1
  u2 = u2
  b1 = b1
  m1 = m1
  NoLetter = NoLetter
CHECK_DEADLOCK FALSE
PROPERTIES RunsSettle HubSettles
