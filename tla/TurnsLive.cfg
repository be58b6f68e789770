SPECIFICATION FairSpec
CONSTANTS
  u1 = u1
  u2 = u2
  NoRow = NoRow
CHECK_DEADLOCK FALSE
PROPERTIES QueueDrains TurnsSettle PeersSettle
